---------------------------- MODULE BackendProofs ----------------------------
(***************************************************************************)
(* What TLAPS proves about the calls of the backends: SeatDispatch, for    *)
(* any number of seats, any provider chains and any retry budget, and then *)
(* BoardFailover for any pool and reserve, every step of which is a step   *)
(* of its contract; BackendRunner, for any number of calls, any cap, any   *)
(* bounds and any requests; and DetachedJobs, whose job runs such calls    *)
(* behind the back of any number of pollers.                               *)
(***************************************************************************)
EXTENDS BoardFailover, BackendRunner, DetachedJobs, FiniteSetTheorems, WellFoundedInduction, TLAPS

-----------------------------------------------------------------------------
(* The provider chain. *)

\* Among any set of indices there is a first one (the operator Earliest).
LEMMA FirstIndex ==
    ASSUME NEW n \in Nat, NEW T \in SUBSET (1..n), T # {}
    PROVE  \E i \in T : \A j \in 1..(i - 1) : j \notin T
<1>1. T \subseteq Nat
  OBVIOUS
<1>2. PICK i \in T : \A j \in T : ~ (<<j, i>> \in OpToRel(<, Nat))
  BY <1>1, NatLessThanWellFounded, WFMin, Zenon
<1>3. ASSUME NEW j \in 1..(i - 1), j \in T
      PROVE  FALSE
  <2>1. j \in Nat /\ i \in Nat /\ j < i
    BY <1>1, <1>3
  <2>2. <<j, i>> \in OpToRel(<, Nat)
    BY <2>1 DEF OpToRel
  <2> QED
    BY <1>2, <1>3, <2>2
<1> QED
  BY <1>3

\* Earliest picks a member of the set it is given (provider_chain's base order).
LEMMA EarliestIsMember ==
    ASSUME NEW s \in Seats, NEW P \in SUBSET InChain(s), P # {}
    PROVE  Earliest(s, P) \in P
<1> DEFINE n == Len(BaseChain[s])
           T == {i \in 1..n : BaseChain[s][i] \in P}
<1>1. n \in Nat
  OBVIOUS
<1>2. T \in SUBSET (1..n) /\ T # {}
  BY DEF InChain
<1>3. PICK i \in T : \A j \in 1..(i - 1) : j \notin T
  BY <1>1, <1>2, FirstIndex
<1>4. \A j \in 1..(i - 1) : j \in 1..n
  BY <1>1
<1>5. \E k \in 1..n : /\ BaseChain[s][k] \in P
                      /\ \A j \in 1..(k - 1) : BaseChain[s][j] \notin P
  BY <1>3, <1>4
<1> QED
  BY <1>5 DEF Earliest

\* A chain is never empty and only holds providers of the seat's base chain.
LEMMA ChainNotEmpty ==
    ASSUME NEW s \in Seats, NEW unpaid \in SUBSET InChain(s), NEW down \in SUBSET InChain(s)
    PROVE  /\ ProviderChain(s, unpaid, down) \in SUBSET InChain(s)
           /\ ProviderChain(s, unpaid, down) # {}
<1> DEFINE paid == IF InChain(s) \subseteq unpaid THEN {Requested(s)} ELSE InChain(s) \ unpaid
<1>1. Requested(s) \in InChain(s)
  BY SeatsAssumption, ChainAssumption, BudgetAssumption DEF Requested, InChain
<1>2. paid \in SUBSET InChain(s) /\ paid # {}
  BY <1>1
<1>3. ProviderChain(s, unpaid, down) = IF paid \subseteq down THEN paid ELSE paid \ down
  BY DEF ProviderChain
<1> QED
  BY <1>2, <1>3

LEMMA InChainType == ASSUME NEW s \in Seats PROVE InChain(s) \in SUBSET Providers
BY SeatsAssumption, ChainAssumption, BudgetAssumption DEF InChain

LEMMA FirstProviderInChain ==
    ASSUME NEW s \in Seats, NEW members \in SUBSET InChain(s), members # {}
    PROVE  FirstProvider(s, members) \in members
BY EarliestIsMember DEF FirstProvider

-----------------------------------------------------------------------------
(* The inductive invariant of one seat's thread. *)

\* The history of the provider in use agrees with the retry loop's counters.
Agrees(s, n, hangs) ==
    IF n = 0 THEN trial[s].of # provider[s] /\ hangs = 0
    ELSE trial[s] = [of |-> provider[s], calls |-> n, hangs |-> hangs]

\* The retry loop's counters at each point of the thread.
LoopInv(s) ==
    /\ phase[s] \in {"idle", "started"} => trial[s].of = NoProvider
    /\ phase[s] = "queued" => calls[s] <= RetryBudget /\ Agrees(s, calls[s], timeouts[s])
    /\ phase[s] = "calling" => calls[s] > 0 /\ Agrees(s, calls[s] - 1, timeouts[s])
    /\ phase[s] = "deciding" =>
          Agrees(s, calls[s], timeouts[s] + (IF result[s] = "timeout" THEN 1 ELSE 0))
    /\ calls[s] <= RetryBudget + 1
    /\ timeouts[s] <= MaxTimeoutRetries
    /\ trial[s].calls <= RetryBudget + 1
    /\ trial[s].hangs <= MaxTimeoutRetries + 1

Turned == {"queued", "calling", "deciding"}

\* What is left of the seat's chain, and what is left to try.
ChainInv(s) ==
    /\ phase[s] \in {"idle", "started"} => tried[s] = {} /\ chain[s] = {}
    /\ tried[s] \subseteq chain[s]
    /\ chain[s] \subseteq InChain(s)
    /\ trial[s].of \in tried[s] \cup {NoProvider}
    /\ phase[s] \in Turned => provider[s] \in tried[s] /\ tried[s] \ {provider[s]} \subseteq spent[s]
    /\ phase[s] = "deciding" /\ ~result_is_usable(result[s]) /\ MustGiveUp(s) => provider[s] \in spent[s]
    /\ phase[s] = "done" /\ result[s] \notin {"usable", "crash"}
          => chain[s] # {} /\ chain[s] \subseteq spent[s]

SeatInv == TypeOK /\ \A s \in Seats : LoopInv(s) /\ ChainInv(s)

LEMMA InitEstablishesSeatInv == Init => SeatInv
BY SeatsAssumption, ChainAssumption, BudgetAssumption
   DEF Init, SeatInv, TypeOK, LoopInv, ChainInv, Phases, Outcomes, Results, result_is_usable,
       MaxTimeoutRetries, Turned

\* Turning to a provider of the chain keeps every seat's invariant.
LEMMA TurnToKeepsInv ==
    ASSUME SeatInv, NEW s \in Seats, NEW p \in Providers,
           chain' \in [Seats -> SUBSET Providers],
           \A t \in Seats \ {s} : chain'[t] = chain[t],
           p \in chain'[s] \ tried[s], tried[s] \subseteq chain'[s], chain'[s] \subseteq InChain(s),
           tried[s] \subseteq spent[s],
           TurnTo(s, p), result' = result, cache' = cache, UNCHANGED trialVars
    PROVE  SeatInv'
<1>1. TypeOK'
  BY DEF SeatInv, TypeOK, TurnTo, Phases, trialVars
<1>2. ASSUME NEW t \in Seats
      PROVE  LoopInv(t)' /\ ChainInv(t)'
  <2>1. CASE t = s
    <3>1. LoopInv(t)'
      <4>1. trial[s].of # p
        BY ChainAssumption DEF SeatInv, ChainInv
      <4>2. /\ phase'[s] = "queued" /\ calls'[s] = 0 /\ timeouts'[s] = 0
            /\ provider'[s] = p /\ trial' = trial
        BY DEF SeatInv, TypeOK, TurnTo, trialVars
      <4>3. Agrees(s, calls[s], timeouts[s])'
        BY <4>1, <4>2 DEF Agrees
      <4>4. /\ 0 <= RetryBudget /\ 0 <= RetryBudget + 1 /\ 0 <= MaxTimeoutRetries
            /\ trial[s].calls <= RetryBudget + 1 /\ trial[s].hangs <= MaxTimeoutRetries + 1
        BY BudgetAssumption DEF SeatInv, LoopInv, MaxTimeoutRetries
      <4>5. LoopInv(s)'
        BY <4>2, <4>3, <4>4 DEF LoopInv
      <4> QED
        BY <2>1, <4>5
    <3>2. ChainInv(t)'
      <4>1. /\ phase'[s] = "queued" /\ tried'[s] = tried[s] \cup {p} /\ provider'[s] = p
            /\ trial' = trial /\ spent' = spent
        BY DEF SeatInv, TypeOK, TurnTo, trialVars
      <4>2. tried'[s] \subseteq chain'[s] /\ chain'[s] \subseteq InChain(s)
        BY <4>1
      <4>3. InChain(s)' = InChain(s)
        BY DEF InChain
      <4> QED
        BY <2>1, <4>1, <4>2, <4>3 DEF SeatInv, ChainInv
    <3> QED
      BY <3>1, <3>2
  <2>2. CASE t # s
    <3>1. LoopInv(t)'
      BY <2>2 DEF SeatInv, TypeOK, TurnTo, LoopInv, Agrees, trialVars
    <3>2. ChainInv(t)'
      BY <2>2 DEF SeatInv, TypeOK, TurnTo, ChainInv, InChain, trialVars, MustGiveUp, HungTooOften
    <3> QED
      BY <3>1, <3>2
  <2> QED
    BY <2>1, <2>2
<1> QED
  BY <1>1, <1>2 DEF SeatInv

\* A seat whose local state did not change keeps its part of the invariant.
LEMMA OtherSeatKeepsInv ==
    ASSUME NEW t \in Seats, LoopInv(t), ChainInv(t),
           phase'[t] = phase[t], chain'[t] = chain[t], tried'[t] = tried[t],
           provider'[t] = provider[t], calls'[t] = calls[t], timeouts'[t] = timeouts[t],
           late'[t] = late[t], result'[t] = result[t], trial'[t] = trial[t], spent'[t] = spent[t]
    PROVE  LoopInv(t)' /\ ChainInv(t)'
BY DEF LoopInv, Agrees, ChainInv, InChain, MustGiveUp, HungTooOften

\* One step of one seat's thread keeps the invariant of all of them.
LEMMA StepKeepsInv ==
    ASSUME SeatInv, NEW s \in Seats, Step(s)
    PROVE  SeatInv'
<1> USE DEF SeatInv
<1>1. CASE BuildChain(s)
  <2>1. PICK unpaid \in SUBSET InChain(s), down \in SUBSET InChain(s) :
           /\ chain' = [chain EXCEPT ![s] = ProviderChain(s, unpaid, down)]
           /\ TurnTo(s, FirstProvider(s, ProviderChain(s, unpaid, down)))
    BY <1>1 DEF BuildChain
  <2> DEFINE members == ProviderChain(s, unpaid, down)
             p == FirstProvider(s, members)
  <2>2. members \in SUBSET InChain(s) /\ members # {}
    BY ChainNotEmpty
  <2>3. p \in members
    BY <2>2, FirstProviderInChain
  <2>4. members \in SUBSET Providers
    BY <2>2, InChainType
  <2>5. chain' \in [Seats -> SUBSET Providers]
    BY <2>1, <2>4 DEF TypeOK
  <2>6. chain'[s] = members /\ \A t \in Seats \ {s} : chain'[t] = chain[t]
    BY <2>1 DEF TypeOK
  <2>7. tried[s] = {} /\ result' = result /\ cache' = cache /\ UNCHANGED trialVars
    BY <1>1 DEF BuildChain, ChainInv
  <2>8. TurnTo(s, p)
    BY <2>1
  <2>9. p \in chain'[s] \ tried[s] /\ tried[s] \subseteq spent[s] /\ p \in Providers
    BY <2>3, <2>4, <2>6, <2>7
  <2> HIDE DEF members, p
  <2> QED
    BY <2>2, <2>5, <2>6, <2>7, <2>8, <2>9, TurnToKeepsInv
<1>2. CASE ThreadFails(s)
  <2>1. TypeOK'
    BY <1>2 DEF ThreadFails, TypeOK, trialVars, loopVars, Phases, Results
  <2>2. ASSUME NEW t \in Seats PROVE LoopInv(t)' /\ ChainInv(t)'
    <3>1. CASE t = s
      <4>1. LoopInv(t)'
        BY <1>2, <3>1, BudgetAssumption DEF ThreadFails, TypeOK, trialVars, loopVars, LoopInv, Agrees
      <4>2. ChainInv(t)'
        BY <1>2, <3>1 DEF ThreadFails, TypeOK, trialVars, loopVars, ChainInv, InChain, Turned, MustGiveUp,
             HungTooOften, Announces
      <4> QED
        BY <4>1, <4>2
    <3>2. CASE t # s
      BY <1>2, <3>2, OtherSeatKeepsInv DEF ThreadFails, TypeOK, trialVars, loopVars
    <3> QED
      BY <3>1, <3>2
  <2> QED
    BY <2>1, <2>2
<1>3. CASE StartCall(s)
  <2>1. TypeOK'
    BY <1>3 DEF StartCall, TypeOK, trialVars, loopVars, Phases
  <2>2. ASSUME NEW t \in Seats PROVE LoopInv(t)' /\ ChainInv(t)'
    <3>1. CASE t = s
      <4>1. LoopInv(t)'
        BY <1>3, <3>1, BudgetAssumption DEF StartCall, TypeOK, trialVars, loopVars, LoopInv, Agrees
      <4>2. ChainInv(t)'
        BY <1>3, <3>1 DEF StartCall, TypeOK, trialVars, loopVars, ChainInv, InChain, Turned, MustGiveUp,
             HungTooOften
      <4> QED
        BY <4>1, <4>2
    <3>2. CASE t # s
      BY <1>3, <3>2, OtherSeatKeepsInv DEF StartCall, TypeOK, trialVars, loopVars
    <3> QED
      BY <3>1, <3>2
  <2> QED
    BY <2>1, <2>2
<1>4. CASE AcceptVerdict(s)
  <2>1. TypeOK'
    <3>1. cache' \in [Keys -> Providers \cup {NoProvider}]
      BY <1>4 DEF AcceptVerdict, Remember, TypeOK
    <3> QED
      BY <1>4, <3>1 DEF AcceptVerdict, TypeOK, trialVars, loopVars, Phases
  <2>2. ASSUME NEW t \in Seats PROVE LoopInv(t)' /\ ChainInv(t)'
    <3>1. CASE t = s
      <4>1. LoopInv(t)'
        BY <1>4, <3>1, BudgetAssumption DEF AcceptVerdict, TypeOK, trialVars, loopVars, LoopInv, Agrees
      <4>2. ChainInv(t)'
        BY <1>4, <3>1 DEF AcceptVerdict, TypeOK, trialVars, loopVars, ChainInv, InChain, Turned, MustGiveUp,
             HungTooOften, result_is_usable
      <4> QED
        BY <4>1, <4>2
    <3>2. CASE t # s
      BY <1>4, <3>2, OtherSeatKeepsInv DEF AcceptVerdict, TypeOK, trialVars, loopVars
    <3> QED
      BY <3>1, <3>2
  <2> QED
    BY <2>1, <2>2
<1>5. CASE RetrySameProvider(s)
  <2>1. TypeOK'
    BY <1>5 DEF RetrySameProvider, TypeOK, trialVars, loopVars, Phases
  <2>2. ASSUME NEW t \in Seats PROVE LoopInv(t)' /\ ChainInv(t)'
    <3>1. CASE t = s
      <4>1. LoopInv(t)'
        BY <1>5, <3>1, BudgetAssumption DEF RetrySameProvider, TypeOK, trialVars, loopVars, LoopInv, Agrees, MayRetry, HungTooOften, MaxTimeoutRetries
      <4>2. ChainInv(t)'
        BY <1>5, <3>1 DEF RetrySameProvider, TypeOK, trialVars, loopVars, ChainInv, InChain, Turned, MustGiveUp,
             HungTooOften
      <4> QED
        BY <4>1, <4>2
    <3>2. CASE t # s
      BY <1>5, <3>2, OtherSeatKeepsInv DEF RetrySameProvider, TypeOK, trialVars, loopVars
    <3> QED
      BY <3>1, <3>2
  <2> QED
    BY <2>1, <2>2
<1>6. CASE SwitchProvider(s)
  <2> DEFINE left == chain[s] \ tried[s]
             p == Earliest(s, left)
  <2>1. left \in SUBSET InChain(s) /\ left # {}
    BY <1>6 DEF SwitchProvider, ChainInv
  <2>2. p \in left
    BY <2>1, EarliestIsMember
  <2>3. TurnTo(s, p) /\ chain' = chain /\ result' = result /\ cache' = cache /\ UNCHANGED trialVars
    BY <1>6 DEF SwitchProvider
  <2>4. p \in Providers
    BY <2>1, <2>2, InChainType
  <2>5. p \in chain'[s] \ tried[s] /\ tried[s] \subseteq chain'[s] /\ chain'[s] \subseteq InChain(s)
    BY <2>2, <2>3 DEF ChainInv
  <2>6. chain' \in [Seats -> SUBSET Providers] /\ \A t \in Seats \ {s} : chain'[t] = chain[t]
    BY <2>3 DEF TypeOK
  <2>7. tried[s] \subseteq spent[s]
    BY <1>6 DEF SwitchProvider, ChainInv, Turned
  <2> HIDE DEF left, p
  <2> QED
    BY <2>3, <2>4, <2>5, <2>6, <2>7, TurnToKeepsInv
<1>7. CASE SeatFails(s)
  <2>1. TypeOK'
    <3>1. cache' \in [Keys -> Providers \cup {NoProvider}]
      BY <1>7 DEF SeatFails, Forget, TypeOK
    <3> QED
      BY <1>7, <3>1 DEF SeatFails, TypeOK, trialVars, loopVars, Phases
  <2>2. ASSUME NEW t \in Seats PROVE LoopInv(t)' /\ ChainInv(t)'
    <3>1. CASE t = s
      <4>1. LoopInv(t)'
        BY <1>7, <3>1, BudgetAssumption DEF SeatFails, TypeOK, trialVars, loopVars, LoopInv, Agrees
      <4>2. ChainInv(t)'
        BY <1>7, <3>1 DEF SeatFails, TypeOK, trialVars, loopVars, ChainInv, InChain, Turned, MustGiveUp,
             HungTooOften
      <4> QED
        BY <4>1, <4>2
    <3>2. CASE t # s
      BY <1>7, <3>2, OtherSeatKeepsInv DEF SeatFails, TypeOK, trialVars, loopVars
    <3> QED
      BY <3>1, <3>2
  <2> QED
    BY <2>1, <2>2
<1>8. ASSUME NEW o \in Outcomes, FinishCall(s, o) PROVE SeatInv'
  <2>0. PICK slow \in BOOLEAN :
          /\ late' = [late EXCEPT ![s] = @ \/ slow]
          /\ spent' = [spent EXCEPT ![s] =
                IF ~result_is_usable(o) /\ NothingLeftToTry(TrialAfter(s, o), o, late[s] \/ slow)
                THEN @ \cup {provider[s]} ELSE @]
    BY <1>8, BudgetAssumption DEF FinishCall, TypeOK
  <2> DEFINE trialNow == TrialAfter(s, o)
             hangs == timeouts[s] + (IF o = "timeout" THEN 1 ELSE 0)
  <2>1. /\ phase[s] = "calling" /\ provider[s] \in tried[s] /\ provider[s] \in Providers
        /\ calls[s] \in Nat \ {0} /\ timeouts[s] \in Nat /\ calls[s] <= RetryBudget + 1
    <3>1. phase[s] = "calling" /\ LoopInv(s) /\ ChainInv(s)
      BY <1>8 DEF FinishCall
    <3>2. provider[s] \in tried[s]
      BY <3>1 DEF ChainInv, Turned
    <3> QED
      BY <3>1, <3>2 DEF LoopInv, TypeOK
  <2>2. trialNow = [of |-> provider[s], calls |-> calls[s], hangs |-> hangs]
    <3>1. Agrees(s, calls[s] - 1, timeouts[s])
      BY <2>1 DEF LoopInv
    <3> DEFINE before == IF trial[s].of = provider[s] THEN trial[s]
                         ELSE [of |-> provider[s], calls |-> 0, hangs |-> 0]
    <3>2. before = [of |-> provider[s], calls |-> calls[s] - 1, hangs |-> timeouts[s]]
      <4>1. CASE calls[s] = 1
        <5>1. trial[s].of # provider[s] /\ timeouts[s] = 0 /\ calls[s] - 1 = 0
          BY <3>1, <4>1 DEF Agrees
        <5> QED
          BY <5>1
      <4>2. CASE calls[s] # 1
        <5>1. trial[s] = [of |-> provider[s], calls |-> calls[s] - 1, hangs |-> timeouts[s]]
          BY <2>1, <3>1, <4>2 DEF Agrees
        <5> QED
          BY <5>1
      <4> QED
        BY <4>1, <4>2
    <3>3. trialNow = [before EXCEPT !.calls = @ + 1, !.hangs = IF o = "timeout" THEN @ + 1 ELSE @]
      BY DEF TrialAfter
    <3> HIDE DEF before, trialNow
    <3>4. trialNow = [of |-> provider[s], calls |-> (calls[s] - 1) + 1,
                 hangs |-> IF o = "timeout" THEN timeouts[s] + 1 ELSE timeouts[s]]
      BY <3>2, <3>3
    <3>5. (calls[s] - 1) + 1 = calls[s]
      BY <2>1
    <3>6. (IF o = "timeout" THEN timeouts[s] + 1 ELSE timeouts[s]) = hangs
      BY <2>1
    <3> QED
      BY <3>4, <3>5, <3>6
  <2>3. /\ phase' = [phase EXCEPT ![s] = "deciding"] /\ result' = [result EXCEPT ![s] = o]
        /\ trial' = [trial EXCEPT ![s] = trialNow]
        /\ UNCHANGED <<chain, tried, provider, calls, timeouts, cache>>
    BY <1>8 DEF FinishCall
  <2> HIDE DEF trialNow
  <2>4. TypeOK'
    <3>1. trialNow \in [of : Providers \cup {NoProvider}, calls : Nat, hangs : Nat]
      BY <2>1, <2>2
    <3>2. trial' \in [Seats -> [of : Providers \cup {NoProvider}, calls : Nat, hangs : Nat]]
      BY <2>3, <3>1 DEF TypeOK
    <3>3. spent' \in [Seats -> SUBSET Providers]
      BY <2>0, <2>1 DEF TypeOK
    <3>4. late' \in [Seats -> BOOLEAN] /\ result' \in [Seats -> Results]
      BY <2>0, <2>3 DEF TypeOK, Results
    <3> QED
      BY <2>3, <3>2, <3>3, <3>4 DEF TypeOK, Phases
  <2>5. ASSUME NEW t \in Seats PROVE LoopInv(t)' /\ ChainInv(t)'
    <3>1. CASE t = s
      <4>1. /\ phase'[s] = "deciding" /\ result'[s] = o /\ trial'[s] = trialNow
            /\ late'[s] = (late[s] \/ slow)
        BY <2>0, <2>3 DEF TypeOK
      <4>2. hangs <= MaxTimeoutRetries + 1
        BY <2>1 DEF LoopInv, MaxTimeoutRetries
      <4>7. Agrees(s, calls[s], timeouts[s] + (IF result[s] = "timeout" THEN 1 ELSE 0))'
        <5>1. calls'[s] = calls[s] /\ timeouts'[s] = timeouts[s] /\ provider'[s] = provider[s]
          BY <2>3
        <5> QED
          BY <2>1, <2>2, <4>1, <5>1 DEF Agrees
      <4>8. timeouts[s] <= MaxTimeoutRetries
        BY DEF LoopInv
      <4>3. LoopInv(s)'
        <5>1. /\ calls'[s] = calls[s] /\ timeouts'[s] = timeouts[s]
              /\ trial'[s].calls = calls[s] /\ trial'[s].hangs = hangs
          BY <2>2, <2>3, <4>1
        <5> QED
          BY <2>1, <4>1, <4>2, <4>7, <4>8, <5>1 DEF LoopInv
      <4>4. ~result_is_usable(o) /\ MustGiveUp(s)' => provider[s] \in spent'[s]
        <5>3. ~result_is_usable(o) /\ NothingLeftToTry(trialNow, o, late[s] \/ slow)
                 => provider[s] \in spent'[s]
          <6> USE DEF trialNow
          <6>1. s \in DOMAIN spent
            BY DEF TypeOK
          <6> QED
            BY <2>0, <6>1
        <5>1. SUFFICES ASSUME ~result_is_usable(o), MustGiveUp(s)'
                       PROVE  NothingLeftToTry(trialNow, o, late[s] \/ slow)
          BY <5>3
        <5>2. trialNow.calls = calls[s] /\ trialNow.hangs = hangs
          BY <2>2
        <5>4. calls'[s] = calls[s] /\ timeouts'[s] = timeouts[s]
          BY <2>3
        <5>5. \/ calls[s] > RetryBudget \/ o \notin Retryable \/ late[s] \/ slow
              \/ o = "timeout" /\ timeouts[s] >= MaxTimeoutRetries
          BY <4>1, <5>1, <5>4 DEF MustGiveUp, HungTooOften
        <5>6. o = "timeout" /\ timeouts[s] >= MaxTimeoutRetries => hangs > MaxTimeoutRetries
          BY <2>1 DEF MaxTimeoutRetries
        <5> QED
          BY <5>2, <5>5, <5>6 DEF NothingLeftToTry
      <4>5. spent[s] \subseteq spent'[s] /\ trial'[s].of = provider[s]
        BY <2>0, <2>2, <4>1 DEF TypeOK
      <4>6. ChainInv(s)'
        BY <2>1, <2>3, <4>1, <4>4, <4>5 DEF ChainInv, InChain, Turned
      <4> QED
        BY <3>1, <4>3, <4>6
    <3>2. CASE t # s
      BY <2>0, <2>3, <3>2, OtherSeatKeepsInv DEF TypeOK
    <3> QED
      BY <3>1, <3>2
  <2> QED
    BY <2>4, <2>5
<1> QED
  BY <1>1, <1>2, <1>3, <1>4, <1>5, <1>6, <1>7, <1>8 DEF Step, ThreadStep

\* The panel handing a seat its thread keeps the invariant.
LEMMA SubmitKeepsInv ==
    ASSUME SeatInv, NEW s \in Seats, SubmitSeat(s)
    PROVE  SeatInv'
<1>1. TypeOK'
  BY DEF SeatInv, SubmitSeat, Submit, TypeOK, Phases, trialVars, loopVars
<1>2. ASSUME NEW t \in Seats PROVE LoopInv(t)' /\ ChainInv(t)'
  <2>1. CASE t = s
    BY <2>1 DEF SeatInv, SubmitSeat, Submit, TypeOK, LoopInv, ChainInv, InChain, Turned, trialVars,
         loopVars
  <2>2. CASE t # s
    BY <2>2, OtherSeatKeepsInv DEF SeatInv, SubmitSeat, Submit, TypeOK, trialVars, loopVars
  <2> QED
    BY <2>1, <2>2
<1> QED
  BY <1>1, <1>2 DEF SeatInv

LEMMA NextKeepsSeatInv == SeatInv /\ [Next]_dispatchVars => SeatInv'
<1> SUFFICES ASSUME SeatInv, [Next]_dispatchVars PROVE SeatInv'
  OBVIOUS
<1>1. CASE UNCHANGED dispatchVars
  <2>1. TypeOK'
    BY <1>1 DEF SeatInv, TypeOK, dispatchVars, seatVars, trialVars, loopVars
  <2>2. ASSUME NEW t \in Seats PROVE LoopInv(t)' /\ ChainInv(t)'
    BY <1>1, OtherSeatKeepsInv DEF SeatInv, dispatchVars, seatVars, trialVars, loopVars
  <2> QED
    BY <2>1, <2>2 DEF SeatInv
<1>2. CASE Next
  BY <1>1, <1>2, StepKeepsInv, SubmitKeepsInv DEF Next, RoundOver
<1> QED
  BY <1>1, <1>2

LEMMA SeatInvIsInvariant == Spec => []SeatInv
BY InitEstablishesSeatInv, NextKeepsSeatInv, PTL DEF Spec

-----------------------------------------------------------------------------
(* The theorems. *)

\* Every seat thread's state keeps its type.
THEOREM DispatchTypeCorrect == Spec => []TypeOK
<1>1. SeatInv => TypeOK
  BY DEF SeatInv
<1> QED
  BY <1>1, SeatInvIsInvariant, PTL

\* No provider costs a seat more than the retry budget, or more than two hangs.
THEOREM RetriesAreBounded == Spec => []RetryBoundHolds
<1>1. SeatInv => RetryBoundHolds
  BY DEF SeatInv, LoopInv, RetryBoundHolds
<1> QED
  BY <1>1, SeatInvIsInvariant, PTL

\* A seat gives up only when every provider of its chain had its fair trial.
THEOREM EveryProviderIsTried == Spec => []FailsOnlyAfterFairTrials
<1>1. SeatInv => FailsOnlyAfterFairTrials
  BY DEF SeatInv, ChainInv, FailsOnlyAfterFairTrials
<1> QED
  BY <1>1, SeatInvIsInvariant, PTL

-----------------------------------------------------------------------------
(* Refinement: a seat's calls take and return slots as the cap allows.      *)

\* A set of seats counts the same in the contract.
LEMMA SameCount == \A S : SlotsHeld!Cardinality(S) = Cardinality(S)
BY Zenon DEF SlotsHeld!Cardinality, Cardinality

LEMMA NoSlotAtFirst == Init => SlotsHeld!Init
BY DEF Init, SlotsHeld!Init, Slots

\* A step of a seat takes a slot, gives its own back or touches none.
LEMMA SeatStepMovesSlots ==
    ASSUME TypeOK, NEW s \in Seats, Step(s)
    PROVE  [SlotsHeld!Next]_Slots
<1>1. ASSUME phase[s] # "calling", phase'[s] # "calling",
             \A t \in Seats \ {s} : phase'[t] = phase[t] /\ provider'[t] = provider[t]
      PROVE  Slots' = Slots
  BY <1>1 DEF Slots
<1>2. CASE BuildChain(s) \/ SwitchProvider(s)
  <2>1. PICK p : TurnTo(s, p)
    BY <1>2 DEF BuildChain, SwitchProvider
  <2>2. phase[s] \in {"started", "deciding"}
    BY <1>2 DEF BuildChain, SwitchProvider
  <2> QED
    BY <1>1, <2>1, <2>2 DEF TurnTo, TypeOK
<1>3. CASE ThreadFails(s) \/ AcceptVerdict(s) \/ RetrySameProvider(s) \/ SeatFails(s)
  BY <1>1, <1>3 DEF ThreadFails, Announces, AcceptVerdict, RetrySameProvider, SeatFails, TypeOK
<1>4. CASE StartCall(s)
  <2>1. s \notin Slots /\ provider' = provider /\ phase' = [phase EXCEPT ![s] = "calling"]
    BY <1>4 DEF StartCall, Slots
  <2>2. CASE provider[s] \notin Streamed
    BY <2>1, <2>2 DEF Slots, TypeOK
  <2>3. CASE provider[s] \in Streamed
    <3>1. Slots' = Slots \cup {s}
      BY <2>1, <2>3 DEF Slots, TypeOK
    <3>2. MaxConcurrency # 0 => Cardinality(Slots) < MaxConcurrency
      BY <1>4, <2>3 DEF StartCall
    <3>3. SlotsHeld!Acquire(s)
      BY <2>1, <3>1, <3>2, SameCount DEF SlotsHeld!Acquire
    <3> QED
      BY <3>3 DEF SlotsHeld!Next
  <2> QED
    BY <2>2, <2>3
<1>5. ASSUME NEW o \in Outcomes, FinishCall(s, o) PROVE [SlotsHeld!Next]_Slots
  <2>1. Slots' = Slots \ {s}
    BY <1>5 DEF FinishCall, Slots, TypeOK
  <2> QED
    BY <2>1 DEF SlotsHeld!Next, SlotsHeld!Release
<1> QED
  BY <1>2, <1>3, <1>4, <1>5 DEF Step, ThreadStep

LEMMA RoundMovesSlots ==
    ASSUME SeatInv, [Next]_dispatchVars
    PROVE  [SlotsHeld!Next]_Slots
<1>1. CASE UNCHANGED dispatchVars
  BY <1>1 DEF dispatchVars, seatVars, Slots
<1>2. ASSUME NEW s \in Seats, SubmitSeat(s) PROVE Slots' = Slots
  BY <1>2 DEF SubmitSeat, Submit, Slots, SeatInv, TypeOK
<1> QED
  BY <1>1, <1>2, SeatStepMovesSlots DEF Next, RoundOver, SeatInv

\* However the seats of a round retry and switch providers, they take and return the
\* slots of the cap one by one and never hold more than $REVIEW_MAX_CONCURRENCY of them.
THEOREM RoundImplementsCap == Spec => SlotsHeld!Init /\ [][SlotsHeld!Next]_Slots
BY NoSlotAtFirst, SeatInvIsInvariant, RoundMovesSlots, PTL DEF Spec

-----------------------------------------------------------------------------
(* The board. *)

USE BoardAssumption

-----------------------------------------------------------------------------
(* The inductive invariant. *)

\* Which seats can be running: only those of the round the board waits for.
RoundInv ==
    /\ boardPc = "start" => \A s \in Seats : phase[s] = "idle"
    /\ \A s \in Seats :
          phase[s] \notin {"idle", "done"} =>
             boardPc = "running" /\ \E i \in 1..Len(current) : current[i] = s
    /\ \A s \in Seats : s > PoolSize + promoted => phase[s] = "idle"
    /\ boardPc = "loop" => \A i \in 1..Len(current) : phase[current[i]] = "idle"
    /\ \A i \in 1..Len(current) : current[i] <= PoolSize + promoted
    /\ \A i \in 1..Len(nextRound) :
          nextRound[i] <= PoolSize + promoted /\ phase[nextRound[i]] = "idle"

\* Who owns the tally at each point.
TallyInv ==
    /\ boardPrev = FALSE
    /\ boardPc \in {"loop", "running", "judging"} <=> suppress
    /\ boardPc = "running" => panelPrev
    /\ boardPc \in {"start", "returned", "raised"} => ~deadlineArmed

\* Where the loop stands.
LoopPosition ==
    /\ boardPc = "start" =>
          /\ current = << >> /\ nextRound = << >> /\ results = << >> /\ usable = << >>
          /\ judged = 0 /\ promoted = 0
    /\ boardPc \in {"loop", "running", "returned"} => judged = 0 /\ nextRound = << >>
    /\ boardPc = "returned" => current = << >>

BoardInv ==
    /\ BTypeOK
    /\ SeatInv
    /\ RoundInv
    /\ TallyInv
    /\ LoopPosition
    /\ EveryFailureIsBackfilled
    /\ EachSeatTalliedOnce

LEMMA InitEstablishesBoardInv == BInit => BoardInv
<1> SUFFICES ASSUME BInit PROVE BoardInv
  OBVIOUS
<1>1. SeatInv
  BY InitEstablishesSeatInv DEF BInit
<1>2. BTypeOK
  <2>1. << >> \in Rounds /\ Len(<< >>) = 0
    BY DEF Rounds
  <2>2. 0 \in 0..0 /\ 0 \in 0..ReserveSize
    OBVIOUS
  <2> QED
    BY <2>1, <2>2 DEF BInit, BTypeOK
<1>3. RoundInv
  BY DEF BInit, Init, RoundInv
<1>4. LoopPosition /\ EachSeatTalliedOnce
  BY DEF BInit, LoopPosition, EachSeatTalliedOnce
<1>6. TallyInv
  BY DEF BInit, TallyInv
<1>5. EveryFailureIsBackfilled
  BY DEF BInit, EveryFailureIsBackfilled, Outstanding, Target
<1> QED
  BY <1>1, <1>2, <1>3, <1>4, <1>5, <1>6 DEF BoardInv

\* A step that leaves the seats alone keeps the seats' invariant.
LEMMA SeatsUntouched ==
    ASSUME SeatInv, UNCHANGED dispatchVars
    PROVE  SeatInv'
BY NextKeepsSeatInv

\* A step of a seat leaves the other seats alone, and an idle seat takes none.
LEMMA StepIsLocal ==
    ASSUME TypeOK, NEW s \in Seats, Step(s)
    PROVE  /\ phase[s] \notin {"idle", "done"}
           /\ phase'[s] # "idle"
           /\ \A t \in Seats \ {s} : phase'[t] = phase[t]
BY DEF TypeOK, Step, ThreadStep, BuildChain, ThreadFails, Announces, StartCall, FinishCall, AcceptVerdict,
       RetrySameProvider, SwitchProvider, SeatFails, TurnTo

\* The seats of a round run under the board's suppression.
LEMMA SeatStepKeepsBoardInv ==
    ASSUME BoardInv, NEW s \in Seats, SeatStep(s)
    PROVE  BoardInv'
<1>1. Step(s)
  BY DEF SeatStep, SeatRuns, CallReturns, Step
<1>2. SeatInv' /\ TypeOK
  BY <1>1, StepKeepsInv DEF BoardInv, SeatInv
<1>3. /\ phase[s] \notin {"idle", "done"} /\ phase'[s] # "idle"
      /\ \A t \in Seats \ {s} : phase'[t] = phase[t]
  BY <1>1, <1>2, StepIsLocal
<1>4. boardPc = "running" /\ suppress
  BY <1>3 DEF BoardInv, RoundInv, TallyInv
<1>5. UNCHANGED boardVars
  BY <1>4 DEF SeatStep, SeatRuns, CallReturns, AutoTally, boardVars
<1>6. RoundInv'
  <2> USE DEF BoardInv, RoundInv
  <2>1. /\ boardPc' = "running" /\ current' = current /\ nextRound' = nextRound
        /\ promoted' = promoted
    BY <1>4, <1>5 DEF boardVars
  <2>2. phase[s] # "idle" /\ \E i \in 1..Len(current) : current[i] = s
    BY <1>3
  <2>3. \A t \in Seats : phase[t] = "idle" => phase'[t] = "idle"
    BY <1>3, <2>2
  <2>4. \A i \in 1..Len(nextRound) : nextRound[i] \in Seats
    BY DEF BTypeOK, Rounds
  <2>5. \A i \in 1..Len(nextRound) : phase'[nextRound[i]] = "idle"
    BY <2>3, <2>4
  <2>6. \A t \in Seats : phase'[t] \notin {"idle", "done"} =>
             \E i \in 1..Len(current) : current[i] = t
    BY <1>3, <2>2
  <2> QED
    BY <2>1, <2>3, <2>5, <2>6
<1>7. BTypeOK'
  BY <1>5 DEF BoardInv, BTypeOK, boardVars
<1>8. TallyInv' /\ LoopPosition'
  BY <1>5 DEF BoardInv, TallyInv, LoopPosition, boardVars
<1>9. EveryFailureIsBackfilled' /\ EachSeatTalliedOnce'
  BY <1>5 DEF BoardInv, EveryFailureIsBackfilled, Outstanding, EachSeatTalliedOnce, boardVars
<1> QED
  BY <1>2, <1>6, <1>7, <1>8, <1>9 DEF BoardInv

LEMMA StartKeepsBoardInv == BoardInv /\ StartBoard => BoardInv'
<1> SUFFICES ASSUME BoardInv, StartBoard PROVE BoardInv'
  OBVIOUS
<1> USE DEF BoardInv, StartBoard
<1>0. current' \in Rounds /\ Len(current') = PoolSize
  BY DEF Rounds
<1>1. SeatInv'
  BY SeatsUntouched
<1>2. BTypeOK'
  BY <1>0 DEF BTypeOK, LoopPosition
<1>3. RoundInv'
  BY <1>0 DEF RoundInv, LoopPosition, dispatchVars, seatVars
<1>4. TallyInv' /\ LoopPosition' /\ EachSeatTalliedOnce'
  BY DEF TallyInv, LoopPosition, EachSeatTalliedOnce
<1>5. EveryFailureIsBackfilled'
  BY <1>0 DEF EveryFailureIsBackfilled, Outstanding, Target, LoopPosition
<1> QED
  BY <1>1, <1>2, <1>3, <1>4, <1>5

LEMMA DispatchKeepsBoardInv == BoardInv /\ DispatchRound => BoardInv'
<1> SUFFICES ASSUME BoardInv, DispatchRound PROVE BoardInv'
  OBVIOUS
<1> USE DEF BoardInv
<1>1. \A s \in Seats :
         \/ phase'[s] = phase[s]
         \/ phase[s] = "idle" /\ phase'[s] = "started" /\ \E i \in 1..Len(current) : current[i] = s
  BY DEF DispatchRound, RoundInv
<1>2. SeatInv'
  <2>1. TypeOK'
    BY DEF DispatchRound, SeatInv, TypeOK, Phases, trialVars, loopVars
  <2>2. ASSUME NEW t \in Seats PROVE LoopInv(t)' /\ ChainInv(t)'
    <3>1. CASE phase'[t] = phase[t]
      BY <3>1, OtherSeatKeepsInv DEF DispatchRound, SeatInv, trialVars, loopVars
    <3>2. CASE phase[t] = "idle" /\ phase'[t] = "started"
      BY <3>2 DEF DispatchRound, SeatInv, LoopInv, ChainInv, InChain, Turned, trialVars, loopVars
    <3> QED
      BY <1>1, <3>1, <3>2
  <2> QED
    BY <2>1, <2>2 DEF SeatInv
<1>3. BTypeOK' /\ TallyInv' /\ LoopPosition' /\ EachSeatTalliedOnce'
  BY DEF DispatchRound, BTypeOK, TallyInv, LoopPosition, EachSeatTalliedOnce
<1>4. EveryFailureIsBackfilled'
  BY DEF DispatchRound, EveryFailureIsBackfilled, Outstanding
<1>5. RoundInv'
  <2>1. boardPc = "loop" /\ boardPc' = "running" /\ current' = current
          /\ promoted' = promoted /\ nextRound' = nextRound /\ nextRound = << >>
    BY DEF DispatchRound, LoopPosition
  <2>2. \A s \in Seats : phase'[s] \notin {"idle", "done"} => \E i \in 1..Len(current) : current[i] = s
    BY <1>1, <2>1 DEF RoundInv
  <2>3. \A i \in 1..Len(current) : current[i] <= PoolSize + promoted
    BY <2>1 DEF RoundInv
  <2>4. \A s \in Seats : s > PoolSize + promoted => phase'[s] = "idle"
    <3>1. promoted \in Nat /\ PoolSize \in Nat /\ Seats \subseteq Nat
      BY DEF BTypeOK
    <3> QED
      BY <1>1, <2>3, <3>1 DEF RoundInv
  <2> QED
    BY <2>1, <2>2, <2>3, <2>4 DEF RoundInv
<1> QED
  BY <1>2, <1>3, <1>4, <1>5

LEMMA PanelReturnKeepsBoardInv == BoardInv /\ PanelReturns => BoardInv'
<1> SUFFICES ASSUME BoardInv, PanelReturns PROVE BoardInv'
  OBVIOUS
<1> USE DEF BoardInv, PanelReturns
<1>1. SeatInv'
  BY SeatsUntouched
<1>2. panelPrev /\ judged = 0 /\ nextRound = << >>
  BY DEF TallyInv, LoopPosition
<1>3. tally' = tally
  BY <1>2 DEF PanelTally
<1>4. suppress'
  BY <1>2
<1>5. BTypeOK'
  BY <1>2, <1>3 DEF BTypeOK, Rounds
<1>6. RoundInv'
  <2>1. phase' = phase /\ current' = current /\ promoted' = promoted /\ nextRound' = << >>
    BY DEF dispatchVars, seatVars
  <2>2. \A s \in Seats : phase[s] \in {"idle", "done"}
    BY DEF RoundInv, RoundFinished
  <2> QED
    BY <2>1, <2>2 DEF RoundInv
<1>7. TallyInv'
  BY <1>2, <1>4 DEF TallyInv
<1>8. LoopPosition' /\ EachSeatTalliedOnce'
  BY <1>3 DEF LoopPosition, EachSeatTalliedOnce
<1>9. EveryFailureIsBackfilled'
  BY <1>2 DEF EveryFailureIsBackfilled, Outstanding
<1> QED
  BY <1>1, <1>5, <1>6, <1>7, <1>8, <1>9

LEMMA BeyondIsBeyond ==
    ASSUME NEW s \in Nat, NEW p \in Nat, NEW i \in Nat, NEW j \in Nat, i <= j, s > p + j
    PROVE  s > p + i
OBVIOUS

\* The reviewer under judgement is one of the round's.
LEMMA JudgedIsSeat ==
    ASSUME BTypeOK, Judging
    PROVE  Judged \in Seats /\ judged + 1 \in 1..Len(current)
BY DEF BTypeOK, Judging, Judged, Rounds

LEMMA JudgeUsableKeepsBoardInv == BoardInv /\ JudgeUsable => BoardInv'
<1> SUFFICES ASSUME BoardInv, JudgeUsable PROVE BoardInv'
  OBVIOUS
<1> USE DEF BoardInv
<1>1. SeatInv' /\ phase' = phase
  BY SeatsUntouched DEF JudgeUsable, dispatchVars, seatVars
<1>2. Judging /\ Judged \in Seats /\ judged + 1 \in 1..Len(current)
  BY JudgedIsSeat DEF JudgeUsable
<1>3. /\ judged' = judged + 1 /\ tally' = TallyOk
      /\ UNCHANGED <<boardPc, current, nextRound, promoted, suppress, boardPrev, panelPrev,
                     deadlineArmed>>
  BY DEF JudgeUsable
<1>4. /\ usable' \in Rounds /\ Len(usable') = Len(usable) + 1
      /\ results' \in Rounds /\ Len(results') = Len(results) + 1
  <2>1. usable' = Append(usable, Judged) /\ results' = Append(results, Judged)
    BY DEF JudgeUsable
  <2> QED
    BY <1>2, <2>1 DEF BTypeOK, Rounds
<1>5. /\ boardPc = "judging" /\ Len(current) \in Nat /\ judged \in Nat /\ Len(nextRound) \in Nat
      /\ Len(usable) \in Nat /\ Len(results) \in Nat /\ tally.ok \in Nat /\ tally.fail \in Nat
  BY <1>2 DEF Judging, BTypeOK, Rounds
<1>6. tally' \in [ok : Nat, fail : Nat] /\ tally'.ok = tally.ok + 1 /\ tally'.fail = tally.fail
  BY <1>3, <1>5 DEF TallyOk, BTypeOK
<1>7. BTypeOK'
  BY <1>2, <1>3, <1>4, <1>5, <1>6 DEF BTypeOK
<1>8. RoundInv'
  BY <1>1, <1>3 DEF RoundInv
<1>9. TallyInv'
  BY <1>3 DEF TallyInv
<1>10. LoopPosition'
  BY <1>3, <1>5 DEF LoopPosition
<1>11. EachSeatTalliedOnce'
  BY <1>4, <1>5, <1>6 DEF EachSeatTalliedOnce
<1>12. EveryFailureIsBackfilled'
  <2>1. Outstanding' = Outstanding - 1 /\ Outstanding \in Int
    BY <1>3, <1>5 DEF Outstanding
  <2> QED
    BY <1>3, <1>4, <1>5, <2>1 DEF EveryFailureIsBackfilled, Target
<1> QED
  BY <1>1, <1>7, <1>8, <1>9, <1>10, <1>11, <1>12

LEMMA JudgeFailedKeepsBoardInv == BoardInv /\ JudgeFailed => BoardInv'
<1> SUFFICES ASSUME BoardInv, JudgeFailed PROVE BoardInv'
  OBVIOUS
<1> USE DEF BoardInv
<1>1. SeatInv' /\ phase' = phase
  BY SeatsUntouched DEF JudgeFailed, dispatchVars, seatVars
<1>2. Judging /\ Judged \in Seats /\ judged + 1 \in 1..Len(current)
  BY JudgedIsSeat DEF JudgeFailed
<1>3. /\ judged' = judged + 1 /\ tally' = TallyFail
      /\ UNCHANGED <<boardPc, current, usable, suppress, boardPrev, panelPrev, deadlineArmed>>
  BY DEF JudgeFailed
<1>4. results' \in Rounds /\ Len(results') = Len(results) + 1
  <2>1. results' = Append(results, Judged)
    BY DEF JudgeFailed
  <2> QED
    BY <1>2, <2>1 DEF BTypeOK, Rounds
<1>5. /\ boardPc = "judging" /\ Len(current) \in Nat /\ judged \in Nat /\ Len(nextRound) \in Nat
      /\ Len(usable) \in Nat /\ Len(results) \in Nat /\ tally.ok \in Nat /\ tally.fail \in Nat
      /\ promoted \in 0..ReserveSize
  BY <1>2 DEF Judging, BTypeOK, Rounds
<1>6. tally' \in [ok : Nat, fail : Nat] /\ tally'.ok = tally.ok /\ tally'.fail = tally.fail + 1
  BY <1>3, <1>5 DEF TallyFail, BTypeOK
<1>7. ASSUME promoted < ReserveSize
      PROVE  /\ promoted' = promoted + 1
             /\ nextRound' \in Rounds /\ Len(nextRound') = Len(nextRound) + 1
             /\ \A i \in 1..Len(nextRound') :
                   nextRound'[i] <= PoolSize + promoted' /\ phase'[nextRound'[i]] = "idle"
  <2> DEFINE r == PoolSize + promoted + 1
  <2>1. r \in Seats /\ phase[r] = "idle"
    BY <1>5, <1>7 DEF RoundInv
  <2>2. promoted' = promoted + 1 /\ nextRound' = Append(nextRound, r)
    BY <1>7 DEF JudgeFailed
  <2>3. r <= PoolSize + promoted'
    BY <1>5, <2>2
  <2>4. nextRound \in Seq(Seats)
    BY DEF BTypeOK, Rounds
  <2>5. \A i \in 1..Len(nextRound) :
           nextRound[i] <= PoolSize + promoted' /\ phase[nextRound[i]] = "idle"
    <3>1. \A i \in 1..Len(nextRound) : nextRound[i] \in Nat
      BY <2>4
    <3>2. \A i \in 1..Len(nextRound) :
             nextRound[i] <= PoolSize + promoted /\ phase[nextRound[i]] = "idle"
      BY DEF RoundInv
    <3> QED
      BY <1>5, <2>2, <3>1, <3>2
  <2> HIDE DEF r
  <2>6. /\ nextRound' \in Seq(Seats) /\ Len(nextRound') = Len(nextRound) + 1
        /\ \A i \in 1..Len(nextRound') :
              nextRound'[i] = IF i <= Len(nextRound) THEN nextRound[i] ELSE r
    BY <2>1, <2>2, <2>4
  <2>7. \A i \in 1..Len(nextRound') :
           nextRound'[i] <= PoolSize + promoted' /\ phase'[nextRound'[i]] = "idle"
    <3> TAKE i \in 1..Len(nextRound')
    <3>1. CASE i <= Len(nextRound)
      <4>1. i \in 1..Len(nextRound) /\ nextRound'[i] = nextRound[i]
        BY <1>5, <2>6, <3>1
      <4> QED
        BY <1>1, <2>5, <4>1
    <3>2. CASE ~(i <= Len(nextRound))
      BY <1>1, <2>1, <2>3, <2>6, <3>2
    <3> QED
      BY <3>1, <3>2
  <2> QED
    BY <2>2, <2>6, <2>7 DEF Rounds
<1>8. ASSUME promoted = ReserveSize
      PROVE  promoted' = promoted /\ nextRound' = nextRound
  BY <1>5, <1>8 DEF JudgeFailed
<1>9. promoted' \in 0..ReserveSize /\ promoted <= promoted' /\ nextRound' \in Rounds
  BY <1>5, <1>7, <1>8 DEF BTypeOK
<1>10. BTypeOK'
  BY <1>2, <1>3, <1>4, <1>5, <1>6, <1>9 DEF BTypeOK
<1>11. RoundInv'
  <2>1. \A i \in 1..Len(nextRound') :
           nextRound'[i] <= PoolSize + promoted' /\ phase'[nextRound'[i]] = "idle"
    <3>1. CASE promoted < ReserveSize
      BY <1>7, <3>1
    <3>2. CASE promoted = ReserveSize
      BY <1>1, <1>8, <3>2 DEF RoundInv
    <3> QED
      BY <1>5, <3>1, <3>2
  <2>2. \A i \in 1..Len(current) : current[i] <= PoolSize + promoted'
    <3>1. \A i \in 1..Len(current) : current[i] \in Nat /\ current[i] <= PoolSize + promoted
      BY DEF BTypeOK, Rounds, RoundInv
    <3> QED
      BY <1>5, <1>9, <3>1
  <2>3. \A s \in Seats : s > PoolSize + promoted' => phase'[s] = "idle"
    <3> SUFFICES ASSUME NEW s \in Seats, s > PoolSize + promoted'
                 PROVE  phase'[s] = "idle"
      OBVIOUS
    <3>1. s \in Nat /\ promoted \in Nat /\ promoted' \in Nat
      BY <1>5, <1>9
    <3>2. promoted <= promoted' /\ PoolSize \in Nat
      BY <1>9
    <3>3. s > PoolSize + promoted
      BY <3>1, <3>2, BeyondIsBeyond
    <3> QED
      BY <1>1, <3>3 DEF RoundInv
  <2> QED
    BY <1>1, <1>3, <1>5, <2>1, <2>2, <2>3 DEF RoundInv
<1>12. EveryFailureIsBackfilled'
  <2>1. CASE promoted < ReserveSize
    <3>1. Outstanding' = Outstanding /\ Outstanding \in Int
      BY <1>3, <1>5, <1>7, <2>1 DEF Outstanding
    <3> QED
      BY <1>3, <1>5, <2>1, <3>1 DEF EveryFailureIsBackfilled, Target
  <2>2. CASE promoted = ReserveSize
    <3>1. Outstanding' = Outstanding - 1 /\ Outstanding \in Int
      BY <1>3, <1>5, <1>8, <2>2 DEF Outstanding
    <3> QED
      BY <1>3, <1>5, <1>8, <2>2, <3>1 DEF EveryFailureIsBackfilled, Target
  <2> QED
    BY <1>5, <2>1, <2>2
<1>13. TallyInv'
  BY <1>3 DEF TallyInv
<1>14. LoopPosition'
  BY <1>3, <1>5 DEF LoopPosition
<1>15. EachSeatTalliedOnce'
  BY <1>3, <1>4, <1>5, <1>6 DEF EachSeatTalliedOnce
<1> QED
  BY <1>1, <1>10, <1>11, <1>12, <1>13, <1>14, <1>15

LEMMA NextRoundKeepsBoardInv == BoardInv /\ NextRound => BoardInv'
<1> SUFFICES ASSUME BoardInv, NextRound PROVE BoardInv'
  OBVIOUS
<1> USE DEF BoardInv
<1>1. SeatInv' /\ phase' = phase
  BY SeatsUntouched DEF NextRound, dispatchVars, seatVars
<1>2. /\ boardPc = "judging" /\ boardPc' = "loop" /\ judged = Len(current) /\ judged' = 0
      /\ current' = nextRound /\ nextRound' = << >>
      /\ UNCHANGED <<promoted, results, usable, tally, suppress, boardPrev, panelPrev,
                     deadlineArmed>>
  BY DEF NextRound
<1>3. BTypeOK'
  BY <1>2 DEF BTypeOK, Rounds
<1>4. RoundInv'
  BY <1>1, <1>2 DEF RoundInv
<1>5. TallyInv'
  BY <1>2 DEF TallyInv
<1>6. LoopPosition' /\ EachSeatTalliedOnce'
  BY <1>2 DEF LoopPosition, EachSeatTalliedOnce
<1>7. EveryFailureIsBackfilled'
  <2>1. Len(current) \in Nat /\ Len(nextRound) \in Nat
    BY DEF BTypeOK, Rounds
  <2>2. Outstanding' = Outstanding
    BY <1>2, <2>1 DEF Outstanding
  <2> QED
    BY <1>2, <2>2 DEF EveryFailureIsBackfilled
<1> QED
  BY <1>1, <1>3, <1>4, <1>5, <1>6, <1>7

\* Leaving the loop through the finally clause, with or without an outcome.
LEMMA LeaveKeepsBoardInv == BoardInv /\ (ReturnOutcome \/ Raise) => BoardInv'
<1> SUFFICES ASSUME BoardInv, ReturnOutcome \/ Raise PROVE BoardInv'
  OBVIOUS
<1> USE DEF BoardInv
<1>1. SeatInv' /\ phase' = phase
  BY SeatsUntouched DEF ReturnOutcome, Raise, dispatchVars, seatVars
<1>2. /\ UNCHANGED <<current, judged, nextRound, promoted, results, usable, tally, boardPrev,
                     panelPrev>>
      /\ suppress' = boardPrev /\ deadlineArmed' = FALSE
      /\ boardPc \in {"loop", "judging", "running"}
  BY DEF ReturnOutcome, Raise, Release
<1>3. \/ boardPc' = "returned" /\ boardPc = "loop" /\ current = << >>
      \/ boardPc' = "raised"
  BY DEF ReturnOutcome, Raise
<1>4. \A s \in Seats : phase[s] \in {"idle", "done"}
  BY DEF ReturnOutcome, Raise, RoundInv, RoundFinished
<1>5. BTypeOK'
  <2>1. suppress' \in BOOLEAN /\ boardPrev' \in BOOLEAN /\ panelPrev' \in BOOLEAN
          /\ deadlineArmed' \in BOOLEAN
    BY <1>2 DEF BTypeOK
  <2> QED
    BY <1>2, <1>3, <2>1 DEF BTypeOK
<1>6. RoundInv'
  BY <1>1, <1>2, <1>3, <1>4 DEF RoundInv
<1>7. TallyInv'
  BY <1>2, <1>3 DEF TallyInv
<1>8. LoopPosition' /\ EachSeatTalliedOnce'
  BY <1>2, <1>3 DEF LoopPosition, EachSeatTalliedOnce
<1>9. EveryFailureIsBackfilled'
  <2>1. Outstanding' = Outstanding
    BY <1>2, <1>3 DEF Outstanding
  <2> QED
    BY <1>2, <2>1 DEF EveryFailureIsBackfilled
<1> QED
  BY <1>1, <1>5, <1>6, <1>7, <1>8, <1>9

LEMMA NextKeepsBoardInv == BoardInv /\ [BNext]_vars => BoardInv'
<1> SUFFICES ASSUME BoardInv, [BNext]_vars PROVE BoardInv'
  OBVIOUS
<1>1. CASE UNCHANGED vars
  <2>1. SeatInv'
    BY <1>1, SeatsUntouched DEF BoardInv, vars
  <2>2. BTypeOK'
    BY <1>1 DEF BoardInv, vars, boardVars, BTypeOK
  <2>3. RoundInv'
    BY <1>1 DEF BoardInv, vars, boardVars, dispatchVars, seatVars, RoundInv
  <2>4. TallyInv' /\ LoopPosition'
    BY <1>1 DEF BoardInv, vars, boardVars, TallyInv, LoopPosition
  <2>5. EveryFailureIsBackfilled' /\ EachSeatTalliedOnce'
    BY <1>1 DEF BoardInv, vars, boardVars, EveryFailureIsBackfilled, Outstanding,
               EachSeatTalliedOnce
  <2> QED
    BY <2>1, <2>2, <2>3, <2>4, <2>5 DEF BoardInv
<1>2. CASE BoardStep
  BY <1>2, StartKeepsBoardInv, DispatchKeepsBoardInv, PanelReturnKeepsBoardInv,
     JudgeUsableKeepsBoardInv, JudgeFailedKeepsBoardInv, NextRoundKeepsBoardInv,
     LeaveKeepsBoardInv DEF BoardStep
<1>3. CASE Raise
  BY <1>3, LeaveKeepsBoardInv
<1>4. CASE \E s \in Seats : SeatStep(s)
  BY <1>4, SeatStepKeepsBoardInv
<1> QED
  BY <1>1, <1>2, <1>3, <1>4 DEF BNext, Terminated

LEMMA BoardInvIsInvariant == BSpec => []BoardInv
BY InitEstablishesBoardInv, NextKeepsBoardInv, PTL DEF BSpec

-----------------------------------------------------------------------------
(* The theorems. *)

\* The calling thread's state keeps its type.
THEOREM BoardTypeCorrect == BSpec => []BTypeOK
<1>1. BoardInv => BTypeOK
  BY DEF BoardInv
<1> QED
  BY <1>1, BoardInvIsInvariant, PTL

\* While the reserve lasts no failed seat goes unreplaced, and the board never
\* collects more verdicts than it was asked for.
THEOREM FailuresAreBackfilled == BSpec => []EveryFailureIsBackfilled
<1>1. BoardInv => EveryFailureIsBackfilled
  BY DEF BoardInv
<1> QED
  BY <1>1, BoardInvIsInvariant, PTL

\* "degraded" is never reported with a reserve reviewer left to try.
THEOREM DegradedMeansExhausted == BSpec => []DegradedOnlyWhenReserveExhausted
<1>1. BoardInv => DegradedOnlyWhenReserveExhausted
  <2> SUFFICES ASSUME BoardInv, boardPc = "returned", degraded
               PROVE  promoted = ReserveSize
    BY DEF DegradedOnlyWhenReserveExhausted
  <2>1. Outstanding = 0
    BY DEF BoardInv, LoopPosition, Outstanding
  <2>2. promoted \in 0..ReserveSize /\ Len(usable) \in Nat
    BY DEF BoardInv, BTypeOK, Rounds
  <2>3. ~ (promoted < ReserveSize)
    BY <2>1, <2>2 DEF BoardInv, EveryFailureIsBackfilled, degraded, Target
  <2> QED
    BY <2>2, <2>3
<1> QED
  BY <1>1, BoardInvIsInvariant, PTL

\* Every logical seat counts once in the run statistics.
THEOREM TallyIsExact == BSpec => []EachSeatTalliedOnce
<1>1. BoardInv => EachSeatTalliedOnce
  BY DEF BoardInv
<1> QED
  BY <1>1, BoardInvIsInvariant, PTL

\* The suppression and the deadline are released on every way out.
THEOREM ReleasedOnEveryExit == BSpec => []NothingLeaks
<1>1. BoardInv => NothingLeaks
  BY DEF BoardInv, TallyInv, NothingLeaks, Finished
<1> QED
  BY <1>1, BoardInvIsInvariant, PTL

-----------------------------------------------------------------------------
(* Refinement: every step of the board is a step of its contract or leaves  *)
(* the contract's state alone.                                              *)

contractVars == <<Len(usable), Outstanding, ReserveSize - promoted, Outcome>>

LEMMA InitMapsToInit == BInit => Contract!Init
BY DEF BInit, Contract!Init, Outstanding, Outcome

LEMMA StepMapsToStep ==
    ASSUME BoardInv, [BNext]_vars
    PROVE  Contract!Next \/ UNCHANGED contractVars
<1> USE DEF BoardInv
<1>1. /\ Len(current) \in Nat /\ judged \in Nat /\ Len(nextRound) \in Nat /\ Len(usable) \in Nat
      /\ promoted \in 0..ReserveSize /\ judged <= Len(current)
  BY DEF BTypeOK, Rounds
<1>2. CASE UNCHANGED vars
  BY <1>2 DEF vars, boardVars, contractVars, Outstanding, Outcome, degraded
<1>3. CASE \E s \in Seats : SeatStep(s)
  <2>1. PICK s \in Seats : SeatStep(s)
    BY <1>3
  <2>2. Step(s)
    BY <2>1 DEF SeatStep, SeatRuns, CallReturns, Step
  <2>3. phase[s] \notin {"idle", "done"}
    BY <2>2, StepIsLocal DEF SeatInv
  <2>4. UNCHANGED <<usable, current, judged, nextRound, promoted, boardPc>>
    BY <2>1 DEF SeatStep, SeatRuns, CallReturns, boardVars
  <2> QED
    BY <2>4 DEF contractVars, Outstanding, Outcome, degraded
<1>4. CASE StartBoard
  <2>1. Len(current') = PoolSize /\ boardPc' = "loop" /\ judged' = 0 /\ nextRound' = << >>
          /\ usable' = usable /\ promoted' = promoted /\ boardPc = "start"
    BY <1>4 DEF StartBoard, LoopPosition
  <2>2. Outstanding' = Outstanding
    BY <2>1 DEF Outstanding
  <2>3. Outcome' = Outcome
    BY <2>1 DEF Outcome
  <2> QED
    BY <2>1, <2>2, <2>3 DEF contractVars
<1>5. CASE DispatchRound \/ PanelReturns
  <2>1. /\ UNCHANGED <<usable, current, promoted>>
        /\ judged' = judged /\ nextRound' = nextRound
        /\ boardPc \in {"loop", "running"} /\ boardPc' \in {"running", "judging"}
    BY <1>5 DEF DispatchRound, PanelReturns, LoopPosition
  <2>2. Outstanding' = Outstanding /\ Outcome' = Outcome
    BY <2>1 DEF Outstanding, Outcome
  <2> QED
    BY <2>1, <2>2 DEF contractVars
<1>6. CASE NextRound
  <2>1. /\ boardPc = "judging" /\ boardPc' = "loop" /\ judged = Len(current) /\ judged' = 0
        /\ current' = nextRound /\ nextRound' = << >> /\ UNCHANGED <<usable, promoted>>
    BY <1>6 DEF NextRound
  <2>2. Outstanding' = Outstanding /\ Outcome' = Outcome
    BY <1>1, <2>1 DEF Outstanding, Outcome
  <2> QED
    BY <2>1, <2>2 DEF contractVars
<1>7. CASE JudgeUsable
  <2>1. Judging /\ Judged \in Seats
    BY <1>7, JudgedIsSeat DEF JudgeUsable
  <2>2. /\ UNCHANGED <<boardPc, current, nextRound, promoted>> /\ judged' = judged + 1
        /\ boardPc = "judging" /\ judged < Len(current)
    BY <1>7, <2>1 DEF JudgeUsable, Judging
  <2>3. Len(usable') = Len(usable) + 1
    <3>1. usable' = Append(usable, Judged) /\ usable \in Seq(Seats)
      BY <1>7 DEF JudgeUsable, BTypeOK, Rounds
    <3> QED
      BY <2>1, <3>1
  <2>4. Outstanding > 0 /\ Outstanding' = Outstanding - 1
    BY <1>1, <2>2 DEF Outstanding
  <2>5. Outcome = "running" /\ Outcome' = "running"
    BY <2>2 DEF Outcome
  <2> QED
    BY <2>2, <2>3, <2>4, <2>5 DEF Contract!Next, Contract!Answer
<1>8. CASE JudgeFailed
  <2>1. /\ UNCHANGED <<boardPc, current, usable>> /\ judged' = judged + 1
        /\ boardPc = "judging" /\ judged < Len(current)
    BY <1>8 DEF JudgeFailed, Judging
  <2>2. Outcome = "running" /\ Outcome' = "running"
    BY <2>1 DEF Outcome
  <2>3. Outstanding > 0
    BY <1>1, <2>1 DEF Outstanding
  <2>4. CASE promoted < ReserveSize
    <3>1. promoted' = promoted + 1 /\ nextRound' = Append(nextRound, PoolSize + promoted + 1)
      BY <1>8, <2>4 DEF JudgeFailed
    <3>2. nextRound \in Seq(Seats) /\ PoolSize + promoted + 1 \in Seats
      BY <1>1, <2>4 DEF BTypeOK, Rounds
    <3>3. Len(nextRound') = Len(nextRound) + 1
      BY <3>1, <3>2
    <3>4. Outstanding' = Outstanding
      BY <1>1, <2>1, <3>3 DEF Outstanding
    <3>5. ReserveSize - promoted > 0 /\ (ReserveSize - promoted)' = ReserveSize - promoted - 1
      BY <1>1, <2>4, <3>1
    <3> QED
      BY <2>1, <2>2, <2>3, <3>4, <3>5 DEF Contract!Next, Contract!Replace
  <2>5. CASE promoted = ReserveSize
    <3>1. promoted' = promoted /\ nextRound' = nextRound
      BY <1>1, <1>8, <2>5 DEF JudgeFailed
    <3>2. Outstanding' = Outstanding - 1
      BY <1>1, <2>1, <3>1 DEF Outstanding
    <3>3. ReserveSize - promoted = 0
      BY <1>1, <2>5
    <3> QED
      BY <2>1, <2>2, <2>3, <3>1, <3>2, <3>3 DEF Contract!Next, Contract!Lose
  <2> QED
    BY <1>1, <2>4, <2>5
<1>9. CASE ReturnOutcome
  <2>1. /\ UNCHANGED <<usable, current, judged, nextRound, promoted>>
        /\ boardPc = "loop" /\ boardPc' = "returned" /\ current = << >> /\ judged = 0
        /\ nextRound = << >>
    BY <1>9 DEF ReturnOutcome, LoopPosition
  <2>2. Outstanding = 0 /\ Outstanding' = Outstanding
    BY <2>1 DEF Outstanding
  <2>3. Outcome = "running" /\ Outcome' = IF Len(usable) < PoolSize THEN "degraded" ELSE "full"
    BY <2>1 DEF Outcome, degraded, Target
  <2> QED
    BY <2>1, <2>2, <2>3 DEF Contract!Next, Contract!Conclude
<1>10. CASE Raise
  <2>1. /\ UNCHANGED <<usable, current, judged, nextRound, promoted>>
        /\ boardPc \in {"loop", "judging", "running"} /\ boardPc' = "raised"
    BY <1>10 DEF Raise
  <2>2. Outstanding' = Outstanding /\ Outcome = "running" /\ Outcome' = "raised"
    BY <2>1 DEF Outstanding, Outcome
  <2> QED
    BY <2>1, <2>2 DEF Contract!Next, Contract!Raise
<1> QED
  BY <1>2, <1>3, <1>4, <1>5, <1>6, <1>7, <1>8, <1>9, <1>10 DEF BNext, BoardStep, Terminated

\* The safety part of ImplementsContract: whatever the seats, their retries and
\* their provider switches do, the board only ever moves as its contract allows.
THEOREM BoardImplementsContract == BSpec => Contract!Init /\ [][Contract!Next]_contractVars
BY InitMapsToInit, BoardInvIsInvariant, StepMapsToStep, PTL DEF BSpec

\* The rounds of a board begin only once no call of an earlier one holds a slot.
LEMMA BoardMovesSlots ==
    ASSUME BoardInv, [BNext]_vars
    PROVE  [SlotsHeld!Next]_Slots
<1> USE DEF BoardInv
<1>1. CASE UNCHANGED dispatchVars
  BY <1>1 DEF dispatchVars, seatVars, Slots
<1>2. ASSUME NEW s \in Seats, SeatStep(s) PROVE [SlotsHeld!Next]_Slots
  BY <1>2, SeatStepMovesSlots DEF SeatStep, SeatRuns, CallReturns, Step, SeatInv
<1>3. CASE DispatchRound
  <2>1. \A s \in Seats : phase[s] # "calling"
    BY <1>3 DEF DispatchRound, RoundInv
  <2>2. \A s \in Seats : phase'[s] # "calling"
    BY <1>3, <2>1 DEF DispatchRound
  <2> QED
    BY <2>1, <2>2 DEF Slots
<1>4. CASE StartBoard \/ PanelReturns \/ JudgeUsable \/ JudgeFailed \/ NextRound
           \/ ReturnOutcome \/ Raise \/ UNCHANGED vars
  BY <1>1, <1>4 DEF StartBoard, PanelReturns, JudgeUsable, JudgeFailed, NextRound,
                    ReturnOutcome, Raise, vars
<1> QED
  BY <1>2, <1>3, <1>4 DEF BNext, BoardStep, Terminated

\* The same of a whole board run, over all its rounds and backfills.
THEOREM BoardImplementsCap == BSpec => SlotsHeld!Init /\ [][SlotsHeld!Next]_Slots
<1>1. BInit => SlotsHeld!Init
  BY NoSlotAtFirst DEF BInit
<1> QED
  BY <1>1, BoardInvIsInvariant, BoardMovesSlots, PTL DEF BSpec

-----------------------------------------------------------------------------
(* The process of one call, and the cap on all of them. *)

USE RunnerAssumption

Holders == {c \in Calls : HasSlot(c)}

(* The types of what a call keeps to itself.                               *)
LocalTypes ==
    /\ pc \in [Calls -> Labels]
    /\ cfg \in [Calls -> Config]
    /\ child \in [Calls -> {"none", "alive", "leftover", "dead"}]
    /\ group \in [Calls -> BOOLEAN] /\ got \in [Calls -> BOOLEAN]
    /\ drain \in [Calls -> BOOLEAN] /\ racing \in [Calls -> BOOLEAN]
    /\ bound \in [Calls -> Nat \ {0}]
    /\ silence \in [Calls -> Nat] /\ clock \in [Calls -> Nat] /\ ran \in [Calls -> Nat]
    /\ chat \in [Calls -> Nat] /\ elapsed \in [Calls -> Nat]
    /\ verdict \in [Calls -> {"none", "stall", "silence", "timeout"}]

SharedTypes ==
    /\ cfg \in Requests
    /\ free \in Nat
    /\ registry \subseteq Handles
    /\ doomed \subseteq Handles
    /\ budget \in Nat
    /\ cli \in {"running", "snapshot", "killed", "exited"}

(* Where a call's child can be alive, and where the registry has it.       *)
ChildInv ==
    \A c \in Calls :
        /\ pc[c] \in {"enter", "slot", "spawn"} => child[c] = "none"
        /\ pc[c] \in {"unregister", "release", "done"} => child[c] # "alive"
        /\ pc[c] \in {"group", "swap"} => <<c, "pid">> \in registry
        /\ pc[c] = "swapped" => <<c, "group">> \in registry
        /\ child[c] = "alive" /\ pc[c] # "register" =>
              <<c, "pid">> \in registry \/ <<c, "group">> \in registry

Guarded == {"register", "group", "swap", "swapped", "listen", "watch", "judge"}
Ending == {"kill", "join", "finally", "unregister", "release"}

(* The clocks a poll may read, and the bounds it holds them against.       *)
ClockInv ==
    \A c \in Calls :
        /\ drain[c] => Listening(c)
        /\ drain[c] /\ cfg[c].mode # "wall" => clock[c] = 0
        /\ racing[c] /\ cfg[c].mode # "wall" => elapsed[c] = 0
        /\ bound[c] >= MinOf(Idle, Floor)
        /\ pc[c] \in Guarded => silence[c] >= MinOf(cfg[c].silence, Floor)
        /\ pc[c] \notin Ending => verdict[c] = "none"

SlotInv == free + Cardinality(Holders) = Cap

RunnerInv ==
    /\ LocalTypes /\ SharedTypes /\ ChildInv /\ ClockInv /\ SlotInv
    /\ OutputBeatsTheReaper /\ NoInstantReap

-----------------------------------------------------------------------------
(* Operators.                                                              *)

(* The clamp never takes a bound below the floor, nor above itself.        *)
LEMMA ClampIsBounded ==
    ASSUME NEW x \in Nat, budget \in Nat
    PROVE  /\ Clamp(x) \in Nat
           /\ Clamp(x) >= MinOf(x, Floor)
           /\ x > 0 => Clamp(x) > 0
BY DEF Clamp, MinOf, MaxOf

(* A permit in a call's hands is one that is not free.                     *)
LEMMA HoldersAreFinite == IsFiniteSet(Holders) /\ Cardinality(Holders) \in Nat
BY FS_Subset, FS_CardinalityType DEF Holders

(* A stuck child is judged only after its bound, never on a fresh chunk.   *)
LEMMA JudgementIsFair ==
    ASSUME LocalTypes, ClockInv, NEW c \in Calls, pc[c] = "judge"
    PROVE  /\ Judgement(c) \in {"none", "stall", "silence", "timeout"}
           /\ Judgement(c) = "timeout" => Spent(c) >= MinOf(Idle, Floor)
           /\ Judgement(c) = "silence" => elapsed[c] >= MinOf(cfg[c].silence, Floor)
           /\ Judgement(c) \in {"stall", "silence"} => ~racing[c]
           /\ Judgement(c) = "timeout" /\ cfg[c].mode = "idle" => ~racing[c]
<1>1. /\ elapsed[c] \in Nat /\ bound[c] \in Nat \ {0} /\ silence[c] \in Nat /\ ran[c] \in Nat
      /\ cfg[c].stall \in Nat /\ cfg[c].silence \in Nat
  BY DEF LocalTypes, Config
<1>2. /\ bound[c] >= MinOf(Idle, Floor) /\ silence[c] >= MinOf(cfg[c].silence, Floor)
      /\ (racing[c] /\ cfg[c].mode # "wall" => elapsed[c] = 0)
  BY DEF ClockInv, Guarded
<1> DEFINE j == Judgement(c)
<1>3. /\ j = "stall" => cfg[c].mode # "wall" /\ elapsed[c] > 0
      /\ j = "silence" => cfg[c].mode # "wall" /\ elapsed[c] >= silence[c] /\ cfg[c].silence > 0
      /\ j = "timeout" => Spent(c) >= bound[c]
      /\ j \in {"none", "stall", "silence", "timeout"}
  BY <1>1 DEF Judgement, Stalled, SilenceRules, MinOf
<1>4. Spent(c) \in Nat /\ (cfg[c].mode = "idle" => Spent(c) = elapsed[c])
  BY <1>1 DEF Spent
<1>5. MinOf(Idle, Floor) \in Nat \ {0} /\ MinOf(cfg[c].silence, Floor) \in Nat
      /\ (cfg[c].silence > 0 => MinOf(cfg[c].silence, Floor) > 0)
  BY <1>1 DEF MinOf
<1> HIDE DEF j
<1>6. /\ j = "timeout" => Spent(c) >= MinOf(Idle, Floor)
      /\ j = "silence" => elapsed[c] >= MinOf(cfg[c].silence, Floor) /\ elapsed[c] > 0
  BY <1>1, <1>2, <1>3, <1>4, <1>5
<1>7. j = "timeout" /\ cfg[c].mode = "idle" => elapsed[c] > 0
  BY <1>4, <1>5, <1>6
<1>8. /\ j \in {"stall", "silence"} => ~racing[c]
      /\ j = "timeout" /\ cfg[c].mode = "idle" => ~racing[c]
  <2>1. elapsed[c] > 0 /\ cfg[c].mode # "wall" => ~racing[c]
    BY <1>2
  <2> QED
    BY <2>1, <1>3, <1>6, <1>7
<1> QED
  BY <1>3, <1>6, <1>8 DEF j

(* What is left of a tree that was killed is not alive.                    *)
LEMMA KilledIsNotAlive ==
    ASSUME LocalTypes, NEW c \in Calls
    PROVE  KillTree(c) \in {"none", "leftover", "dead"}
BY DEF LocalTypes, KillTree

LEMMA InitEstablishesRunnerInv == RunnerInit => RunnerInv
<1> SUFFICES ASSUME RunnerInit PROVE RunnerInv
  OBVIOUS
<1>1. LocalTypes
  BY DEF RunnerInit, LocalTypes, Labels, Config
<1>2. SharedTypes
  BY DEF RunnerInit, SharedTypes, Handles, MaxOf
<1>3. ChildInv
  BY DEF RunnerInit, ChildInv
<1>4. ClockInv
  BY DEF RunnerInit, ClockInv, MinOf, Guarded, Ending
<1>5. SlotInv
  <2>1. Holders = {}
    BY DEF RunnerInit, Holders, HasSlot
  <2> QED
    BY <2>1, FS_EmptySet DEF RunnerInit, SlotInv
<1>6. OutputBeatsTheReaper /\ NoInstantReap
  BY DEF RunnerInit, OutputBeatsTheReaper, ForQuiet,
                NoInstantReap, Spent, LocalTypes, outVars
<1> QED
  BY <1>1, <1>2, <1>3, <1>4, <1>5, <1>6 DEF RunnerInv

-----------------------------------------------------------------------------
(* The count of permits.                                                   *)

(* A step of one call that neither takes nor returns a permit.             *)
LEMMA HoldersUnchanged ==
    ASSUME SlotInv, LocalTypes, free' = free, NEW c \in Calls, NEW l \in Labels,
           pc' = [pc EXCEPT ![c] = l],
           pc[c] \in {"enter", "slot", "done"} <=> l \in {"enter", "slot", "done"}
    PROVE  SlotInv'
<1>1. Holders' = Holders
  BY DEF Holders, HasSlot, LocalTypes
<1> QED
  BY <1>1 DEF SlotInv

LEMMA AcquireKeepsCount ==
    ASSUME RunnerInv, NEW c \in Calls, AcquireSlot(c)
    PROVE  SlotInv'
<1>1. c \notin Holders /\ Holders' = Holders \cup {c}
  BY DEF AcquireSlot, Goto, Holders, HasSlot, RunnerInv, LocalTypes
<1>2. Cardinality(Holders') = Cardinality(Holders) + 1
  BY <1>1, HoldersAreFinite, FS_AddElement
<1> QED
  BY <1>2, HoldersAreFinite DEF AcquireSlot, SlotInv, RunnerInv, SharedTypes

LEMMA ReleaseKeepsCount ==
    ASSUME RunnerInv, NEW c \in Calls, ReleaseSlot(c)
    PROVE  SlotInv'
<1>1. c \in Holders /\ Holders' = Holders \ {c}
  BY DEF ReleaseSlot, Return, Goto, Holders, HasSlot, RunnerInv, LocalTypes
<1>2. Cardinality(Holders') = Cardinality(Holders) - 1
  BY <1>1, HoldersAreFinite, FS_RemoveElement
<1> QED
  BY <1>2, HoldersAreFinite DEF ReleaseSlot, SlotInv, RunnerInv, SharedTypes

-----------------------------------------------------------------------------
(* The steps of a call.                                                    *)

(* Starting the child.                                                     *)
LEMMA StartKeepsInv ==
    ASSUME RunnerInv, NEW c \in Calls,
           \/ Enter(c) \/ AcquireSlot(c) \/ Spawn(c) \/ Register(c)
           \/ GroupKnown(c) \/ GroupUnknown(c) \/ Swap(c) \/ Listen(c)
    PROVE  RunnerInv'
<1> USE DEF RunnerInv, Goto, Labels, Handles, Listening, Guarded, Ending
<1>1. CASE Enter(c)
  <2>1. Clamp(Idle) \in Nat /\ Clamp(Idle) > 0 /\ Clamp(Idle) >= MinOf(Idle, Floor)
    BY ClampIsBounded DEF SharedTypes
  <2>2. LocalTypes' /\ SharedTypes'
    <3>1. LocalTypes'
      <4>1. bound' \in [Calls -> Nat \ {0}] /\ pc' \in [Calls -> Labels]
        BY <1>1, <2>1 DEF Enter, LocalTypes, Goto, Labels
      <4>2. UNCHANGED <<cfg, silence, elapsed, racing, verdict, outVars, treeVars>>
        BY <1>1 DEF Enter
      <4> QED
        BY <4>1, <4>2 DEF LocalTypes, outVars, treeVars
    <3>2. SharedTypes'
      BY <1>1, <2>1 DEF Enter, LocalTypes, SharedTypes, outVars, treeVars, cliVars
    <3> QED
      BY <3>1, <3>2
  <2>3. SlotInv'
    BY <1>1, HoldersUnchanged DEF Enter
  <2>4. ChildInv'
    BY <1>1 DEF Enter, ChildInv, LocalTypes, treeVars
  <2>5. ClockInv'
    BY <1>1, <2>1 DEF Enter, ClockInv, LocalTypes, outVars, MinOf
  <2>6. OutputBeatsTheReaper' /\ NoInstantReap'
    BY <1>1 DEF Enter, OutputBeatsTheReaper, ForQuiet,
                NoInstantReap, Spent, LocalTypes, outVars
  <2> QED
    BY <2>2, <2>3, <2>4, <2>5, <2>6
<1>2. CASE AcquireSlot(c)
  <2>1. LocalTypes' /\ SharedTypes'
    <3>1. LocalTypes'
      BY <1>2 DEF AcquireSlot, LocalTypes, callVars, outVars, treeVars, cliVars
    <3>2. SharedTypes'
      BY <1>2 DEF AcquireSlot, LocalTypes, SharedTypes, callVars, outVars, treeVars, cliVars
    <3> QED
      BY <3>1, <3>2
  <2>2. SlotInv'
    BY <1>2, AcquireKeepsCount
  <2>3. ChildInv' /\ ClockInv' /\ OutputBeatsTheReaper' /\ NoInstantReap'
    BY <1>2 DEF AcquireSlot, ChildInv, ClockInv, OutputBeatsTheReaper, ForQuiet,
                NoInstantReap, Spent, LocalTypes,
                callVars, outVars, treeVars
  <2> QED
    BY <2>1, <2>2, <2>3
<1>3. CASE Spawn(c)
  <2>1. Clamp(cfg[c].silence) \in Nat /\ Clamp(cfg[c].silence) >= MinOf(cfg[c].silence, Floor)
    BY ClampIsBounded DEF SharedTypes, LocalTypes, Config
  <2>2. LocalTypes' /\ SharedTypes'
    <3>1. LocalTypes'
      BY <1>3, <2>1 DEF Spawn, LocalTypes, outVars, cliVars
    <3>2. SharedTypes'
      BY <1>3, <2>1 DEF Spawn, LocalTypes, SharedTypes, outVars, cliVars
    <3> QED
      BY <3>1, <3>2
  <2>3. SlotInv'
    BY <1>3, HoldersUnchanged DEF Spawn
  <2>4. ChildInv'
    BY <1>3 DEF Spawn, ChildInv, LocalTypes
  <2>5. ClockInv'
    BY <1>3, <2>1 DEF Spawn, ClockInv, LocalTypes, outVars
  <2>6. OutputBeatsTheReaper' /\ NoInstantReap'
    BY <1>3 DEF Spawn, OutputBeatsTheReaper, ForQuiet,
                NoInstantReap, Spent, LocalTypes, outVars
  <2> QED
    BY <2>2, <2>3, <2>4, <2>5, <2>6
<1>4. CASE Register(c)
  <2>1. LocalTypes' /\ SharedTypes'
    <3>1. LocalTypes'
      BY <1>4 DEF Register, LocalTypes, callVars, outVars, treeVars, cliVars
    <3>2. SharedTypes'
      BY <1>4 DEF Register, LocalTypes, SharedTypes, callVars, outVars, treeVars, cliVars
    <3> QED
      BY <3>1, <3>2
  <2>2. SlotInv'
    BY <1>4, HoldersUnchanged DEF Register
  <2>3. ChildInv'
    BY <1>4 DEF Register, ChildInv, LocalTypes, treeVars
  <2>4. ClockInv'
    BY <1>4 DEF Register, ClockInv, LocalTypes, callVars, outVars
  <2>5. OutputBeatsTheReaper' /\ NoInstantReap'
    BY <1>4 DEF Register, callVars, OutputBeatsTheReaper, ForQuiet,
                NoInstantReap, Spent, LocalTypes, outVars
  <2> QED
    BY <2>1, <2>2, <2>3, <2>4, <2>5
<1>5. CASE GroupKnown(c)
  <2>1. LocalTypes' /\ SharedTypes'
    <3>1. LocalTypes'
      BY <1>5 DEF GroupKnown, LocalTypes, callVars, outVars, treeVars, cliVars
    <3>2. SharedTypes'
      BY <1>5 DEF GroupKnown, LocalTypes, SharedTypes, callVars, outVars, treeVars, cliVars
    <3> QED
      BY <3>1, <3>2
  <2>2. SlotInv'
    BY <1>5, HoldersUnchanged DEF GroupKnown
  <2>3. ChildInv'
    BY <1>5 DEF GroupKnown, ChildInv, LocalTypes, treeVars
  <2>4. ClockInv'
    BY <1>5 DEF GroupKnown, ClockInv, LocalTypes, callVars, outVars
  <2>5. OutputBeatsTheReaper' /\ NoInstantReap'
    BY <1>5 DEF GroupKnown, callVars, OutputBeatsTheReaper, ForQuiet,
                NoInstantReap, Spent, LocalTypes, outVars
  <2> QED
    BY <2>1, <2>2, <2>3, <2>4, <2>5
<1>6. CASE GroupUnknown(c)
  <2>1. LocalTypes' /\ SharedTypes'
    <3>1. LocalTypes'
      BY <1>6 DEF GroupUnknown, LocalTypes, callVars, outVars, treeVars, cliVars
    <3>2. SharedTypes'
      BY <1>6 DEF GroupUnknown, LocalTypes, SharedTypes, callVars, outVars, treeVars, cliVars
    <3> QED
      BY <3>1, <3>2
  <2>2. SlotInv'
    BY <1>6, HoldersUnchanged DEF GroupUnknown
  <2>3. ChildInv'
    BY <1>6 DEF GroupUnknown, ChildInv, LocalTypes, treeVars
  <2>4. ClockInv'
    BY <1>6 DEF GroupUnknown, ClockInv, LocalTypes, callVars, outVars
  <2>5. OutputBeatsTheReaper' /\ NoInstantReap'
    BY <1>6 DEF GroupUnknown, callVars, OutputBeatsTheReaper, ForQuiet,
                NoInstantReap, Spent, LocalTypes, outVars
  <2> QED
    BY <2>1, <2>2, <2>3, <2>4, <2>5
<1>7. CASE Swap(c)
  <2>1. LocalTypes' /\ SharedTypes'
    <3>1. LocalTypes'
      BY <1>7 DEF Swap, Reregister, LocalTypes, callVars, outVars, treeVars, cliVars
    <3>2. SharedTypes'
      BY <1>7 DEF Swap, Reregister, LocalTypes, SharedTypes, callVars, outVars, treeVars, cliVars
    <3> QED
      BY <3>1, <3>2
  <2>2. SlotInv'
    BY <1>7, HoldersUnchanged DEF Swap, Reregister
  <2>3. ChildInv'
    BY <1>7 DEF Swap, Reregister, ChildInv, LocalTypes, treeVars
  <2>4. ClockInv'
    BY <1>7 DEF Swap, Reregister, ClockInv, LocalTypes, callVars, outVars
  <2>5. OutputBeatsTheReaper' /\ NoInstantReap'
    BY <1>7 DEF Swap, Reregister, callVars, OutputBeatsTheReaper, ForQuiet,
                NoInstantReap, Spent, LocalTypes, outVars
  <2> QED
    BY <2>1, <2>2, <2>3, <2>4, <2>5
<1>8. CASE Listen(c)
  <2>1. LocalTypes' /\ SharedTypes'
    <3>1. LocalTypes'
      BY <1>8 DEF Listen, LocalTypes, callVars, outVars, treeVars, cliVars
    <3>2. SharedTypes'
      BY <1>8 DEF Listen, LocalTypes, SharedTypes, callVars, outVars, treeVars, cliVars
    <3> QED
      BY <3>1, <3>2
  <2>2. SlotInv'
    BY <1>8, HoldersUnchanged DEF Listen
  <2>3. ChildInv'
    BY <1>8 DEF Listen, ChildInv, LocalTypes, treeVars
  <2>4. ClockInv'
    BY <1>8 DEF Listen, ClockInv, LocalTypes, callVars, outVars
  <2>5. OutputBeatsTheReaper' /\ NoInstantReap'
    BY <1>8 DEF Listen, callVars, OutputBeatsTheReaper, ForQuiet,
                NoInstantReap, Spent, LocalTypes, outVars
  <2> QED
    BY <2>1, <2>2, <2>3, <2>4, <2>5
<1> QED
  BY <1>1, <1>2, <1>3, <1>4, <1>5, <1>6, <1>7, <1>8

(* Watching it: only Judge sets a verdict, from what PollClock has read.   *)
LEMMA WatchKeepsInv ==
    ASSUME RunnerInv, NEW c \in Calls, ChildExited(c) \/ PollClock(c) \/ Judge(c)
    PROVE  RunnerInv'
<1> USE DEF RunnerInv, Goto, Labels, Handles, Listening, Guarded, Ending
<1>1. CASE ChildExited(c)
  <2>1. LocalTypes' /\ SharedTypes'
    <3>1. LocalTypes'
      BY <1>1 DEF ChildExited, LocalTypes, callVars, outVars, treeVars, cliVars
    <3>2. SharedTypes'
      BY <1>1 DEF ChildExited, LocalTypes, SharedTypes, callVars, outVars, treeVars, cliVars
    <3> QED
      BY <3>1, <3>2
  <2>2. SlotInv'
    BY <1>1, HoldersUnchanged DEF ChildExited
  <2>3. ChildInv'
    BY <1>1 DEF ChildExited, ChildInv, LocalTypes, treeVars
  <2>4. ClockInv'
    BY <1>1 DEF ChildExited, ClockInv, LocalTypes, callVars, outVars
  <2>5. OutputBeatsTheReaper' /\ NoInstantReap'
    BY <1>1 DEF ChildExited, callVars, OutputBeatsTheReaper, ForQuiet,
                NoInstantReap, Spent, LocalTypes, outVars
  <2> QED
    BY <2>1, <2>2, <2>3, <2>4, <2>5
<1>2. CASE PollClock(c)
  <2>1. LocalTypes' /\ SharedTypes'
    <3>1. LocalTypes'
      BY <1>2 DEF PollClock, LocalTypes, outVars, treeVars, cliVars
    <3>2. SharedTypes'
      BY <1>2 DEF PollClock, LocalTypes, SharedTypes, outVars, treeVars, cliVars
    <3> QED
      BY <3>1, <3>2
  <2>2. SlotInv'
    BY <1>2, HoldersUnchanged DEF PollClock
  <2>3. ChildInv'
    BY <1>2 DEF PollClock, ChildInv, LocalTypes, treeVars
  <2>4. ClockInv'
    BY <1>2 DEF PollClock, ClockInv, LocalTypes, outVars
  <2>5. OutputBeatsTheReaper' /\ NoInstantReap'
    BY <1>2 DEF PollClock, ClockInv, LocalTypes, OutputBeatsTheReaper, ForQuiet,
                NoInstantReap, Spent, outVars
  <2> QED
    BY <2>1, <2>2, <2>3, <2>4, <2>5
<1>3. CASE Judge(c)
  <2> DEFINE j == Judgement(c)
  <2>1. /\ j \in {"none", "stall", "silence", "timeout"}
        /\ j = "timeout" => Spent(c) >= MinOf(Idle, Floor)
        /\ j = "silence" => elapsed[c] >= MinOf(cfg[c].silence, Floor)
        /\ j \in {"stall", "silence"} => ~racing[c]
        /\ j = "timeout" /\ cfg[c].mode = "idle" => ~racing[c]
    BY <1>3, JudgementIsFair DEF Judge
  <2>2. /\ pc[c] = "judge"
        /\ verdict' = [verdict EXCEPT ![c] = j]
        /\ UNCHANGED <<cfg, bound, silence, outVars, treeVars, free, registry, budget, cliVars>>
        /\ \/ /\ j = "none" /\ pc' = [pc EXCEPT ![c] = "watch"]
              /\ elapsed' = [elapsed EXCEPT ![c] = 0]
              /\ racing' = [racing EXCEPT ![c] = FALSE]
           \/ /\ j # "none" /\ pc' = [pc EXCEPT ![c] = "kill"]
              /\ UNCHANGED <<elapsed, racing>>
    BY <1>3 DEF Judge
  <2> HIDE DEF j
  <2>3. LocalTypes' /\ SharedTypes'
    <3>1. LocalTypes' /\ verdict' \in [Calls -> {"none", "stall", "silence", "timeout"}]
      <4>1. CASE pc' = [pc EXCEPT ![c] = "watch"] /\ elapsed' = [elapsed EXCEPT ![c] = 0]
                 /\ racing' = [racing EXCEPT ![c] = FALSE]
        BY <2>1, <2>2, <4>1 DEF LocalTypes, outVars, treeVars
      <4>2. CASE pc' = [pc EXCEPT ![c] = "kill"] /\ UNCHANGED <<elapsed, racing>>
        BY <2>1, <2>2, <4>2 DEF LocalTypes, outVars, treeVars
      <4> QED
        BY <2>2, <4>1, <4>2
    <3>2. SharedTypes'
      BY <2>2 DEF SharedTypes, cliVars
    <3> QED
      BY <3>1, <3>2
  <2>4. SlotInv'
    BY <2>2, HoldersUnchanged
  <2>5. ChildInv'
    BY <2>2 DEF ChildInv, LocalTypes, treeVars
  <2>6. ClockInv'
    BY <2>1, <2>2 DEF ClockInv, LocalTypes, outVars
  <2>7. OutputBeatsTheReaper' /\ NoInstantReap'
    <3>1. OutputBeatsTheReaper'
      BY <2>1, <2>2 DEF LocalTypes, OutputBeatsTheReaper, ForQuiet
    <3>2. ASSUME NEW d \in Calls PROVE Spent(d)' = Spent(d) \/ (d = c /\ j = "none")
      BY <2>2 DEF LocalTypes, Spent, outVars
    <3>3. NoInstantReap'
      BY <2>1, <2>2, <3>2 DEF LocalTypes, NoInstantReap
    <3> QED
      BY <3>1, <3>3
  <2> QED
    BY <2>3, <2>4, <2>5, <2>6, <2>7
<1> QED
  BY <1>1, <1>2, <1>3

(* Cleaning up: no child is alive after the last kill.                     *)
LEMMA CleanUpKeepsInv ==
    ASSUME RunnerInv, NEW c \in Calls,
           KillStuck(c) \/ JoinReaders(c) \/ FinalKill(c) \/ Unregister(c) \/ ReleaseSlot(c)
    PROVE  RunnerInv'
<1> USE DEF RunnerInv, Goto, Labels, Handles, Listening, Guarded, Ending
<1>k. KillTree(c) \in {"none", "leftover", "dead"}
  BY KilledIsNotAlive
<1>1. CASE KillStuck(c)
  <2>1. LocalTypes' /\ SharedTypes'
    <3>1. LocalTypes'
      BY <1>1, <1>k DEF KillStuck, Reap, LocalTypes, callVars, outVars, treeVars, cliVars
    <3>2. SharedTypes'
      BY <1>1, <1>k DEF KillStuck, Reap, LocalTypes, SharedTypes, callVars, outVars, treeVars,
         cliVars
    <3> QED
      BY <3>1, <3>2
  <2>2. SlotInv'
    BY <1>1, HoldersUnchanged DEF KillStuck, Reap
  <2>3. ChildInv'
    BY <1>1, <1>k DEF KillStuck, Reap, ChildInv, LocalTypes, treeVars
  <2>4. ClockInv'
    BY <1>1, <1>k DEF KillStuck, Reap, ClockInv, LocalTypes, callVars, outVars
  <2>5. OutputBeatsTheReaper' /\ NoInstantReap'
    BY <1>1, <1>k DEF KillStuck, Reap, callVars, OutputBeatsTheReaper, ForQuiet,
                NoInstantReap, Spent, LocalTypes, outVars
  <2> QED
    BY <2>1, <2>2, <2>3, <2>4, <2>5
<1>2. CASE JoinReaders(c)
  <2>1. LocalTypes' /\ SharedTypes'
    <3>1. LocalTypes'
      BY <1>2, <1>k DEF JoinReaders, LocalTypes, callVars, outVars, treeVars, cliVars
    <3>2. SharedTypes'
      BY <1>2, <1>k DEF JoinReaders, LocalTypes, SharedTypes, callVars, outVars, treeVars, cliVars
    <3> QED
      BY <3>1, <3>2
  <2>2. SlotInv'
    BY <1>2, HoldersUnchanged DEF JoinReaders
  <2>3. ChildInv'
    BY <1>2, <1>k DEF JoinReaders, ChildInv, LocalTypes, treeVars
  <2>4. ClockInv'
    BY <1>2, <1>k DEF JoinReaders, ClockInv, LocalTypes, callVars, outVars
  <2>5. OutputBeatsTheReaper' /\ NoInstantReap'
    BY <1>2, <1>k DEF JoinReaders, callVars, OutputBeatsTheReaper, ForQuiet,
                NoInstantReap, Spent, LocalTypes, outVars
  <2> QED
    BY <2>1, <2>2, <2>3, <2>4, <2>5
<1>3. CASE FinalKill(c)
  <2>1. LocalTypes' /\ SharedTypes'
    <3>1. LocalTypes'
      BY <1>3, <1>k DEF FinalKill, Reap, LocalTypes, callVars, outVars, treeVars, cliVars
    <3>2. SharedTypes'
      BY <1>3, <1>k DEF FinalKill, Reap, LocalTypes, SharedTypes, callVars, outVars, treeVars,
         cliVars
    <3> QED
      BY <3>1, <3>2
  <2>2. SlotInv'
    BY <1>3, HoldersUnchanged DEF FinalKill, Reap
  <2>3. ChildInv'
    BY <1>3, <1>k DEF FinalKill, Reap, ChildInv, LocalTypes, treeVars
  <2>4. ClockInv'
    BY <1>3, <1>k DEF FinalKill, Reap, ClockInv, LocalTypes, callVars, outVars
  <2>5. OutputBeatsTheReaper' /\ NoInstantReap'
    BY <1>3, <1>k DEF FinalKill, Reap, callVars, OutputBeatsTheReaper, ForQuiet,
                NoInstantReap, Spent, LocalTypes, outVars
  <2> QED
    BY <2>1, <2>2, <2>3, <2>4, <2>5
<1>4. CASE Unregister(c)
  <2>1. LocalTypes' /\ SharedTypes'
    <3>1. LocalTypes'
      BY <1>4 DEF Unregister, LocalTypes, callVars, outVars, treeVars, cliVars
    <3>2. SharedTypes'
      BY <1>4 DEF Unregister, LocalTypes, SharedTypes, callVars, outVars, treeVars, cliVars
    <3> QED
      BY <3>1, <3>2
  <2>2. SlotInv'
    BY <1>4, HoldersUnchanged DEF Unregister
  <2>3. ChildInv'
    BY <1>4 DEF Unregister, ChildInv, LocalTypes, treeVars
  <2>4. ClockInv'
    BY <1>4 DEF Unregister, ClockInv, LocalTypes, callVars, outVars
  <2>5. OutputBeatsTheReaper' /\ NoInstantReap'
    BY <1>4 DEF Unregister, callVars, OutputBeatsTheReaper, ForQuiet,
                NoInstantReap, Spent, LocalTypes, outVars
  <2> QED
    BY <2>1, <2>2, <2>3, <2>4, <2>5
<1>5. CASE ReleaseSlot(c)
  <2>1. LocalTypes' /\ SharedTypes'
    <3>1. LocalTypes'
      BY <1>5 DEF ReleaseSlot, Return, LocalTypes, callVars, outVars, treeVars, cliVars
    <3>2. SharedTypes'
      BY <1>5 DEF ReleaseSlot, Return, LocalTypes, SharedTypes, callVars, outVars, treeVars, cliVars
    <3> QED
      BY <3>1, <3>2
  <2>2. SlotInv'
    BY <1>5, ReleaseKeepsCount
  <2>3. ChildInv'
    BY <1>5 DEF ReleaseSlot, Return, ChildInv, LocalTypes, treeVars
  <2>4. ClockInv'
    BY <1>5 DEF ReleaseSlot, Return, ClockInv, LocalTypes, MinOf, callVars, outVars
  <2>5. OutputBeatsTheReaper' /\ NoInstantReap'
    BY <1>5 DEF ReleaseSlot, Return, LocalTypes, OutputBeatsTheReaper, ForQuiet,
                NoInstantReap, Spent, outVars
  <2> QED
    BY <2>1, <2>2, <2>3, <2>4, <2>5
<1> QED
  BY <1>1, <1>2, <1>3, <1>4, <1>5

-----------------------------------------------------------------------------
(* The children, the drains, time and the reaper.                          *)

LEMMA SurroundingsKeepInv ==
    ASSUME RunnerInv,
           \/ \E c \in Calls : ChildPrints(c) \/ DrainFinishes(c) \/ ChildEnds(c)
           \/ Tick \/ ReaperStep
    PROVE  RunnerInv'
<1> USE DEF RunnerInv, Labels, Handles, Listening, Guarded, Ending
<1>s. UNCHANGED <<pc, free>> => SlotInv'
  BY DEF SlotInv, Holders, HasSlot
<1>1. CASE \E c \in Calls : ChildPrints(c)
  <2>1. LocalTypes' /\ SharedTypes'
    <3>1. LocalTypes'
      BY <1>1 DEF ChildPrints, DrainFirst, NoteTime, LocalTypes, callVars, outVars, treeVars,
         cliVars
    <3>2. SharedTypes'
      BY <1>1 DEF ChildPrints, DrainFirst, NoteTime, LocalTypes, SharedTypes, callVars, outVars,
         treeVars, cliVars
    <3> QED
      BY <3>1, <3>2
  <2>2. ChildInv'
    BY <1>1 DEF ChildPrints, DrainFirst, NoteTime, ChildInv, LocalTypes, treeVars
  <2>3. ClockInv'
    BY <1>1 DEF ChildPrints, DrainFirst, NoteTime, ClockInv, LocalTypes, callVars, outVars
  <2>4. OutputBeatsTheReaper' /\ NoInstantReap' /\ SlotInv'
    BY <1>1, <1>s DEF ChildPrints, DrainFirst, NoteTime, callVars, OutputBeatsTheReaper, ForQuiet,
                NoInstantReap, Spent, LocalTypes, outVars
  <2> QED
    BY <2>1, <2>2, <2>3, <2>4
<1>2. CASE \E c \in Calls : DrainFinishes(c)
  <2>1. LocalTypes' /\ SharedTypes'
    <3>1. LocalTypes'
      BY <1>2 DEF DrainFinishes, DrainSecond, NoteTime, NoteLatch, LocalTypes, callVars,
         outVars, treeVars, cliVars
    <3>2. SharedTypes'
      BY <1>2 DEF DrainFinishes, DrainSecond, NoteTime, NoteLatch, LocalTypes, SharedTypes,
         callVars, outVars, treeVars, cliVars
    <3> QED
      BY <3>1, <3>2
  <2>2. ChildInv'
    BY <1>2 DEF DrainFinishes, DrainSecond, NoteTime, NoteLatch, ChildInv, LocalTypes, treeVars
  <2>3. ClockInv'
    BY <1>2 DEF DrainFinishes, DrainSecond, NoteTime, NoteLatch, ClockInv, LocalTypes, callVars, outVars
  <2>4. OutputBeatsTheReaper' /\ NoInstantReap' /\ SlotInv'
    BY <1>2, <1>s DEF DrainFinishes, DrainSecond, NoteTime, NoteLatch, callVars, OutputBeatsTheReaper, ForQuiet,
                NoInstantReap, Spent, LocalTypes, outVars
  <2> QED
    BY <2>1, <2>2, <2>3, <2>4
<1>3. CASE \E c \in Calls : ChildEnds(c)
  <2>1. LocalTypes' /\ SharedTypes'
    <3>1. LocalTypes'
      BY <1>3 DEF ChildEnds, LocalTypes, callVars, outVars, treeVars, cliVars
    <3>2. SharedTypes'
      BY <1>3 DEF ChildEnds, LocalTypes, SharedTypes, callVars, outVars, treeVars, cliVars
    <3> QED
      BY <3>1, <3>2
  <2>2. ChildInv'
    BY <1>3 DEF ChildEnds, ChildInv, LocalTypes, treeVars
  <2>3. ClockInv'
    BY <1>3 DEF ChildEnds, ClockInv, LocalTypes, callVars, outVars
  <2>4. OutputBeatsTheReaper' /\ NoInstantReap' /\ SlotInv'
    BY <1>3, <1>s DEF ChildEnds, callVars, OutputBeatsTheReaper, ForQuiet,
                NoInstantReap, Spent, LocalTypes, outVars
  <2> QED
    BY <2>1, <2>2, <2>3, <2>4
<1>4. CASE Tick
  <2>1. LocalTypes' /\ SharedTypes'
    <3>1. LocalTypes'
      <4>1. clock' \in [Calls -> Nat] /\ ran' \in [Calls -> Nat]
        <5>1. \A c \in Calls : clock[c] \in Nat /\ ran[c] \in Nat
          BY DEF LocalTypes
        <5>2. \A c \in Calls : MinOf(clock[c] + 1, MaxClock) \in Nat
          BY <5>1 DEF MinOf
        <5>3. clock' \in [Calls -> Nat]
          BY <1>4, <5>1, <5>2 DEF Tick
        <5>4. ran' \in [Calls -> Nat]
          BY <1>4, <5>1 DEF Tick
        <5> QED
          BY <5>3, <5>4
      <4>2. UNCHANGED <<pc, cfg, bound, silence, elapsed, racing, verdict, got, drain, chat,
                        child, group>>
        BY <1>4 DEF Tick, callVars, treeVars
      <4> QED
        BY <4>1, <4>2 DEF LocalTypes
    <3>2. SharedTypes'
      BY <1>4 DEF Tick, MinOf, MaxOf, LocalTypes, SharedTypes, callVars, outVars, treeVars, cliVars
    <3> QED
      BY <3>1, <3>2
  <2>2. ChildInv'
    BY <1>4 DEF Tick, MinOf, MaxOf, ChildInv, LocalTypes, treeVars
  <2>3. ClockInv'
    BY <1>4 DEF Tick, MinOf, MaxOf, ClockInv, LocalTypes, callVars, outVars
  <2>4. OutputBeatsTheReaper' /\ NoInstantReap' /\ SlotInv'
    BY <1>4, <1>s DEF Tick, MinOf, MaxOf, callVars, OutputBeatsTheReaper, ForQuiet,
                NoInstantReap, Spent, LocalTypes, outVars
  <2> QED
    BY <2>1, <2>2, <2>3, <2>4
<1>5. CASE TakeSnapshot
  <2>1. LocalTypes' /\ SharedTypes'
    <3>1. LocalTypes'
      BY <1>5 DEF TakeSnapshot, LocalTypes, callVars, outVars, treeVars, cliVars
    <3>2. SharedTypes'
      BY <1>5 DEF TakeSnapshot, LocalTypes, SharedTypes, callVars, outVars, treeVars, cliVars
    <3> QED
      BY <3>1, <3>2
  <2>2. ChildInv'
    BY <1>5 DEF TakeSnapshot, ChildInv, LocalTypes, treeVars
  <2>3. ClockInv'
    BY <1>5 DEF TakeSnapshot, ClockInv, LocalTypes, callVars, outVars
  <2>4. OutputBeatsTheReaper' /\ NoInstantReap' /\ SlotInv'
    BY <1>5, <1>s DEF TakeSnapshot, callVars, OutputBeatsTheReaper, ForQuiet,
                NoInstantReap, Spent, LocalTypes, outVars
  <2> QED
    BY <2>1, <2>2, <2>3, <2>4
<1>6. CASE KillSnapshot
  <2>1. LocalTypes' /\ SharedTypes'
    <3>1. LocalTypes'
      BY <1>6 DEF KillSnapshot, LocalTypes, callVars, outVars, treeVars, cliVars
    <3>2. SharedTypes'
      BY <1>6 DEF KillSnapshot, LocalTypes, SharedTypes, callVars, outVars, treeVars, cliVars
    <3> QED
      BY <3>1, <3>2
  <2>2. ChildInv'
    BY <1>6 DEF KillSnapshot, ChildInv, LocalTypes, treeVars
  <2>3. ClockInv'
    BY <1>6 DEF KillSnapshot, ClockInv, LocalTypes, callVars, outVars
  <2>4. OutputBeatsTheReaper' /\ NoInstantReap' /\ SlotInv'
    BY <1>6, <1>s DEF KillSnapshot, callVars, OutputBeatsTheReaper, ForQuiet,
                NoInstantReap, Spent, LocalTypes, outVars
  <2> QED
    BY <2>1, <2>2, <2>3, <2>4
<1>7. CASE ProcessExits
  <2>1. LocalTypes' /\ SharedTypes'
    <3>1. LocalTypes'
      BY <1>7 DEF ProcessExits, LocalTypes, callVars, outVars, treeVars, cliVars
    <3>2. SharedTypes'
      BY <1>7 DEF ProcessExits, LocalTypes, SharedTypes, callVars, outVars, treeVars, cliVars
    <3> QED
      BY <3>1, <3>2
  <2>2. ChildInv'
    BY <1>7 DEF ProcessExits, ChildInv, LocalTypes, treeVars
  <2>3. ClockInv'
    BY <1>7 DEF ProcessExits, ClockInv, LocalTypes, callVars, outVars
  <2>4. OutputBeatsTheReaper' /\ NoInstantReap' /\ SlotInv'
    BY <1>7, <1>s DEF ProcessExits, callVars, OutputBeatsTheReaper, ForQuiet,
                NoInstantReap, Spent, LocalTypes, outVars
  <2> QED
    BY <2>1, <2>2, <2>3, <2>4
<1> QED
  BY <1>1, <1>2, <1>3, <1>4, <1>5, <1>6, <1>7 DEF ReaperStep

LEMMA NextKeepsRunnerInv == RunnerInv /\ [RunnerNext]_runnerVars => RunnerInv'
<1> SUFFICES ASSUME RunnerInv, [RunnerNext]_runnerVars PROVE RunnerInv'
  OBVIOUS
<1>1. ASSUME NEW c \in Calls, CallStep(c) PROVE RunnerInv'
  BY <1>1, StartKeepsInv, WatchKeepsInv, CleanUpKeepsInv DEF CallStep
<1>2. CASE UNCHANGED runnerVars
  BY <1>2 DEF runnerVars, callVars, outVars, treeVars, cliVars, RunnerInv, LocalTypes, SharedTypes,
              ChildInv, ClockInv, Listening, SlotInv, Holders, HasSlot, OutputBeatsTheReaper,
              ForQuiet, NoInstantReap, Spent
<1>3. CASE RunnerNext
  BY <1>1, <1>2, <1>3, SurroundingsKeepInv DEF RunnerNext, Returned
<1> QED
  BY <1>2, <1>3

(* The inductive invariant holds in every reachable state.                 *)
LEMMA SpecKeepsRunnerInv == RunnerSpec => []RunnerInv
BY InitEstablishesRunnerInv, NextKeepsRunnerInv, PTL DEF RunnerSpec

(* Every variable keeps its type, for any calls, cap, bounds and requests. *)
THEOREM RunnerTypeCorrect == RunnerSpec => []RTypeOK
<1>1. RunnerInv => RTypeOK
  BY HoldersAreFinite DEF RunnerInv, LocalTypes, SharedTypes, SlotInv, RTypeOK
<1> QED
  BY <1>1, SpecKeepsRunnerInv, PTL

(* Every permit of the process-wide cap is free or held by one call, and a *)
(* child is alive only while its call holds one.                           *)
THEOREM ConcurrencyCapHolds == RunnerSpec => []CapHolds
<1>1. RunnerInv => CapHolds
  BY DEF RunnerInv, SlotInv, Holders, ChildInv, LocalTypes, CapHolds, HasSlot
<1> QED
  BY <1>1, SpecKeepsRunnerInv, PTL

(* A set of calls counts the same in the contract.                         *)
LEMMA SamePermits == \A S : PermitsHeld!Cardinality(S) = Cardinality(S)
BY Zenon DEF PermitsHeld!Cardinality, Cardinality

(* A step of the runner takes a slot, gives its own back or touches none.  *)
LEMMA RunnerMovesSlots ==
    ASSUME RunnerInv, [RunnerNext]_runnerVars
    PROVE  [PermitsHeld!Next]_Holders
<1>1. pc \in [Calls -> Labels]
  BY DEF RunnerInv, LocalTypes
<1>2. ASSUME NEW c \in Calls, NEW l, Goto(c, l),
             pc[c] \in {"enter", "slot", "done"} <=> l \in {"enter", "slot", "done"}
      PROVE  Holders' = Holders
  BY <1>1, <1>2 DEF Goto, Holders, HasSlot
<1>3. ASSUME pc' = pc PROVE Holders' = Holders
  BY <1>3 DEF Holders, HasSlot
<1>4. ASSUME NEW c \in Calls, AcquireSlot(c) PROVE PermitsHeld!Next
  <2>1. c \notin Holders /\ Holders' = Holders \cup {c}
    BY <1>1, <1>4 DEF AcquireSlot, Goto, Holders, HasSlot
  <2>2. Cardinality(Holders) < Cap
    BY <1>4, HoldersAreFinite DEF AcquireSlot, RunnerInv, SharedTypes, SlotInv
  <2>3. PermitsHeld!Acquire(c)
    BY <2>1, <2>2, SamePermits DEF PermitsHeld!Acquire, Holders
  <2> QED
    BY <2>3 DEF PermitsHeld!Next
<1>5. ASSUME NEW c \in Calls, ReleaseSlot(c) PROVE PermitsHeld!Next
  <2>1. c \in Holders /\ Holders' = Holders \ {c}
    BY <1>1, <1>5 DEF ReleaseSlot, Return, Goto, Holders, HasSlot
  <2> QED
    BY <2>1 DEF PermitsHeld!Next, PermitsHeld!Release, Holders
<1>6. ASSUME NEW c \in Calls, Enter(c) \/ Spawn(c) \/ Register(c) PROVE Holders' = Holders
  BY <1>2, <1>6 DEF Enter, Spawn, Register
<1>7. ASSUME NEW c \in Calls, GroupKnown(c) \/ GroupUnknown(c) \/ Swap(c) \/ Listen(c)
      PROVE  Holders' = Holders
  BY <1>2, <1>7 DEF GroupKnown, GroupUnknown, Swap, Reregister, Listen
<1>8. ASSUME NEW c \in Calls, ChildExited(c) \/ PollClock(c) \/ Judge(c) PROVE Holders' = Holders
  BY <1>2, <1>8 DEF ChildExited, PollClock, Judge
<1>9. ASSUME NEW c \in Calls, KillStuck(c) \/ JoinReaders(c) \/ FinalKill(c) \/ Unregister(c)
      PROVE  Holders' = Holders
  BY <1>2, <1>9 DEF KillStuck, JoinReaders, FinalKill, Reap, Unregister
<1>10. ASSUME NEW c \in Calls, ChildPrints(c) \/ DrainFinishes(c) \/ ChildEnds(c)
       PROVE  Holders' = Holders
  BY <1>3, <1>10 DEF ChildPrints, DrainFinishes, ChildEnds
<1>11. CASE Tick \/ ReaperStep \/ UNCHANGED runnerVars
  BY <1>3, <1>11 DEF Tick, ReaperStep, TakeSnapshot, KillSnapshot, ProcessExits, runnerVars
<1> QED
  BY <1>4, <1>5, <1>6, <1>7, <1>8, <1>9, <1>10, <1>11 DEF RunnerNext, CallStep, Returned

(* The threads of the runner, with their waits, failed spawns, reaps and   *)
(* the reaper of the process, share the cap as its contract says.          *)
THEOREM RunnerImplementsCap ==
    RunnerSpec => PermitsHeld!Init /\ [][PermitsHeld!Next]_Holders
<1>1. RunnerInit => PermitsHeld!Init
  BY DEF RunnerInit, PermitsHeld!Init, HasSlot
<1> QED
  BY <1>1, SpecKeepsRunnerInv, RunnerMovesSlots, PTL DEF RunnerSpec

(* The registry covers a child from its registration, through the swap of  *)
(* its handles, until it has been reaped.                                  *)
THEOREM RegistryCoversLiveChildren == RunnerSpec => []LiveChildIsListed
<1>1. RunnerInv => LiveChildIsListed
  BY DEF RunnerInv, ChildInv, LiveChildIsListed
<1> QED
  BY <1>1, SpecKeepsRunnerInv, PTL

(* A chunk being noted when the poll read the clock saves its child from   *)
(* that poll: the time is written before the latch.                        *)
THEOREM ReaperYieldsToOutput == RunnerSpec => []OutputBeatsTheReaper
BY SpecKeepsRunnerInv, PTL DEF RunnerInv

(* No child is reaped after less quiet than its own bound or the floor.    *)
THEOREM ReapWaitsForTheFloor == RunnerSpec => []NoInstantReap
BY SpecKeepsRunnerInv, PTL DEF RunnerInv

-----------------------------------------------------------------------------
(* A detached job. The hard part is that a poll acts on what it read       *)
(* earlier: what makes it safe is that a record with a pid means the child *)
(* was spawned, and that a child seen dead stays dead.                     *)

(* Who has a record to work on.                                            *)
RecordInv ==
    /\ rec # None => parent # "record"
    /\ parent \in {"popen", "pid"} => rec # None
    /\ main # "none" => rec # None
    /\ \A p \in Pollers : poll[p].pc \in {"probe", "relabel"} =>
                             rec # None /\ poll[p].data # None

(* A pid in the record, or in a poller's hands, is that of a child that    *)
(* was spawned, and a relabel is attempted only for one that has ended.    *)
SpawnInv ==
    /\ parent = "pid" => main # "none"
    /\ parent \in {"record", "popen"} => main = "none"
    /\ rec # None /\ rec.pid # None => main # "none"
    /\ \A p \in Pollers : poll[p].pc \in {"probe", "relabel"} => main # "none"
    /\ \A p \in Pollers : poll[p].pc = "relabel" => exitCode # None

(* The exit code of a record: none before a result, and 0 only from a main *)
(* thread that returned 0.                                                 *)
ResultInv ==
    /\ rec # None =>
         /\ rec.status \in {"running", "unknown-terminated"} <=> rec.exit = None
         /\ rec.status = "done" <=> rec.exit = 0
         /\ rec.status = "unknown-terminated" => exitCode # None
         /\ rec.exit = 0 => main = "exit" /\ rc = 0
    /\ \A p \in Pollers :
         poll[p].result # None /\ poll[p].result.status \in {"done", "failed"}
                               /\ poll[p].result.exit = 0
            => main = "exit" /\ rc = 0

JobInv == JTypeOK /\ RecordInv /\ SpawnInv /\ ResultInv

USE NoneAssumption DEF Records, Terminal, Backstop, Killed, ReturnCodes

LEMMA InitEstablishesJobInv == JobInit => JobInv
<1> SUFFICES ASSUME JobInit PROVE JobInv
  OBVIOUS
<1>1. \A p \in Pollers : poll[p].pc = "read" /\ poll[p].result = None
  BY DEF JobInit, Poll
<1>2. JTypeOK
  BY DEF JobInit, JTypeOK, Poll
<1>3. RecordInv /\ SpawnInv /\ ResultInv
  BY <1>1 DEF JobInit, RecordInv, SpawnInv, ResultInv
<1> QED
  BY <1>2, <1>3 DEF JobInv

(* The final write of a record keeps its pid and sets the other two fields.*)
LEMMA FinishedIsResult ==
    ASSUME NEW r \in Records, NEW code \in {Backstop} \cup ReturnCodes
    PROVE  /\ FinishedRecord(r, code) \in Records
           /\ FinishedRecord(r, code).pid = r.pid
           /\ FinishedRecord(r, code).exit = code
           /\ FinishedRecord(r, code).status = IF code = 0 THEN "done" ELSE "failed"
BY DEF FinishedRecord

(* The steps of the parent, each against every part of the invariant.      *)
LEMMA ParentKeepsJobInv ==
    ASSUME JobInv, Parent \/ ParentKilled
    PROVE  JobInv'
<1> USE DEF JobInv
<1>1. CASE WriteRunningRecord
  BY <1>1 DEF WriteRunningRecord, jobChild, JTypeOK, RecordInv, SpawnInv, ResultInv
<1>2. CASE SpawnChild
  BY <1>2 DEF SpawnChild, JTypeOK, RecordInv, SpawnInv, ResultInv
<1>3. CASE WritePid
  BY <1>3 DEF WritePid, WithPid, jobChild, JTypeOK, RecordInv, SpawnInv, ResultInv
<1>4. CASE ParentKilled
  BY <1>4 DEF ParentKilled, jobChild, JTypeOK, RecordInv, SpawnInv, ResultInv
<1> QED
  BY <1>1, <1>2, <1>3, <1>4 DEF Parent

(* The steps of the child's two threads and of the outside.                *)
LEMMA ChildKeepsJobInv ==
    ASSUME JobInv,
           Child \/ MainReturns \/ BackstopFires \/ ChildKilled \/ GracePasses \/ PidIsReused
    PROVE  JobInv'
<1> USE DEF JobInv, ChildAlive
<1>a. main # "none" => rec \in Records
  BY DEF JTypeOK, RecordInv
<1>1. CASE MainFinalizes
  <2>1. rec' \in Records /\ rec'.pid = rec.pid
        /\ (rec' = rec \/ (rec'.exit = rc /\ rec'.status = IF rc = 0 THEN "done" ELSE "failed"))
    BY <1>1, <1>a, FinishedIsResult DEF MainFinalizes, JTypeOK
  <2> QED
    BY <1>1, <2>1 DEF MainFinalizes, JTypeOK, RecordInv, SpawnInv, ResultInv
<1>2. CASE MainExits
  BY <1>2 DEF MainExits, JTypeOK, RecordInv, SpawnInv, ResultInv
<1>3. CASE BackstopRecords
  <2>1. rec' \in Records /\ rec'.pid = rec.pid
        /\ (rec' = rec \/ (rec'.exit = Backstop /\ rec'.status = "failed"))
    BY <1>3, <1>a, FinishedIsResult DEF BackstopRecords
  <2> QED
    BY <1>3, <2>1 DEF BackstopRecords, JTypeOK, RecordInv, SpawnInv, ResultInv
<1>4. CASE BackstopExits
  BY <1>4 DEF BackstopExits, JTypeOK, RecordInv, SpawnInv, ResultInv
<1>5. CASE MainReturns
  BY <1>5 DEF MainReturns, JTypeOK, RecordInv, SpawnInv, ResultInv
<1>6. CASE BackstopFires
  BY <1>6 DEF BackstopFires, JTypeOK, RecordInv, SpawnInv, ResultInv
<1>7. CASE ChildKilled
  BY <1>7 DEF ChildKilled, JTypeOK, RecordInv, SpawnInv, ResultInv
<1>8. CASE GracePasses
  BY <1>8 DEF GracePasses, jobChild, JTypeOK, RecordInv, SpawnInv, ResultInv
<1>9. CASE PidIsReused
  BY <1>9 DEF PidIsReused, jobChild, JTypeOK, RecordInv, SpawnInv, ResultInv
<1> QED
  BY <1>1, <1>2, <1>3, <1>4, <1>5, <1>6, <1>7, <1>8, <1>9 DEF Child

(* A poller's step, which may write the record only to relabel it.         *)
LEMMA PollerKeepsJobInv ==
    ASSUME JobInv, NEW p \in Pollers, Polling(p) \/ PollGivesUp(p)
    PROVE  JobInv'
<1> USE DEF JobInv, Answer, PollStep, Poll, PollAgain
<1>1. CASE PollReads(p)
  <2>1. rec \in Records /\ [rec EXCEPT !.status = "unknown-terminated"] \in Records
    BY <1>1 DEF PollReads, JTypeOK
  <2>2. CASE Answer(p, rec) /\ rec.status # "running"
    BY <1>1, <2>1, <2>2 DEF PollReads, jobChild, JTypeOK, RecordInv, SpawnInv, ResultInv
  <2>3. CASE Answer(p, [rec EXCEPT !.status = "unknown-terminated"])
    BY <1>1, <2>1, <2>3 DEF PollReads, jobChild, JTypeOK, RecordInv, SpawnInv, ResultInv
  <2>4. CASE PollStep(p, Poll("probe", rec, None)) /\ rec.pid # None
    BY <1>1, <2>1, <2>4 DEF PollReads, jobChild, JTypeOK, RecordInv, SpawnInv, ResultInv
  <2> QED
    BY <1>1, <2>2, <2>3, <2>4 DEF PollReads
<1>2. CASE PollProbes(p)
  BY <1>2 DEF PollProbes, PidAlive, ChildAlive, jobChild, JTypeOK, RecordInv, SpawnInv, ResultInv
<1>3. CASE PollRelabels(p)
  BY <1>3 DEF PollRelabels, Relabelled, jobChild, JTypeOK, RecordInv, SpawnInv, ResultInv
<1>4. CASE PollCannotWrite(p)
  <2>1. poll[p].data \in Records
    BY <1>4 DEF PollCannotWrite, JTypeOK, RecordInv
  <2>2. [poll[p].data EXCEPT !.status = "unknown-terminated"] \in Records
    BY <2>1
  <2> QED
    BY <1>4, <2>2 DEF PollCannotWrite, jobChild, JTypeOK, RecordInv, SpawnInv, ResultInv
<1>5. CASE PollGivesUp(p)
  BY <1>5 DEF PollGivesUp, jobChild, JTypeOK, RecordInv, SpawnInv, ResultInv
<1> QED
  BY <1>1, <1>2, <1>3, <1>4, <1>5 DEF Polling

LEMMA NextKeepsJobInv == JobInv /\ [JobNext]_jobVars => JobInv'
<1> SUFFICES ASSUME JobInv, [JobNext]_jobVars PROVE JobInv'
  OBVIOUS
<1>1. CASE UNCHANGED jobVars
  BY <1>1 DEF jobVars, jobChild, JobInv, JTypeOK, RecordInv, SpawnInv, ResultInv
<1>2. CASE Settled
  BY <1>2, <1>1 DEF Settled
<1> QED
  BY <1>1, <1>2, ParentKeepsJobInv, ChildKeepsJobInv, PollerKeepsJobInv DEF JobNext

(* The inductive invariant holds in every reachable state.                 *)
LEMMA SpecKeepsJobInv == JobSpec => []JobInv
BY InitEstablishesJobInv, NextKeepsJobInv, PTL DEF JobSpec

(* Every variable keeps its type, for any set of pollers.                  *)
THEOREM JobTypeCorrect == JobSpec => []JTypeOK
BY SpecKeepsJobInv, PTL DEF JobInv

(* The record's status and exit code come from one writer: finalizer,      *)
(* backstop, parent and relabelling pollers never mix theirs.              *)
THEOREM RecordStaysConsistent == JobSpec => []RecordAgreesWithItself
<1>1. JobInv => RecordAgreesWithItself
  BY DEF JobInv, JTypeOK, ResultInv, RecordAgreesWithItself
<1> QED
  BY <1>1, SpecKeepsJobInv, PTL

(* A poller never persists the death of a child that is still running.     *)
THEOREM RelabelIsNeverPremature == JobSpec => []PersistedUnknownIsDead
<1>1. JobInv => PersistedUnknownIsDead
  BY DEF JobInv, ResultInv, PersistedUnknownIsDead, ChildAlive
<1> QED
  BY <1>1, SpecKeepsJobInv, PTL

(* `review wait` exits 0 only for a review whose main thread returned 0.   *)
THEOREM WaitZeroMeansSuccess == JobSpec => []ZeroMeansSuccess
<1>1. JobInv => ZeroMeansSuccess
  BY DEF JobInv, ResultInv, ZeroMeansSuccess, JobExitCode
<1> QED
  BY <1>1, SpecKeepsJobInv, PTL

(* A recorded result is never regressed to running or unknown-terminated.  *)
THEOREM RecordedResultsStick == JobSpec => ResultsStick
<1> DEFINE Sticks == rec # None /\ rec.status \in {"done", "failed"} =>
                        rec'.status \in {"done", "failed"}
<1>1. ASSUME JobInv, [JobNext]_jobVars PROVE Sticks
  <2>1. CASE Parent \/ ParentKilled
    BY <1>1, <2>1 DEF Parent, WriteRunningRecord, SpawnChild, WritePid, WithPid, ParentKilled,
                      JobInv, JTypeOK, RecordInv
  <2>2. CASE Child
    <3>1. rec # None => rec \in Records
      BY <1>1 DEF JobInv, JTypeOK
    <3> QED
      BY <1>1, <2>2, <3>1, FinishedIsResult
         DEF Child, MainFinalizes, MainExits, BackstopRecords, BackstopExits, JobInv, JTypeOK
  <2>3. CASE MainReturns \/ BackstopFires \/ ChildKilled \/ GracePasses \/ PidIsReused
    BY <2>3 DEF MainReturns, BackstopFires, ChildKilled, GracePasses, PidIsReused
  <2>4. CASE \E p \in Pollers : Polling(p) \/ PollGivesUp(p)
    BY <2>4 DEF Polling, PollReads, PollProbes, PollRelabels, Relabelled, PollCannotWrite,
                PollGivesUp
  <2>5. CASE UNCHANGED jobVars \/ Settled
    BY <2>5 DEF jobVars, Settled
  <2> QED
    BY <1>1, <2>1, <2>2, <2>3, <2>4, <2>5 DEF JobNext
<1> QED
  BY <1>1, SpecKeepsJobInv, PTL DEF JobSpec, ResultsStick
=============================================================================
