------------------------------ MODULE QaProofs ------------------------------
(* What is proved about `review qa`: about QaRun for all requests, any number *)
(* of signals and whatever the tester writes, and about the drivers it starts *)
(* (QaDrivers) for suites of any length and however late a bot, a chat or a   *)
(* runner answers.                                                            *)
EXTENDS QaRun, QaDrivers, FiniteSetTheorems, WellFoundedInduction, TLAPS

EnvExcused ==
    lost \cap {"kept", "downfailed", "up", "down", "deadman", "raced"} # {}
ChildExcused == lost \cap {"boot", "raced", "deadman"} # {}
TreeExcused == lost \cap {"add", "remove"} # {}

BringingUp == {"start", "stage", "up", "updown", "register"}

\* Who may be where in tear_down: `down` runs under the latch, so the handler that
\* finds the main thread in it goes past it.
ThreadInv ==
    /\ pc # "teardown" => td["main"] = "none"
    /\ exit = "none" /\ signal = "none" => td["signal"] = "none"
    /\ bstop # "sweep" => td["backstop"] = "none"
    /\ \A t \in Threads : td[t] \in {"down", "unregister"} => latch
    /\ td["signal"] \in {"set", "down"} => td["main"] # "down"
    /\ pc \in BringingUp => ~pending /\ ~latch /\ \A t \in Threads : td[t] = "none"

\* Whose the environment is: it is being brought up, or registered with nobody
\* tearing it down yet, or somebody is in `down`, or there is an excuse. A handler
\* or a sweep that is through has left nothing registered.
EnvInv ==
    /\ env # "down"
         => \/ EnvExcused
            \/ /\ exit = "none"
               /\ \/ pc \in {"up", "updown", "register"}
                  \/ pending /\ ~latch
                  \/ \E t \in Threads : td[t] = "down"
    /\ signal # "none" /\ td["signal"] = "none" => ~pending \/ latch
    /\ bstop = "sweep" /\ td["backstop"] = "none" => ~pending \/ latch \/ "raced" \in lost

\* A child that runs is about to be listed, or is listed and not yet reaped.
ChildInv ==
    child = "running"
      => \/ ChildExcused
         \/ /\ exit = "none"
            /\ \/ pc = "booted"
               \/ listed /\ pc \in {"drive", "reap"} /\ bstop # "sweep"

\* The places whose way out removes the worktree, and the trust entry.
TreeInv ==
    /\ wt = "partial" => TreeExcused \/ pc = "isolate"
    /\ wt = "present" => TreeExcused \/ pc \in {"boot", "launch", "booted", "drive", "reap",
                                                "revoke", "unisolate"}
    /\ trust => "trust" \in lost \/ pc \in {"launch", "booted", "drive", "reap", "revoke"}
    /\ exit \notin {"none", "terminated", "backstop"} => pc = "exit"

\* What a zero exit says of the transcript it was computed from.
EarnedBy(t, strict) ==
    /\ t.rc = 0 /\ t.claim \in {"PASS", "FAIL"}
    /\ strict => t.claim = "PASS" /\ t.run >= 1 /\ t.passed = t.run /\ t.findings = 0

VerdictInv ==
    /\ ret = "ok" => EarnedBy(out, c.strict)
    /\ exit = "ok" => ret = "ok"

\* What the next case needs is there on the way to it: a signal that took it away has
\* unwound the main thread, so only the sweep of the backstop leaves it running.
ReadyInv ==
    /\ lost \cap Needs # {} => bstop = "sweep"
    /\ Running /\ bstop # "sweep" =>
         /\ pc \in {"register", "gate", "seed"} => env = "up"
         /\ pc \in {"args", "isolate", "boot", "launch", "booted", "drive"} /\ Route(c) = "env"
              => mode \in {"reused", "noop"} \/ (mode = "owned" /\ env = "up")
         /\ pc \in {"boot", "launch", "booted", "drive"} =>
              c.inPlace \/ wt = "present" \/ LiveChat
         /\ pc = "booted" => child = "running"
         /\ pc = "drive" => child = "running" \/ ~Boots

QaInv == TypeOK /\ ThreadInv /\ EnvInv /\ ChildInv /\ TreeInv /\ VerdictInv /\ ReadyInv

-----------------------------------------------------------------------------
(* Types                                                                      *)

Places == {"start", "stage", "up", "updown", "register", "gate", "seed", "args",
           "isolate", "boot", "launch", "booted", "drive", "reap", "revoke",
           "unisolate", "teardown", "exit"}
Ways == {"none", "check", "set", "down", "unregister"}
Losses == {"kept", "up", "down", "downfailed", "add", "remove", "boot", "trust",
           "deadman", "raced"} \cup Needs
Rets == {"none", "usage", "no_suites", "no_env", "unhealthy", "blocked", "unproven",
         "findings", "ok", "interrupted"}
Exits == Rets \cup {"terminated", "backstop"}

LEMMA TalliedType ==
    ASSUME NEW by \in {"tester", "driver"}, NEW claim \in Verdicts,
           NEW p \in Count, NEW f \in Count, NEW b \in Count, p + f + b \in Count,
           NEW findings \in 0..1, NEW rc \in 0..1
    PROVE  Tallied(by, claim, p, f, b, findings, rc) \in Transcript
BY DEF Tallied, Transcript

\* Whatever a driver or a tester writes is a transcript.
LEMMA TranscriptTypes ==
    /\ {NoTranscript, BlockedTranscript, LaunchFailed} \subseteq Transcript
    /\ DriverTranscripts \subseteq Transcript
    /\ \A r \in Requests : Said(r) \subseteq Transcript
<1>1. 0 \in Count /\ 0 + 0 + 0 = 0
  BY BoundsAssumption DEF Count
<1>2. {NoTranscript, BlockedTranscript, LaunchFailed} \subseteq Transcript
  <2>1. NoTranscript \in Transcript
    BY <1>1 DEF NoTranscript, Transcript, Verdicts
  <2>2. BlockedTranscript \in Transcript
    BY <1>1, TalliedType DEF BlockedTranscript, Verdicts
  <2>3. LaunchFailed \in Transcript
    BY <1>1, TalliedType DEF LaunchFailed, Verdicts
  <2> QED BY <2>1, <2>2, <2>3
<1>3. ASSUME NEW t \in DriverTranscripts PROVE t \in Transcript
  <2>1. PICK p \in Count, f \in Count, b \in Count :
          t = CaseTranscript(p, f, b) /\ t.run <= MaxCases
    BY DEF DriverTranscripts
  <2>2. p + f + b \in Count
    BY <2>1, BoundsAssumption DEF CaseTranscript, Tallied, Count
  <2>3. SuiteVerdict(p, f, b) \in Verdicts
    BY DEF SuiteVerdict, Verdicts
  <2> QED BY <2>1, <2>2, <2>3, TalliedType DEF CaseTranscript
<1> QED BY <1>2, <1>3, SaidAssumption

LEMMA CodeType ==
    ASSUME NEW v, NEW findings, NEW strict
    PROVE  ExitCode(v, findings, strict) \in {"unproven", "blocked", "findings", "ok"}
BY DEF ExitCode

LEMMA MissingType == Missing \subseteq Needs
BY DEF Missing

LEMMA ParseType ==
    ASSUME TypeOK, NEW ts \in SUBSET Transcript, Parse(ts)
    PROVE  TypeOK'
<1> USE DEF Enter, At, Running, sigVars, envVars, childVars
<1>1. /\ UNCHANGED <<c, mode, env, pending, latch, wt, child, listed, trust, signal, sent, bstop, exit>>
      /\ pc' = "reap" /\ out' \in Transcript
      /\ td' = [td EXCEPT !["main"] = "none"]
  BY DEF Parse
<1>2. ret' \in Rets
  BY CodeType DEF Parse, Rets
<1>3. lost' \subseteq Losses
  BY MissingType DEF Parse, TypeOK, Losses
<1>4. td' \in [Threads -> Ways]
  BY <1>1 DEF TypeOK, Ways, Threads
<1> QED BY <1>1, <1>2, <1>3, <1>4 DEF TypeOK, Rets, Losses, Ways

LEMMA TypeInit == Init => TypeOK
<1> SUFFICES ASSUME Init PROVE TypeOK
  OBVIOUS
<1>1. td \in [Threads -> {"none", "check", "set", "down", "unregister"}]
  BY DEF Init
<1>2. out \in Transcript /\ sent \in 0..MaxSignals /\ lost = {}
  BY TranscriptTypes, BoundsAssumption DEF Init
<1>3. pending \in BOOLEAN /\ latch \in BOOLEAN /\ listed \in BOOLEAN /\ trust \in BOOLEAN
  BY DEF Init
<1> QED BY <1>1, <1>2, <1>3 DEF Init, TypeOK

LEMMA TypeStep == TypeOK /\ [Next]_vars => TypeOK'
<1> SUFFICES ASSUME TypeOK, [Next]_vars PROVE TypeOK'
  OBVIOUS
<1> USE DEF Enter, At, Running, sigVars, envVars, childVars, vars, Threads
<1>1. CASE Start
  BY <1>1 DEF TypeOK, Start
<1>2. ASSUME NEW ok \in BOOLEAN, ResolveStage(ok)
      PROVE  TypeOK'
  BY <1>2 DEF TypeOK, ResolveStage, BringUpLocal
<1>3. ASSUME NEW ok \in BOOLEAN, HookUp(ok)
      PROVE  TypeOK'
  BY <1>3 DEF TypeOK, HookUp, UpReturns
<1>4. ASSUME NEW ok \in BOOLEAN, ComposeUp(ok)
      PROVE  TypeOK'
  BY <1>4 DEF TypeOK, ComposeUp, UpReturns
<1>5. ASSUME NEW ok \in BOOLEAN, DownAfterFailedUp(ok)
      PROVE  TypeOK'
  BY <1>5 DEF TypeOK, DownAfterFailedUp
<1>6. CASE RegisterPending
  BY <1>6 DEF TypeOK, RegisterPending, LateFor
<1>7. ASSUME NEW ok \in BOOLEAN, Gate(ok)
      PROVE  TypeOK'
  <2>1. pending' \in BOOLEAN /\ latch' \in BOOLEAN /\ listed' \in BOOLEAN /\ trust' \in BOOLEAN
    BY <1>7, Zenon DEF TypeOK, Gate, GiveUpOnEnv
  <2>2. pc' \in Places /\ td' \in [Threads -> Ways]
    BY <1>7 DEF TypeOK, Gate, GiveUpOnEnv, Places, Ways
  <2>3. lost' \subseteq Losses /\ exit' \in Exits /\ ret' \in Rets
    BY <1>7 DEF TypeOK, Gate, GiveUpOnEnv, Losses, Exits, Rets
  <2>4. /\ mode' \in {"none", "reused", "noop", "owned"}
        /\ UNCHANGED <<c, env, wt, child, signal, sent, bstop, out>>
    BY <1>7 DEF TypeOK, Gate, GiveUpOnEnv
  <2> QED
    BY <2>1, <2>2, <2>3, <2>4 DEF TypeOK, Places, Ways, Losses, Exits, Rets
<1>8. ASSUME NEW ok \in BOOLEAN, Seed(ok)
      PROVE  TypeOK'
  <2>1. pending' \in BOOLEAN /\ latch' \in BOOLEAN /\ listed' \in BOOLEAN /\ trust' \in BOOLEAN
    BY <1>8, Zenon DEF TypeOK, Seed, GiveUpOnEnv
  <2>2. pc' \in Places /\ td' \in [Threads -> Ways]
    BY <1>8 DEF TypeOK, Seed, GiveUpOnEnv, Places, Ways
  <2>3. lost' \subseteq Losses /\ exit' \in Exits /\ ret' \in Rets
    BY <1>8 DEF TypeOK, Seed, GiveUpOnEnv, Losses, Exits, Rets
  <2>4. /\ mode' \in {"none", "reused", "noop", "owned"}
        /\ UNCHANGED <<c, env, wt, child, signal, sent, bstop, out>>
    BY <1>8 DEF TypeOK, Seed, GiveUpOnEnv
  <2> QED
    BY <2>1, <2>2, <2>3, <2>4 DEF TypeOK, Places, Ways, Losses, Exits, Rets
<1>9. CASE BotArguments
  BY <1>9, TranscriptTypes DEF TypeOK, BotArguments, Refuse, Block, Proceed,
      ArgumentsSeen, TeardownOrExit
<1>10. CASE WebArguments
  BY <1>10, TranscriptTypes DEF TypeOK, WebArguments, Refuse, Block, Proceed,
      ArgumentsSeen, TeardownOrExit
<1>11. CASE ExtArguments
  BY <1>11, TranscriptTypes DEF TypeOK, ExtArguments, Refuse, Block, Proceed,
      ArgumentsSeen, TeardownOrExit
<1>12. CASE TesterArguments
  BY <1>12, TranscriptTypes DEF TypeOK, TesterArguments, Refuse, Proceed,
      ArgumentsSeen, TeardownOrExit
<1>13. ASSUME NEW ok \in BOOLEAN, Isolate(ok)
      PROVE  TypeOK'
  BY <1>13, TranscriptTypes DEF TypeOK, Isolate, Refuse, TeardownOrExit
<1>14. ASSUME NEW ok \in BOOLEAN, BootBot(ok)
      PROVE  TypeOK'
  BY <1>14, TranscriptTypes DEF TypeOK, BootBot, Popen, Block, Refuse, UnisolateOr,
      TeardownOrExit
<1>15. ASSUME NEW ok \in BOOLEAN, LaunchRunner(ok)
      PROVE  TypeOK'
  BY <1>15, TranscriptTypes DEF TypeOK, LaunchRunner, Popen, Block, Refuse,
      UnisolateOr, TeardownOrExit
<1>16. ASSUME NEW ok \in BOOLEAN, BootServer(ok)
      PROVE  TypeOK'
  BY <1>16, TranscriptTypes DEF TypeOK, BootServer, Popen, Block, Refuse,
      UnisolateOr, TeardownOrExit
<1>17. CASE NoServer
  BY <1>17, TranscriptTypes DEF TypeOK, NoServer
<1>18. CASE TrustWorkspace
  <2>1. pending' \in BOOLEAN /\ latch' \in BOOLEAN /\ listed' \in BOOLEAN /\ trust' \in BOOLEAN
    BY <1>18, Zenon DEF TypeOK, TrustWorkspace
  <2>2. pc' \in Places /\ td' \in [Threads -> Ways]
    BY <1>18 DEF TypeOK, TrustWorkspace, Places, Ways
  <2> QED
    BY <1>18, <2>1, <2>2 DEF TypeOK, TrustWorkspace, Places, Ways
<1>19. ASSUME NEW ok \in BOOLEAN, LaunchTester(ok)
      PROVE  TypeOK'
  BY <1>19, TranscriptTypes DEF TypeOK, LaunchTester, AfterTester, UnisolateOr,
      TeardownOrExit
<1>20. CASE RegisterChild
  BY <1>20, TranscriptTypes DEF TypeOK, RegisterChild, LateFor
<1>21. CASE DriveBot
  BY <1>21, TranscriptTypes, ParseType DEF DriveBot
<1>22. CASE DriveLiveBot
  BY <1>22, TranscriptTypes, ParseType DEF DriveLiveBot
<1>23. CASE DriveWeb
  BY <1>23, TranscriptTypes, ParseType DEF DriveWeb
<1>24. CASE DriveExt
  BY <1>24, TranscriptTypes, ParseType DEF DriveExt
<1>25. CASE RunTester
  BY <1>25, TranscriptTypes, ParseType DEF RunTester, TypeOK
<1>26. CASE Reap
  <2>1. pending' \in BOOLEAN /\ latch' \in BOOLEAN /\ listed' \in BOOLEAN /\ trust' \in BOOLEAN
    BY <1>26, Zenon DEF TypeOK, Reap, AfterTester, UnisolateOr, TeardownOrExit
  <2>2. pc' \in Places /\ td' \in [Threads -> Ways]
    BY <1>26 DEF TypeOK, Reap, AfterTester, UnisolateOr, TeardownOrExit, Places,
        Ways
  <2> QED
    BY <1>26, <2>1, <2>2 DEF TypeOK, Reap, AfterTester, UnisolateOr, TeardownOrExit,
        Places, Ways
<1>27. CASE RevokeTrust
  <2>1. pending' \in BOOLEAN /\ latch' \in BOOLEAN /\ listed' \in BOOLEAN /\ trust' \in BOOLEAN
    BY <1>27, Zenon DEF TypeOK, RevokeTrust, UnisolateOr, TeardownOrExit
  <2>2. pc' \in Places /\ td' \in [Threads -> Ways]
    BY <1>27 DEF TypeOK, RevokeTrust, UnisolateOr, TeardownOrExit, Places, Ways
  <2> QED
    BY <1>27, <2>1, <2>2 DEF TypeOK, RevokeTrust, UnisolateOr, TeardownOrExit,
        Places, Ways
<1>28. CASE Unisolate
  BY <1>28 DEF TypeOK, Unisolate, TeardownOrExit
<1>29. CASE Exit
  <2>1. pending' \in BOOLEAN /\ latch' \in BOOLEAN /\ listed' \in BOOLEAN /\ trust' \in BOOLEAN
    BY <1>29, Zenon DEF TypeOK, Exit, OrphanedSweep
  <2>2. pc' \in Places /\ td' \in [Threads -> Ways]
    BY <1>29 DEF TypeOK, Exit, OrphanedSweep, Places, Ways
  <2>3. lost' \subseteq Losses /\ exit' \in Exits /\ ret' \in Rets
    BY <1>29 DEF TypeOK, Exit, OrphanedSweep, Losses, Exits, Rets
  <2>4. /\ mode' \in {"none", "reused", "noop", "owned"}
        /\ UNCHANGED <<c, env, wt, child, signal, sent, bstop, out>>
    BY <1>29 DEF TypeOK, Exit, OrphanedSweep
  <2> QED
    BY <2>1, <2>2, <2>3, <2>4 DEF TypeOK, Places, Ways, Losses, Exits, Rets
<1>30. ASSUME NEW t \in Threads, TearDownCheck(t)
      PROVE  TypeOK'
  BY <1>30 DEF TypeOK, TearDownCheck, MayRun, TornDown
<1>31. ASSUME NEW t \in Threads, TearDownSet(t)
      PROVE  TypeOK'
  BY <1>31 DEF TypeOK, TearDownSet, MayRun
<1>32. ASSUME NEW t \in Threads, TearDownUnregister(t)
      PROVE  TypeOK'
  <2>1. pending' \in BOOLEAN /\ latch' \in BOOLEAN /\ listed' \in BOOLEAN /\ trust' \in BOOLEAN
    BY <1>32, Zenon DEF TypeOK, TearDownUnregister, MayRun, TornDown
  <2>2. pc' \in Places /\ td' \in [Threads -> Ways]
    BY <1>32 DEF TypeOK, TearDownUnregister, MayRun, TornDown, Places, Ways
  <2> QED
    BY <1>32, <2>1, <2>2 DEF TypeOK, TearDownUnregister, MayRun, TornDown, Places,
        Ways
<1>33. ASSUME NEW t \in Threads, NEW ok \in BOOLEAN, TearDownRun(t, ok)
      PROVE  TypeOK'
  BY <1>33 DEF TypeOK, TearDownRun, MayRun
<1>34. CASE HandlerEnds
  <2>1. pending' \in BOOLEAN /\ latch' \in BOOLEAN /\ listed' \in BOOLEAN /\ trust' \in BOOLEAN
    BY <1>34, Zenon DEF TypeOK, HandlerEnds, Chain, Unwound, CutShort,
        OrphanedSweep, AfterTester, UnisolateOr, TeardownOrExit
  <2>2. pc' \in Places /\ td' \in [Threads -> Ways]
    BY <1>34 DEF TypeOK, HandlerEnds, Chain, Unwound, CutShort, OrphanedSweep,
        AfterTester, UnisolateOr, TeardownOrExit, Places, Ways
  <2> QED
    BY <1>34, <2>1, <2>2 DEF TypeOK, HandlerEnds, Chain, Unwound, CutShort,
        OrphanedSweep, AfterTester, UnisolateOr, TeardownOrExit, Places, Ways
<1>35. ASSUME NEW s \in {"SIGINT", "SIGTERM"}, SignalArrives(s)
      PROVE  TypeOK'
  BY <1>35, BoundsAssumption DEF TypeOK, SignalArrives
<1>36. ASSUME NEW s \in {"SIGINT", "SIGTERM"}, SecondSignal(s)
      PROVE  TypeOK'
  <2>1. pending' \in BOOLEAN /\ latch' \in BOOLEAN /\ listed' \in BOOLEAN /\ trust' \in BOOLEAN
    BY <1>36, Zenon DEF TypeOK, SecondSignal, Chain, Unwound, CutShort,
        OrphanedSweep, AfterTester, UnisolateOr, TeardownOrExit
  <2>2. pc' \in Places /\ td' \in [Threads -> Ways]
    BY <1>36 DEF TypeOK, SecondSignal, Chain, Unwound, CutShort, OrphanedSweep,
        AfterTester, UnisolateOr, TeardownOrExit, Places, Ways
  <2> QED
    BY <1>36, <2>1, <2>2, BoundsAssumption DEF TypeOK, SecondSignal, Chain, Unwound,
        CutShort, OrphanedSweep, AfterTester, UnisolateOr, TeardownOrExit, Places,
        Ways
<1>37. CASE BackstopFires
  BY <1>37 DEF TypeOK, BackstopFires
<1>38. CASE BackstopKills
  BY <1>38 DEF TypeOK, BackstopKills
<1>39. CASE BackstopExits
  BY <1>39 DEF TypeOK, BackstopExits, Dies, CutShort
<1>40. CASE DeadMan
  BY <1>40 DEF TypeOK, DeadMan, Dies, CutShort
<1>41. CASE UNCHANGED vars
  BY <1>41 DEF TypeOK
<1> QED
  BY <1>1, <1>2, <1>3, <1>4, <1>5, <1>6, <1>7, <1>8, <1>9, <1>10, <1>11, <1>12,
      <1>13, <1>14, <1>15, <1>16, <1>17, <1>18, <1>19, <1>20, <1>21, <1>22, <1>23,
      <1>24, <1>25, <1>26, <1>27, <1>28, <1>29, <1>30, <1>31, <1>32, <1>33, <1>34,
      <1>35, <1>36, <1>37, <1>38, <1>39, <1>40, <1>41 DEF Next, MainStep,
      TearDownStep

\* Every variable keeps its type: the main thread is at one of its places, every
\* thread at one of the steps of tear_down, and what was read is a transcript.
THEOREM QaTypeCorrect == Spec => []TypeOK
<1>1. Init => TypeOK
  BY TypeInit
<1>2. TypeOK /\ [Next]_vars => TypeOK'
  BY TypeStep
<1> QED BY <1>1, <1>2, PTL DEF Spec

-----------------------------------------------------------------------------
(* Verdicts                                                                   *)

\* What the drivers render reads back as what they counted.
LEMMA DriverEarns ==
    ASSUME NEW t \in DriverTranscripts \cup {BlockedTranscript}, NEW strict,
           ExitCode(OutcomeVerdict(t), t.findings, strict) = "ok"
    PROVE  EarnedBy(t, strict)
<1>1. t # BlockedTranscript
  BY DEF BlockedTranscript, Tallied, OutcomeVerdict, ExitCode
<1>2. PICK p \in Count, f \in Count, b \in Count : t = CaseTranscript(p, f, b)
  BY <1>1 DEF DriverTranscripts
<1>3. /\ t.by = "driver" /\ t.claim = SuiteVerdict(p, f, b) /\ t.rc = 0
      /\ t.run = p + f + b /\ t.passed = p /\ t.failed = f /\ t.blocked = b
      /\ t.findings = IF f > 0 THEN 1 ELSE 0
  BY <1>2 DEF CaseTranscript, Tallied
<1>4. p \in Nat /\ f \in Nat /\ b \in Nat
  BY BoundsAssumption DEF Count
<1> QED BY <1>3, <1>4 DEF EarnedBy, OutcomeVerdict, ExitCode, SuiteVerdict

\* What a tester claims is believed only with the tally and the exit status behind it.
LEMMA TesterEarns ==
    ASSUME NEW t \in Transcript, t.by = "tester", NEW strict,
           ExitCode(OutcomeVerdict(t), t.findings, strict) = "ok"
    PROVE  EarnedBy(t, strict)
<1>1. /\ t.run \in Nat /\ t.passed \in Nat /\ t.failed \in Nat /\ t.blocked \in Nat
      /\ t.findings \in 0..1 /\ t.rc \in 0..1 /\ t.claim \in Verdicts /\ t.tally \in BOOLEAN
  BY BoundsAssumption DEF Transcript, Count
<1>2. OutcomeVerdict(t) \in {"PASS", "FAIL"}
  BY <1>1 DEF OutcomeVerdict, ExitCode, DowngradeOnFailure, Reconcile, HonorPass, Verdicts
<1> QED
  BY <1>1, <1>2 DEF EarnedBy, OutcomeVerdict, ExitCode, DowngradeOnFailure, Reconcile,
    HonorPass, Verdicts

-----------------------------------------------------------------------------
(* The inductive invariant                                                    *)

Kept == ThreadInv /\ EnvInv /\ ChildInv /\ TreeInv /\ VerdictInv

LEMMA KeptInit == Init => Kept /\ ReadyInv
BY DEF Init, Kept, ThreadInv, EnvInv, ChildInv, TreeInv, VerdictInv, ReadyInv, BringingUp, Threads

\* A step of the main thread, of the handler, of the backstop or of whoever tears
\* the environment down.
LEMMA KeptStep == TypeOK /\ Kept /\ [Next]_vars => Kept'
<1> SUFFICES ASSUME TypeOK, ThreadInv, EnvInv, ChildInv, TreeInv, VerdictInv, [Next]_vars
             PROVE  ThreadInv' /\ EnvInv' /\ ChildInv' /\ TreeInv' /\ VerdictInv'
  BY DEF Kept
<1> USE DEF Enter, At, Running, sigVars, envVars, childVars, vars, Threads,
    BringingUp, EnvExcused, ChildExcused, TreeExcused
<1>1. CASE Start
  BY <1>1 DEF TypeOK, Start, ThreadInv, EnvInv, ChildInv, TreeInv, VerdictInv,
      EarnedBy
<1>2. ASSUME NEW ok \in BOOLEAN, ResolveStage(ok)
      PROVE  ThreadInv' /\ EnvInv' /\ ChildInv' /\ TreeInv' /\ VerdictInv'
  BY <1>2 DEF TypeOK, ResolveStage, BringUpLocal, ThreadInv, EnvInv, ChildInv,
      TreeInv, VerdictInv, EarnedBy
<1>3. ASSUME NEW ok \in BOOLEAN, HookUp(ok)
      PROVE  ThreadInv' /\ EnvInv' /\ ChildInv' /\ TreeInv' /\ VerdictInv'
  BY <1>3 DEF TypeOK, HookUp, UpReturns, ThreadInv, EnvInv, ChildInv, TreeInv,
      VerdictInv, EarnedBy
<1>4. ASSUME NEW ok \in BOOLEAN, ComposeUp(ok)
      PROVE  ThreadInv' /\ EnvInv' /\ ChildInv' /\ TreeInv' /\ VerdictInv'
  BY <1>4 DEF TypeOK, ComposeUp, UpReturns, ThreadInv, EnvInv, ChildInv, TreeInv,
      VerdictInv, EarnedBy
<1>5. ASSUME NEW ok \in BOOLEAN, DownAfterFailedUp(ok)
      PROVE  ThreadInv' /\ EnvInv' /\ ChildInv' /\ TreeInv' /\ VerdictInv'
  BY <1>5 DEF TypeOK, DownAfterFailedUp, ThreadInv, EnvInv, ChildInv, TreeInv,
      VerdictInv, EarnedBy
<1>6. CASE RegisterPending
  <2>1. ThreadInv' /\ EnvInv'
    BY <1>6 DEF TypeOK, RegisterPending, LateFor, ThreadInv, EnvInv
  <2>2. ChildInv' /\ TreeInv'
    BY <1>6 DEF TypeOK, RegisterPending, LateFor, ThreadInv, ChildInv, TreeInv
  <2>3. VerdictInv'
    BY <1>6 DEF TypeOK, RegisterPending, LateFor, VerdictInv, EarnedBy
  <2> QED BY <2>1, <2>2, <2>3
<1>7. ASSUME NEW ok \in BOOLEAN, Gate(ok)
      PROVE  ThreadInv' /\ EnvInv' /\ ChildInv' /\ TreeInv' /\ VerdictInv'
  BY <1>7 DEF TypeOK, Gate, GiveUpOnEnv, ThreadInv, EnvInv, ChildInv, TreeInv,
      VerdictInv, EarnedBy
<1>8. ASSUME NEW ok \in BOOLEAN, Seed(ok)
      PROVE  ThreadInv' /\ EnvInv' /\ ChildInv' /\ TreeInv' /\ VerdictInv'
  BY <1>8 DEF TypeOK, Seed, GiveUpOnEnv, ThreadInv, EnvInv, ChildInv, TreeInv,
      VerdictInv, EarnedBy
<1>9. CASE BotArguments
  BY <1>9 DEF TypeOK, BotArguments, Refuse, Block, Proceed, ArgumentsSeen,
      TeardownOrExit, ThreadInv, EnvInv, ChildInv, TreeInv, VerdictInv, EarnedBy
<1>10. CASE WebArguments
  BY <1>10 DEF TypeOK, WebArguments, Refuse, Block, Proceed, ArgumentsSeen,
      TeardownOrExit, ThreadInv, EnvInv, ChildInv, TreeInv, VerdictInv, EarnedBy
<1>11. CASE ExtArguments
  BY <1>11 DEF TypeOK, ExtArguments, Refuse, Block, Proceed, ArgumentsSeen,
      TeardownOrExit, ThreadInv, EnvInv, ChildInv, TreeInv, VerdictInv, EarnedBy
<1>12. CASE TesterArguments
  BY <1>12 DEF TypeOK, TesterArguments, Refuse, Proceed, ArgumentsSeen,
      TeardownOrExit, ThreadInv, EnvInv, ChildInv, TreeInv, VerdictInv, EarnedBy
<1>13. ASSUME NEW ok \in BOOLEAN, Isolate(ok)
      PROVE  ThreadInv' /\ EnvInv' /\ ChildInv' /\ TreeInv' /\ VerdictInv'
  <2>1. ThreadInv' /\ EnvInv'
    BY <1>13 DEF TypeOK, Isolate, Refuse, TeardownOrExit, ThreadInv, EnvInv
  <2>2. ChildInv' /\ TreeInv'
    BY <1>13 DEF TypeOK, Isolate, Refuse, TeardownOrExit, ThreadInv, ChildInv,
        TreeInv
  <2>3. VerdictInv'
    BY <1>13 DEF TypeOK, Isolate, Refuse, TeardownOrExit, VerdictInv, EarnedBy
  <2> QED BY <2>1, <2>2, <2>3
<1>14. ASSUME NEW ok \in BOOLEAN, BootBot(ok)
      PROVE  ThreadInv' /\ EnvInv' /\ ChildInv' /\ TreeInv' /\ VerdictInv'
  BY <1>14 DEF TypeOK, BootBot, Popen, Block, Refuse, UnisolateOr, TeardownOrExit,
      ThreadInv, EnvInv, ChildInv, TreeInv, VerdictInv, EarnedBy
<1>15. ASSUME NEW ok \in BOOLEAN, LaunchRunner(ok)
      PROVE  ThreadInv' /\ EnvInv' /\ ChildInv' /\ TreeInv' /\ VerdictInv'
  BY <1>15 DEF TypeOK, LaunchRunner, Popen, Block, Refuse, UnisolateOr,
      TeardownOrExit, ThreadInv, EnvInv, ChildInv, TreeInv, VerdictInv, EarnedBy
<1>16. ASSUME NEW ok \in BOOLEAN, BootServer(ok)
      PROVE  ThreadInv' /\ EnvInv' /\ ChildInv' /\ TreeInv' /\ VerdictInv'
  BY <1>16 DEF TypeOK, BootServer, Popen, Block, Refuse, UnisolateOr,
      TeardownOrExit, ThreadInv, EnvInv, ChildInv, TreeInv, VerdictInv, EarnedBy
<1>17. CASE NoServer
  BY <1>17 DEF TypeOK, NoServer, ThreadInv, EnvInv, ChildInv, TreeInv, VerdictInv,
      EarnedBy
<1>18. CASE TrustWorkspace
  BY <1>18 DEF TypeOK, TrustWorkspace, ThreadInv, EnvInv, ChildInv, TreeInv,
      VerdictInv, EarnedBy
<1>19. ASSUME NEW ok \in BOOLEAN, LaunchTester(ok)
      PROVE  ThreadInv' /\ EnvInv' /\ ChildInv' /\ TreeInv' /\ VerdictInv'
  BY <1>19 DEF TypeOK, LaunchTester, AfterTester, UnisolateOr, TeardownOrExit,
      ThreadInv, EnvInv, ChildInv, TreeInv, VerdictInv, EarnedBy
<1>20. CASE RegisterChild
  <2>1. ThreadInv' /\ EnvInv'
    BY <1>20 DEF TypeOK, RegisterChild, LateFor, ThreadInv, EnvInv
  <2>2. ChildInv' /\ TreeInv'
    BY <1>20 DEF TypeOK, RegisterChild, LateFor, ThreadInv, ChildInv, TreeInv
  <2>3. VerdictInv'
    BY <1>20 DEF TypeOK, RegisterChild, LateFor, VerdictInv, EarnedBy
  <2> QED BY <2>1, <2>2, <2>3
<1>21. CASE DriveBot
  <2>1. ThreadInv' /\ EnvInv' /\ ChildInv' /\ TreeInv'
    BY <1>21 DEF TypeOK, DriveBot, Parse, ThreadInv, EnvInv, ChildInv, TreeInv
  <2>2. VerdictInv'
    BY <1>21, DriverEarns DEF TypeOK, DriveBot, Parse, VerdictInv
  <2> QED BY <2>1, <2>2
<1>22. CASE DriveLiveBot
  <2>1. ThreadInv' /\ EnvInv' /\ ChildInv' /\ TreeInv'
    BY <1>22 DEF TypeOK, DriveLiveBot, Parse, ThreadInv, EnvInv, ChildInv, TreeInv
  <2>2. VerdictInv'
    BY <1>22, DriverEarns DEF TypeOK, DriveLiveBot, Parse, VerdictInv
  <2> QED BY <2>1, <2>2
<1>23. CASE DriveWeb
  <2>1. ThreadInv' /\ EnvInv' /\ ChildInv' /\ TreeInv'
    BY <1>23 DEF TypeOK, DriveWeb, Parse, ThreadInv, EnvInv, ChildInv, TreeInv
  <2>2. VerdictInv'
    BY <1>23, DriverEarns DEF TypeOK, DriveWeb, Parse, VerdictInv
  <2> QED BY <2>1, <2>2
<1>24. CASE DriveExt
  <2>1. ThreadInv' /\ EnvInv' /\ ChildInv' /\ TreeInv'
    BY <1>24 DEF TypeOK, DriveExt, Parse, ThreadInv, EnvInv, ChildInv, TreeInv
  <2>2. VerdictInv'
    BY <1>24, DriverEarns DEF TypeOK, DriveExt, Parse, VerdictInv
  <2> QED BY <2>1, <2>2
<1>25. CASE RunTester
  <2>1. ThreadInv' /\ EnvInv' /\ ChildInv' /\ TreeInv'
    BY <1>25 DEF TypeOK, RunTester, Parse, ThreadInv, EnvInv, ChildInv, TreeInv
  <2>2. out' \in Transcript /\ out'.by = "tester"
    BY <1>25, SaidAssumption DEF TypeOK, RunTester, Parse
  <2>3. VerdictInv'
    BY <1>25, <2>2, TesterEarns DEF TypeOK, RunTester, Parse, VerdictInv
  <2> QED BY <2>1, <2>3
<1>26. CASE Reap
  <2>1. ThreadInv' /\ EnvInv'
    BY <1>26 DEF TypeOK, Reap, AfterTester, UnisolateOr, TeardownOrExit, ThreadInv,
        EnvInv
  <2>2. ChildInv' /\ TreeInv'
    BY <1>26 DEF TypeOK, Reap, AfterTester, UnisolateOr, TeardownOrExit, ThreadInv,
        ChildInv, TreeInv
  <2>3. VerdictInv'
    BY <1>26 DEF TypeOK, Reap, AfterTester, UnisolateOr, TeardownOrExit, VerdictInv,
        EarnedBy
  <2> QED BY <2>1, <2>2, <2>3
<1>27. CASE RevokeTrust
  BY <1>27 DEF TypeOK, RevokeTrust, UnisolateOr, TeardownOrExit, ThreadInv, EnvInv,
      ChildInv, TreeInv, VerdictInv, EarnedBy
<1>28. CASE Unisolate
  <2>1. ThreadInv' /\ EnvInv'
    BY <1>28 DEF TypeOK, Unisolate, TeardownOrExit, ThreadInv, EnvInv
  <2>2. ChildInv' /\ TreeInv'
    BY <1>28 DEF TypeOK, Unisolate, TeardownOrExit, ThreadInv, ChildInv, TreeInv
  <2>3. VerdictInv'
    BY <1>28 DEF TypeOK, Unisolate, TeardownOrExit, VerdictInv, EarnedBy
  <2> QED BY <2>1, <2>2, <2>3
<1>29. CASE Exit
  <2>1. ThreadInv' /\ EnvInv'
    BY <1>29 DEF TypeOK, Exit, OrphanedSweep, ThreadInv, EnvInv
  <2>2. ChildInv' /\ TreeInv'
    BY <1>29 DEF TypeOK, Exit, OrphanedSweep, ThreadInv, ChildInv, TreeInv
  <2>3. VerdictInv'
    BY <1>29 DEF TypeOK, Exit, OrphanedSweep, VerdictInv, EarnedBy
  <2> QED BY <2>1, <2>2, <2>3
<1>30. ASSUME NEW t \in Threads, TearDownCheck(t)
      PROVE  ThreadInv' /\ EnvInv' /\ ChildInv' /\ TreeInv' /\ VerdictInv'
  <2>1. ThreadInv' /\ EnvInv'
    BY <1>30 DEF TypeOK, TearDownCheck, MayRun, TornDown, ThreadInv, EnvInv
  <2>2. ChildInv' /\ TreeInv'
    BY <1>30 DEF TypeOK, TearDownCheck, MayRun, TornDown, ThreadInv, ChildInv,
        TreeInv
  <2>3. VerdictInv'
    BY <1>30 DEF TypeOK, TearDownCheck, MayRun, TornDown, VerdictInv, EarnedBy
  <2> QED BY <2>1, <2>2, <2>3
<1>31. ASSUME NEW t \in Threads, TearDownSet(t)
      PROVE  ThreadInv' /\ EnvInv' /\ ChildInv' /\ TreeInv' /\ VerdictInv'
  BY <1>31 DEF TypeOK, TearDownSet, MayRun, ThreadInv, EnvInv, ChildInv, TreeInv,
      VerdictInv, EarnedBy
<1>32. ASSUME NEW t \in Threads, TearDownUnregister(t)
      PROVE  ThreadInv' /\ EnvInv' /\ ChildInv' /\ TreeInv' /\ VerdictInv'
  <2>1. ThreadInv' /\ EnvInv'
    BY <1>32 DEF TypeOK, TearDownUnregister, MayRun, TornDown, ThreadInv, EnvInv
  <2>2. ChildInv' /\ TreeInv'
    BY <1>32 DEF TypeOK, TearDownUnregister, MayRun, TornDown, ThreadInv, ChildInv,
        TreeInv
  <2>3. VerdictInv'
    BY <1>32 DEF TypeOK, TearDownUnregister, MayRun, TornDown, VerdictInv, EarnedBy
  <2> QED BY <2>1, <2>2, <2>3
<1>33. ASSUME NEW t \in Threads, NEW ok \in BOOLEAN, TearDownRun(t, ok)
      PROVE  ThreadInv' /\ EnvInv' /\ ChildInv' /\ TreeInv' /\ VerdictInv'
  <2>1. ThreadInv' /\ EnvInv'
    BY <1>33 DEF TypeOK, TearDownRun, MayRun, ThreadInv, EnvInv
  <2>2. ChildInv' /\ TreeInv'
    BY <1>33 DEF TypeOK, TearDownRun, MayRun, ThreadInv, ChildInv, TreeInv
  <2>3. VerdictInv'
    BY <1>33 DEF TypeOK, TearDownRun, MayRun, VerdictInv, EarnedBy
  <2> QED BY <2>1, <2>2, <2>3
<1>34. CASE HandlerEnds
  <2>1. ThreadInv' /\ EnvInv'
    BY <1>34 DEF TypeOK, HandlerEnds, Chain, Unwound, CutShort, OrphanedSweep,
        AfterTester, UnisolateOr, TeardownOrExit, ThreadInv, EnvInv
  <2>2. ChildInv' /\ TreeInv'
    BY <1>34 DEF TypeOK, HandlerEnds, Chain, Unwound, CutShort, OrphanedSweep,
        AfterTester, UnisolateOr, TeardownOrExit, ThreadInv, ChildInv, TreeInv
  <2>3. VerdictInv'
    BY <1>34 DEF TypeOK, HandlerEnds, Chain, Unwound, CutShort, OrphanedSweep,
        AfterTester, UnisolateOr, TeardownOrExit, VerdictInv, EarnedBy
  <2> QED BY <2>1, <2>2, <2>3
<1>35. ASSUME NEW s \in {"SIGINT", "SIGTERM"}, SignalArrives(s)
      PROVE  ThreadInv' /\ EnvInv' /\ ChildInv' /\ TreeInv' /\ VerdictInv'
  BY <1>35 DEF TypeOK, SignalArrives, ThreadInv, EnvInv, ChildInv, TreeInv,
      VerdictInv, EarnedBy
<1>36. ASSUME NEW s \in {"SIGINT", "SIGTERM"}, SecondSignal(s)
      PROVE  ThreadInv' /\ EnvInv' /\ ChildInv' /\ TreeInv' /\ VerdictInv'
  <2>1. ThreadInv' /\ EnvInv'
    BY <1>36 DEF TypeOK, SecondSignal, Chain, Unwound, CutShort, OrphanedSweep,
        AfterTester, UnisolateOr, TeardownOrExit, ThreadInv, EnvInv
  <2>2. ChildInv' /\ TreeInv'
    BY <1>36 DEF TypeOK, SecondSignal, Chain, Unwound, CutShort, OrphanedSweep,
        AfterTester, UnisolateOr, TeardownOrExit, ThreadInv, ChildInv, TreeInv
  <2>3. VerdictInv'
    BY <1>36 DEF TypeOK, SecondSignal, Chain, Unwound, CutShort, OrphanedSweep,
        AfterTester, UnisolateOr, TeardownOrExit, VerdictInv, EarnedBy
  <2> QED BY <2>1, <2>2, <2>3
<1>37. CASE BackstopFires
  BY <1>37 DEF TypeOK, BackstopFires, ThreadInv, EnvInv, ChildInv, TreeInv,
      VerdictInv, EarnedBy
<1>38. CASE BackstopKills
  <2>1. ThreadInv' /\ EnvInv'
    BY <1>38 DEF TypeOK, BackstopKills, ThreadInv, EnvInv
  <2>2. ChildInv' /\ TreeInv'
    BY <1>38 DEF TypeOK, BackstopKills, ThreadInv, ChildInv, TreeInv
  <2>3. VerdictInv'
    BY <1>38 DEF TypeOK, BackstopKills, VerdictInv, EarnedBy
  <2> QED BY <2>1, <2>2, <2>3
<1>39. CASE BackstopExits
  <2>1. ThreadInv' /\ EnvInv'
    BY <1>39 DEF TypeOK, BackstopExits, Dies, CutShort, ThreadInv, EnvInv
  <2>2. ChildInv' /\ TreeInv'
    BY <1>39 DEF TypeOK, BackstopExits, Dies, CutShort, ThreadInv, ChildInv, TreeInv
  <2>3. VerdictInv'
    BY <1>39 DEF TypeOK, BackstopExits, Dies, CutShort, VerdictInv, EarnedBy
  <2> QED BY <2>1, <2>2, <2>3
<1>40. CASE DeadMan
  <2>1. ThreadInv' /\ EnvInv'
    BY <1>40 DEF TypeOK, DeadMan, Dies, CutShort, ThreadInv, EnvInv
  <2>2. ChildInv' /\ TreeInv'
    BY <1>40 DEF TypeOK, DeadMan, Dies, CutShort, ThreadInv, ChildInv, TreeInv
  <2>3. VerdictInv'
    BY <1>40 DEF TypeOK, DeadMan, Dies, CutShort, VerdictInv, EarnedBy
  <2> QED BY <2>1, <2>2, <2>3
<1>41. CASE UNCHANGED vars
  BY <1>41 DEF ThreadInv, EnvInv, ChildInv, TreeInv, VerdictInv, EarnedBy
<1> QED
  BY <1>1, <1>2, <1>3, <1>4, <1>5, <1>6, <1>7, <1>8, <1>9, <1>10, <1>11, <1>12,
      <1>13, <1>14, <1>15, <1>16, <1>17, <1>18, <1>19, <1>20, <1>21, <1>22, <1>23,
      <1>24, <1>25, <1>26, <1>27, <1>28, <1>29, <1>30, <1>31, <1>32, <1>33, <1>34,
      <1>35, <1>36, <1>37, <1>38, <1>39, <1>40, <1>41 DEF Next, MainStep,
      TearDownStep

\* A result that is read before the sweep misses nothing.
LEMMA NothingMisses ==
    ASSUME ReadyInv, At("drive"), bstop # "sweep" PROVE Missing = {}
<1> USE DEF At, Running
<1>1. Route(c) = "env" => mode \in {"reused", "noop"} \/ (mode = "owned" /\ env = "up")
  BY DEF ReadyInv
<1>2. c.inPlace \/ wt = "present" \/ LiveChat
  BY DEF ReadyInv
<1>3. child = "running" \/ ~Boots
  BY DEF ReadyInv
<1> QED BY <1>1, <1>2, <1>3 DEF Missing, Needs

LEMMA ReadyStep == TypeOK /\ ThreadInv /\ ReadyInv /\ [Next]_vars => ReadyInv'
<1> SUFFICES ASSUME TypeOK, ThreadInv, ReadyInv, [Next]_vars PROVE ReadyInv'
  OBVIOUS
<1> USE DEF Enter, At, Running, sigVars, envVars, childVars, vars, Threads, Needs
<1>1. CASE Start
  BY <1>1 DEF TypeOK, ThreadInv, ReadyInv, Start, LiveChat, Boots, Driving
<1>2. ASSUME NEW ok \in BOOLEAN, ResolveStage(ok) PROVE ReadyInv'
  BY <1>2 DEF TypeOK, ThreadInv, ReadyInv, ResolveStage, BringUpLocal, LiveChat, Boots,
      Driving
<1>3. ASSUME NEW ok \in BOOLEAN, HookUp(ok) PROVE ReadyInv'
  BY <1>3 DEF TypeOK, ThreadInv, ReadyInv, HookUp, UpReturns, LiveChat, Boots, Driving
<1>4. ASSUME NEW ok \in BOOLEAN, ComposeUp(ok) PROVE ReadyInv'
  BY <1>4 DEF TypeOK, ThreadInv, ReadyInv, ComposeUp, UpReturns, LiveChat, Boots,
      Driving
<1>5. ASSUME NEW ok \in BOOLEAN, DownAfterFailedUp(ok) PROVE ReadyInv'
  BY <1>5 DEF TypeOK, ThreadInv, ReadyInv, DownAfterFailedUp, LiveChat, Boots, Driving
<1>6. CASE RegisterPending
  BY <1>6 DEF TypeOK, ThreadInv, ReadyInv, RegisterPending, LateFor, LiveChat, Boots,
      Driving
<1>7. ASSUME NEW ok \in BOOLEAN, Gate(ok) PROVE ReadyInv'
  BY <1>7 DEF TypeOK, ThreadInv, ReadyInv, Gate, GiveUpOnEnv, LiveChat, Boots, Driving
<1>8. ASSUME NEW ok \in BOOLEAN, Seed(ok) PROVE ReadyInv'
  BY <1>8 DEF TypeOK, ThreadInv, ReadyInv, Seed, GiveUpOnEnv, LiveChat, Boots, Driving
<1>9. CASE BotArguments
  BY <1>9 DEF TypeOK, ThreadInv, ReadyInv, BotArguments, Refuse, Proceed, ArgumentsSeen,
      TeardownOrExit, Block, LiveChat, Boots, Driving
<1>10. CASE WebArguments
  BY <1>10 DEF TypeOK, ThreadInv, ReadyInv, WebArguments, Refuse, Proceed,
      ArgumentsSeen, TeardownOrExit, Block, LiveChat, Boots, Driving
<1>11. CASE ExtArguments
  BY <1>11 DEF TypeOK, ThreadInv, ReadyInv, ExtArguments, Refuse, Proceed,
      ArgumentsSeen, TeardownOrExit, Block, LiveChat, Boots, Driving
<1>12. CASE TesterArguments
  BY <1>12 DEF TypeOK, ThreadInv, ReadyInv, TesterArguments, Refuse, Proceed,
      ArgumentsSeen, TeardownOrExit, Testing, LiveChat, Boots, Driving
<1>13. ASSUME NEW ok \in BOOLEAN, Isolate(ok) PROVE ReadyInv'
  BY <1>13 DEF TypeOK, ThreadInv, ReadyInv, Isolate, Refuse, TeardownOrExit, LiveChat,
      Boots, Driving
<1>14. ASSUME NEW ok \in BOOLEAN, BootBot(ok) PROVE ReadyInv'
  BY <1>14 DEF TypeOK, ThreadInv, ReadyInv, BootBot, Popen, UnisolateOr, TeardownOrExit,
      LiveChat, Boots, Driving
<1>15. ASSUME NEW ok \in BOOLEAN, LaunchRunner(ok) PROVE ReadyInv'
  BY <1>15 DEF TypeOK, ThreadInv, ReadyInv, LaunchRunner, Popen, UnisolateOr,
      TeardownOrExit, LiveChat, Boots, Driving
<1>16. ASSUME NEW ok \in BOOLEAN, BootServer(ok) PROVE ReadyInv'
  BY <1>16 DEF TypeOK, ThreadInv, ReadyInv, BootServer, Popen, UnisolateOr,
      TeardownOrExit, LiveChat, Boots, Driving
<1>17. CASE NoServer
  BY <1>17 DEF TypeOK, ThreadInv, ReadyInv, NoServer, LiveChat, Boots, Driving
<1>18. CASE TrustWorkspace
  BY <1>18 DEF TypeOK, ThreadInv, ReadyInv, TrustWorkspace, LiveChat, Boots, Driving
<1>19. ASSUME NEW ok \in BOOLEAN, LaunchTester(ok) PROVE ReadyInv'
  BY <1>19 DEF TypeOK, ThreadInv, ReadyInv, LaunchTester, AfterTester, UnisolateOr,
      TeardownOrExit, LiveChat, Boots, Driving
<1>20. CASE RegisterChild
  BY <1>20 DEF TypeOK, ThreadInv, ReadyInv, RegisterChild, LateFor, LiveChat, Boots,
      Driving
<1>21. CASE DriveBot
  BY <1>21, NothingMisses DEF ReadyInv, DriveBot, Parse, LiveChat, Boots, Driving
<1>22. CASE DriveLiveBot
  BY <1>22, NothingMisses DEF ReadyInv, DriveLiveBot, Parse, LiveChat, Boots, Driving
<1>23. CASE DriveWeb
  BY <1>23, NothingMisses DEF ReadyInv, DriveWeb, Parse, LiveChat, Boots, Driving
<1>24. CASE DriveExt
  BY <1>24, NothingMisses DEF ReadyInv, DriveExt, Parse, LiveChat, Boots, Driving
<1>25. CASE RunTester
  BY <1>25, NothingMisses DEF ReadyInv, RunTester, Parse, LiveChat, Boots, Driving
<1>26. CASE Reap
  BY <1>26 DEF TypeOK, ThreadInv, ReadyInv, Reap, AfterTester, UnisolateOr,
      TeardownOrExit, LiveChat, Boots, Driving
<1>27. CASE RevokeTrust
  BY <1>27 DEF TypeOK, ThreadInv, ReadyInv, RevokeTrust, UnisolateOr, TeardownOrExit,
      LiveChat, Boots, Driving
<1>28. CASE Unisolate
  BY <1>28 DEF TypeOK, ThreadInv, ReadyInv, Unisolate, TeardownOrExit, LiveChat, Boots,
      Driving
<1>29. CASE Exit
  BY <1>29 DEF TypeOK, ThreadInv, ReadyInv, Exit, OrphanedSweep, LiveChat, Boots,
      Driving
<1>30. ASSUME NEW t \in Threads, TearDownCheck(t) PROVE ReadyInv'
  BY <1>30 DEF TypeOK, ThreadInv, ReadyInv, TearDownCheck, MayRun, TornDown, LiveChat,
      Boots, Driving
<1>31. ASSUME NEW t \in Threads, TearDownSet(t) PROVE ReadyInv'
  BY <1>31 DEF TypeOK, ThreadInv, ReadyInv, TearDownSet, MayRun, LiveChat, Boots,
      Driving
<1>32. ASSUME NEW t \in Threads, TearDownUnregister(t) PROVE ReadyInv'
  BY <1>32 DEF TypeOK, ThreadInv, ReadyInv, TearDownUnregister, MayRun, TornDown,
      LiveChat, Boots, Driving
<1>33. ASSUME NEW t \in Threads, NEW ok \in BOOLEAN, TearDownRun(t, ok) PROVE ReadyInv'
  BY <1>33 DEF TypeOK, ThreadInv, ReadyInv, TearDownRun, MayRun, LiveChat, Boots,
      Driving
<1>34. CASE HandlerEnds
  BY <1>34 DEF TypeOK, ThreadInv, ReadyInv, HandlerEnds, Chain, Unwound, CutShort,
      OrphanedSweep, AfterTester, UnisolateOr, TeardownOrExit, LiveChat, Boots, Driving
<1>35. ASSUME NEW s \in {"SIGINT", "SIGTERM"}, SignalArrives(s) PROVE ReadyInv'
  BY <1>35 DEF TypeOK, ThreadInv, ReadyInv, SignalArrives, LiveChat, Boots, Driving
<1>36. ASSUME NEW s \in {"SIGINT", "SIGTERM"}, SecondSignal(s) PROVE ReadyInv'
  BY <1>36 DEF TypeOK, ThreadInv, ReadyInv, SecondSignal, Chain, Unwound, CutShort,
      OrphanedSweep, AfterTester, UnisolateOr, TeardownOrExit, LiveChat, Boots, Driving
<1>37. CASE BackstopFires
  BY <1>37 DEF TypeOK, ThreadInv, ReadyInv, BackstopFires, LiveChat, Boots, Driving
<1>38. CASE BackstopKills
  BY <1>38 DEF TypeOK, ThreadInv, ReadyInv, BackstopKills, LiveChat, Boots, Driving
<1>39. CASE BackstopExits
  BY <1>39 DEF TypeOK, ThreadInv, ReadyInv, BackstopExits, Dies, CutShort, LiveChat,
      Boots, Driving
<1>40. CASE DeadMan
  BY <1>40 DEF TypeOK, ThreadInv, ReadyInv, DeadMan, Dies, CutShort, LiveChat, Boots,
      Driving
<1>41. CASE UNCHANGED vars
  BY <1>41 DEF ReadyInv, LiveChat, Boots, Driving
<1> QED
  BY <1>1, <1>2, <1>3, <1>4, <1>5, <1>6, <1>7, <1>8, <1>9, <1>10, <1>11, <1>12, <1>13,
      <1>14, <1>15, <1>16, <1>17, <1>18, <1>19, <1>20, <1>21, <1>22, <1>23, <1>24,
      <1>25, <1>26, <1>27, <1>28, <1>29, <1>30, <1>31, <1>32, <1>33, <1>34, <1>35,
      <1>36, <1>37, <1>38, <1>39, <1>40, <1>41 DEF Next, MainStep, TearDownStep

\* Who may be where in tear_down, and whose the environment, the child, the worktree
\* and the verdict are, in every state of every run.
THEOREM QaInvariant == Spec => []QaInv
<1>1. Init => TypeOK /\ Kept /\ ReadyInv
  BY TypeInit, KeptInit
<1>2. (TypeOK /\ Kept /\ ReadyInv) /\ [Next]_vars => (TypeOK /\ Kept /\ ReadyInv)'
  BY TypeStep, KeptStep, ReadyStep DEF Kept
<1>3. TypeOK /\ Kept /\ ReadyInv => QaInv
  BY DEF Kept, QaInv
<1> QED BY <1>1, <1>2, <1>3, PTL DEF Spec

-----------------------------------------------------------------------------
(* What it is for                                                             *)

\* Two threads are in `down` only when one of them is the backstop's.
LEMMA OneInDown == QaInv => OneThreadTearsDown
<1> SUFFICES ASSUME QaInv, bstop = "armed"
             PROVE  Cardinality({t \in Threads : td[t] = "down"}) <= 1
  BY DEF OneThreadTearsDown
<1> DEFINE Down == {t \in Threads : td[t] = "down"}
<1>1. td["backstop"] # "down" /\ ~(td["main"] = "down" /\ td["signal"] = "down")
  BY DEF QaInv, ThreadInv
<1>2. Down = {} \/ Down = {"main"} \/ Down = {"signal"}
  BY <1>1 DEF Threads
<1>3. Cardinality({}) = 0 /\ Cardinality({"main"}) = 1 /\ Cardinality({"signal"}) = 1
  BY FS_EmptySet, FS_Singleton
<1> QED BY <1>2, <1>3

\* However a run ends -- by return, interrupt, signal or backstop -- what it brought
\* up is gone, or one of the named excuses holds.
THEOREM NothingOutlivesTheRun == Spec => []NothingIsLeft
<1>1. QaInv => EnvIsTornDown
  BY DEF QaInv, EnvInv, EnvExcused, EnvIsTornDown
<1>2. QaInv => ServerIsReaped
  BY DEF QaInv, ChildInv, ChildExcused, ServerIsReaped
<1>3. QaInv => WorktreeIsRemoved
  BY DEF QaInv, TypeOK, TreeInv, TreeExcused, WorktreeIsRemoved
<1>4. QaInv => NothingIsLeft
  BY <1>1, <1>2, <1>3, OneInDown DEF NothingIsLeft
<1> QED BY <1>4, QaInvariant, PTL

\* A run that reports a result read it while everything the cases needed was there,
\* whatever signals came and however bring-up went, unless the backstop had begun to
\* sweep; and a zero exit is a verdict of one whose own exit was clean, of cases that
\* all passed under --strict.
THEOREM ResultsAreOfTheRun == Spec => []ResultIsOfTheRun
<1>1. QaInv => (lost \cap Needs # {} => bstop = "sweep")
  BY DEF QaInv, ReadyInv
<1>2. QaInv => ResultIsOfTheRun
  BY <1>1 DEF QaInv, VerdictInv, EarnedBy, ResultIsOfTheRun
<1> QED BY <1>2, QaInvariant, PTL

-----------------------------------------------------------------------------
(* The drivers, which DriveBot, DriveLiveBot, DriveWeb and DriveExt of QaRun *)
(* stand for: their inductive invariant, a part for each of their modules.   *)

Before == {"start", "probe", "probing"}
Swept == place \in {"disconnect", "done"}
AtCase == place \notin Before \cup {"close", "disconnect", "done"}

Judgement == [status: Status, read: SUBSET Evidence]

Own(these, case) == \A e \in these : IF Ext THEN e.of = e.during ELSE e.during = case

(* A driver that is at a case has judged the ones before it.               *)
SuiteInv ==
    /\ tier \in Tiers /\ suite \in Seq(Case) /\ k \in Nat
    /\ results \in Seq(Judgement)
    /\ place \in Before => k = 0 /\ results = <<>>
    /\ AtCase => k \in 1..Len(suite) /\ Len(results) = k - 1
    /\ \A r \in 1..Len(results) : Own(results[r].read, r)

(* What was captured since a case was injected came in its time.           *)
CapturedInv ==
    /\ outbound \in Seq(Evidence) /\ since \in Nat /\ since <= Len(outbound)
    /\ owed \subseteq [of: Nat, n: Nat]
    /\ InBot /\ place \in {"wait", "emit", "cards", "tap", "answer"} =>
         \A i \in (since + 1)..Len(outbound) : outbound[i].during = k
    /\ Agent /\ place = "tap" => Len(outbound) - since >= This.cards

(* Only the ask client of the case the driver is at runs, and no card is of *)
(* a later one.                                                             *)
AsksInv ==
    Agent =>
      /\ asks \in [1..Len(suite) -> {"none", "running", "answered", "reaped"}]
      /\ \A j \in 1..Len(suite) :
           asks[j] = "running" => j = k /\ place \in {"emit", "cards", "tap", "answer"}
      /\ \A o \in owed : o.of \in 1..k
      /\ \A i \in 1..Len(outbound) : outbound[i].of \in 1..k
TapsInv ==
    \A t \in tapped :
      /\ Agent /\ t.by \in 1..k /\ t.by <= Len(suite) /\ t.of \in 1..t.by
      /\ suite[t.by].cards > 0 => t.during = t.by

(* Updates are injected in the order of their ids, and the bot has handled *)
(* them up to one of them; it confirms no further than that.               *)
UpdatesInv ==
    /\ updates \subseteq Nat \ {0} /\ handled \subseteq updates /\ delivered \in Nat
    /\ InBot => \A u \in updates :
                   IF place \in {"start", "probe", "case", "emit", "cards", "tap"}
                   THEN u < UpdateId(k) ELSE u <= UpdateId(k)
    /\ \A u \in updates : (\E h \in handled : u <= h) => u \in handled
    /\ delivered <= 1 \/ \E h \in handled : delivered <= h + 1
    /\ \A u \in updates : u \in handled \/ u >= delivered

(* Above the mark there is only what came in this case; what was sent is   *)
(* known, or its send did not return.                                      *)
ChatInv ==
    /\ chat \in Seq([own: BOOLEAN, of: Nat, during: Nat, text: Texts, gone: BOOLEAN])
    /\ lastSeen \in Nat /\ due \subseteq [of: Nat, n: Nat] /\ read \subseteq Evidence
    /\ Live /\ place \in {"send", "expect", "tap", "expect-after-tap"} =>
         /\ \A i \in (lastSeen + 1)..Newest : chat[i].during = k
         /\ \A e \in read : e.during = k
    /\ Live /\ ~Swept =>
         ~deleted /\ \A i \in 1..Newest : chat[i].own => i \in sentIds \cup unsure
    /\ Live /\ Swept /\ deleted =>
         \A i \in 1..Newest : chat[i].own /\ ~chat[i].gone => i \in unsure

(* A reply the runner wrote is on its way to the reader until it is taken. *)
RepliesInv ==
    /\ request \in Nat /\ wire \in Seq(Nat) /\ pipe \in Seq(Nat) /\ queue \in Seq(Nat)
    /\ answers \subseteq Evidence /\ \A e \in answers : e.of = e.during
    /\ wrote \subseteq 1..request /\ \A i \in 1..Len(wire) : wire[i] \in 1..request
    /\ eof => pipe = <<>> /\ runner = "gone"
    /\ Ext /\ place = "write" =>
         request > 0 /\ request \notin wrote /\ \A i \in 1..Len(wire) : wire[i] # request
    /\ Ext /\ place = "reply" /\ request \in wrote =>
         \/ \E i \in 1..Len(pipe) : pipe[i] = request
         \/ \E i \in 1..Len(queue) : queue[i] = request

DriversInv == SuiteInv /\ CapturedInv /\ AsksInv /\ TapsInv /\ UpdatesInv /\ ChatInv /\ RepliesInv


-----------------------------------------------------------------------------
(* The suite: how each way out of a case keeps it.                          *)

Moved ==
    /\ tier' = tier /\ suite' = suite
    /\ \/ place' = "case" /\ k' = k + 1
       \/ place' = "close" /\ k' = k

LEMMA JudgedKeeps ==
    ASSUME SuiteInv, AtCase, NEW st \in Status, NEW these \in SUBSET Evidence, Own(these, k),
           Judged(st, these)
    PROVE  SuiteInv' /\ Moved
<1> DEFINE judgement == [status |-> st, read |-> these]
<1> DEFINE judged == Append(results, judgement)
<1>1. judgement \in Judgement
  BY DEF Judgement
<1>2. /\ judged \in Seq(Judgement) /\ Len(judged) = k
      /\ judged[k].read = these
      /\ \A i \in 1..(k - 1) : judged[i] = results[i]
  <2>1. results \in Seq(Judgement) /\ Len(results) = k - 1 /\ k \in Nat \ {0}
    BY DEF SuiteInv
  <2> HIDE DEF judgement
  <2>2. judged \in Seq(Judgement) /\ Len(judged) = k /\ judged[k] = judgement
        /\ \A i \in 1..(k - 1) : judged[i] = results[i]
    BY <1>1, <2>1
  <2> QED
    BY <2>2 DEF judgement
<1> HIDE DEF judged
<1>3. tier' = tier /\ results' = judged /\ Moved /\ (k' = k + 1 => k # Len(suite))
  BY DEF Judged, NextCase, Finish, Moved, judged, SuiteInv
<1>4. \A i \in 1..Len(judged) : Own(judged[i].read, i)
  <2> SUFFICES ASSUME NEW i \in 1..Len(judged) PROVE Own(judged[i].read, i)
    OBVIOUS
  <2>1. CASE i = k
    BY <1>2, <2>1
  <2>2. CASE i # k
    <3>1. i \in 1..(k - 1) /\ i \in 1..Len(results)
      BY <1>2, <2>2 DEF SuiteInv
    <3> QED
      BY <1>2, <3>1 DEF SuiteInv
  <2> QED
    BY <2>1, <2>2
<1>5. \A i \in 1..Len(results') : Own(results[i].read, i)'
  BY <1>3, <1>4 DEF Own, Ext
<1>6. place' = "case" => k' \in 1..Len(suite') /\ Len(results') = k' - 1
  BY <1>2, <1>3 DEF SuiteInv, Moved
<1> QED
  BY <1>2, <1>3, <1>5, <1>6 DEF SuiteInv, Moved, AtCase, Before

LEMMA BeginKeeps ==
    ASSUME SuiteInv, place \in Before, NextCase(<<>>)
    PROVE  SuiteInv' /\ Moved
<1>1. k = 0 /\ k # Len(suite) => 1 \in 1..Len(suite)
  BY DEF SuiteInv
<1>2. results' = <<>> /\ Moved /\ k = 0 /\ Len(<<>>) = 0 /\ <<>> \in Seq(Judgement)
      /\ (k' = k + 1 => k # Len(suite))
  BY DEF NextCase, Finish, Moved, SuiteInv
<1> QED
  BY <1>1, <1>2 DEF SuiteInv, Moved, AtCase, Before

LEMMA BlockedKeeps ==
    ASSUME SuiteInv, place \in Before, Blocked
    PROVE  SuiteInv' /\ Moved
BY DEF SuiteInv, Blocked, Moved, AtCase, Before, Own, Ext

LEMMA GotoKeeps ==
    ASSUME SuiteInv, NEW where, Goto(where),
           where \in Before => place \in Before,
           where \notin Before \cup {"close", "disconnect", "done"} => AtCase
    PROVE  SuiteInv' /\ tier' = tier /\ suite' = suite /\ k' = k /\ place' = where
BY DEF SuiteInv, Goto, AtCase, Before, Own, Ext

LEMMA SameSuite ==
    ASSUME SuiteInv, UNCHANGED suiteVars
    PROVE  SuiteInv'
BY DEF SuiteInv, suiteVars, AtCase, Before, Own, Ext

-----------------------------------------------------------------------------
(* What a driver does not touch.                                            *)

LEMMA BotIdle ==
    ASSUME CapturedInv, AsksInv, TapsInv, UpdatesInv, ~InBot, tier' = tier, suite' = suite, UNCHANGED botVars
    PROVE  CapturedInv' /\ AsksInv' /\ TapsInv' /\ UpdatesInv'
<1>1. CapturedInv'
  BY DEF CapturedInv, botVars, InBot, Agent
<1>2. UpdatesInv'
  BY DEF UpdatesInv, botVars, InBot
<1>3. AsksInv' /\ TapsInv'
  BY DEF AsksInv, TapsInv, botVars, InBot, Agent
<1> QED
  BY <1>1, <1>2, <1>3

LEMMA LiveIdle ==
    ASSUME ChatInv, ~Live, tier' = tier, UNCHANGED liveVars
    PROVE  ChatInv'
BY DEF ChatInv, liveVars, Live

LEMMA PageIdle ==
    ASSUME RepliesInv, ~Ext, tier' = tier, UNCHANGED pageVars
    PROVE  RepliesInv'
BY DEF RepliesInv, pageVars, Ext

-----------------------------------------------------------------------------
(* What the fake captured.                                                  *)

LEMMA OutboundIsOwn ==
    ASSUME CapturedInv, InBot, ~Ext, place \in {"wait", "emit", "cards", "tap", "answer"}
    PROVE  OutboundSince \in SUBSET Evidence /\ Own(OutboundSince, k)
<1>1. \A i \in (since + 1)..Len(outbound) : outbound[i] \in Evidence /\ outbound[i].during = k
  BY DEF CapturedInv
<1> QED
  BY <1>1 DEF OutboundSince, Own

(* A case that begins, or a step that captures nothing more.                *)
LEMMA CapturedKeeps ==
    ASSUME CapturedInv, suite' = suite, tier' = tier, outbound' = outbound, owed' = owed,
           \/ since' = Len(outbound)
           \/ since' = since /\ k' = k /\ place \in {"wait", "emit", "cards", "tap"}
           \/ since' = since /\ place' \notin {"wait", "emit", "cards", "tap", "answer"},
           Agent /\ place' = "tap" => Len(outbound) - since' >= suite'[k'].cards
    PROVE  CapturedInv'
<1>1. outbound \in Seq(Evidence) /\ since' \in Nat /\ since' <= Len(outbound)
  BY DEF CapturedInv
<1>2. InBot' /\ place' \in {"wait", "emit", "cards", "tap", "answer"} =>
         \A i \in (since' + 1)..Len(outbound) : outbound[i].during = k'
  <2>1. CASE since' = Len(outbound)
    BY <1>1, <2>1
  <2>2. CASE since' = since /\ k' = k /\ place \in {"wait", "emit", "cards", "tap"}
    <3>1. InBot => \A i \in (since + 1)..Len(outbound) : outbound[i].during = k
      BY <2>2 DEF CapturedInv
    <3>2. InBot' <=> InBot
      BY DEF InBot
    <3> QED
      BY <2>2, <3>1, <3>2
  <2>3. CASE place' \notin {"wait", "emit", "cards", "tap", "answer"}
    BY <2>3
  <2> QED
    BY <2>1, <2>2, <2>3
<1> QED
  BY <1>1, <1>2 DEF CapturedInv, Agent, This

LEMMA OwedAfter ==
    ASSUME NEW of \in Nat, NEW more \in Replies(of), owed \subseteq [of: Nat, n: Nat]
    PROVE  owed \cup more \subseteq [of: Nat, n: Nat]
<1>1. PICK m \in 0..MaxAnswers : more = {[of |-> of, n |-> i] : i \in 1..m}
  BY DEF Replies
<1>2. \A i \in 1..m : [of |-> of, n |-> i] \in [of: Nat, n: Nat]
  OBVIOUS
<1> QED
  BY <1>1, <1>2

-----------------------------------------------------------------------------
(* The updates of the fake.                                                 *)

LEMMA LeastOf ==
    ASSUME NEW T \in SUBSET Nat, T # {}
    PROVE  \E i \in T : \A j \in T : i <= j
<1>1. PICK i \in T : \A j \in T : ~ (<<j, i>> \in OpToRel(<, Nat))
  BY NatLessThanWellFounded, WFMin, Zenon
<1>2. \A j \in T : ~ (j < i)
  BY <1>1 DEF OpToRel
<1> QED
  BY <1>2

LEMMA GreatestOf ==
    ASSUME NEW T \in SUBSET Nat, T # {}, NEW bound \in Nat, \A u \in T : u <= bound
    PROVE  MaxId(T) \in T /\ \A u \in T : u <= MaxId(T)
<1> DEFINE Above == {m \in Nat : \A u \in T : u <= m}
<1>1. PICK m \in Above : \A j \in Above : m <= j
  <2>1. bound \in Above
    OBVIOUS
  <2> QED
    BY <2>1, LeastOf
<1>2. m \in T
  <2> SUFFICES ASSUME m \notin T PROVE FALSE
    OBVIOUS
  <2>1. \A u \in T : u < m
    BY <1>1
  <2>2. m # 0
    <3>1. PICK u \in T : TRUE
      OBVIOUS
    <3> QED
      BY <2>1, <3>1
  <2>3. m - 1 \in Above
    BY <2>1, <2>2, <1>1
  <2> QED
    BY <2>3, <1>1
<1>3. \E u \in T : \A x \in T : x <= u
  BY <1>1, <1>2
<1> QED
  BY <1>3 DEF MaxId

(* A request for updates confirms no further than the bot has handled.      *)
LEMMA ConfirmedIsHandled ==
    ASSUME UpdatesInv, InBot, k \in Nat, DrainUpdates(MaxId(handled) + 1)
    PROVE  /\ delivered' \in Nat
           /\ delivered' <= 1 \/ \E h \in handled : delivered' <= h + 1
           /\ \A u \in updates : u \in handled \/ u >= delivered'
<1>1. CASE handled = {}
  BY <1>1 DEF UpdatesInv, DrainUpdates, MaxId
<1>2. CASE handled # {}
  <2> DEFINE last == MaxId(handled)
  <2>1. last \in handled /\ \A h \in handled : h <= last
    <3>1. handled \in SUBSET Nat /\ UpdateId(k) \in Nat /\ \A h \in handled : h <= UpdateId(k)
      BY DEF UpdatesInv, UpdateId, ProbeId
    <3> QED
      BY <1>2, <3>1, GreatestOf
  <2> HIDE DEF last
  <2>2. last \in Nat /\ delivered \in Nat
        /\ delivered' = IF last + 1 > delivered THEN last + 1 ELSE delivered
    BY <2>1 DEF UpdatesInv, DrainUpdates, last
  <2>3. \A u \in updates : u \in handled \/ u >= last + 1
    BY <2>1 DEF UpdatesInv
  <2> QED
    BY <2>1, <2>2, <2>3 DEF UpdatesInv
<1> QED
  BY <1>1, <1>2

LEMMA PollKeepsUpdates ==
    ASSUME SuiteInv, UpdatesInv, NEW heard \in BOOLEAN, BotPolls(heard)
    PROVE  UpdatesInv'
<1>1. /\ delivered' \in Nat
      /\ delivered' <= 1 \/ \E h \in handled : delivered' <= h + 1
      /\ \A u \in updates : u \in handled \/ u >= delivered'
  BY ConfirmedIsHandled DEF BotPolls, SuiteInv
<1> DEFINE batch == {u \in updates : u >= delivered' /\ u \notin handled}
<1> DEFINE next == CHOOSE u \in batch : \A x \in batch : u <= x
<1>2. updates' = updates /\ tier' = tier /\ k' = k /\ place' = place
  BY DEF BotPolls, suiteVars
<1>3. CASE handled' = handled
  BY <1>1, <1>2, <1>3 DEF UpdatesInv, InBot, UpdateId, ProbeId
<1>4. CASE handled' # handled
  <2>1. handled' = handled \cup {next} /\ batch # {}
    BY <1>4 DEF BotPolls
  <2>2. next \in batch /\ \A u \in batch : next <= u
    <3>1. batch \in SUBSET Nat
      BY DEF UpdatesInv
    <3> HIDE DEF batch
    <3>2. \E u \in batch : \A x \in batch : u <= x
      BY <2>1, <3>1, LeastOf
    <3> QED
      BY <3>2
  <2> HIDE DEF next
  <2>3. \A u \in updates : u \in handled \/ u >= next
    BY <1>1, <2>2
  <2>4. next \in updates /\ updates \subseteq Nat /\ handled \subseteq updates
    BY <2>2 DEF UpdatesInv
  <2>5. \A u \in updates : (\E h \in handled' : u <= h) => u \in handled'
    <3> SUFFICES ASSUME NEW u \in updates, NEW h \in handled', u <= h, u \notin handled
                 PROVE  u = next
      BY <2>1
    <3>1. h = next
      BY <2>1 DEF UpdatesInv
    <3> QED
      BY <2>3, <2>4, <3>1
  <2> QED
    BY <1>1, <1>2, <2>1, <2>4, <2>5 DEF UpdatesInv, InBot, UpdateId, ProbeId
<1> QED
  BY <1>3, <1>4

(* An update of a new case comes after all others.                          *)
LEMMA InjectKeepsUpdates ==
    ASSUME UpdatesInv, k \in Nat, InBot, place \in {"probe", "case", "emit", "cards", "tap"},
           place = "probe" => k = 0,
           updates' = updates \cup {UpdateId(k)}, UNCHANGED <<tier, k, handled, delivered>>,
           place' \notin {"start", "probe", "case", "emit", "cards", "tap"}
    PROVE  UpdatesInv'
<1>1. UpdateId(k) \in Nat \ {0} /\ (\A u \in updates : u < UpdateId(k)) /\ updates \subseteq Nat \ {0}
  BY DEF UpdatesInv, UpdateId, ProbeId
<1>2. UpdateId(k) >= delivered
  BY <1>1 DEF UpdatesInv
<1> HIDE DEF UpdateId
<1>3. \A u \in updates' : (\E h \in handled' : u <= h) => u \in handled'
  BY <1>1 DEF UpdatesInv
<1>4. \A u \in updates' : u \in Nat \ {0} /\ u <= UpdateId(k')
  <2>1. UpdateId(k') = UpdateId(k)
    OBVIOUS
  <2> QED
    BY <1>1, <2>1
<1>5. \A u \in updates' : u \in handled' \/ u >= delivered'
  BY <1>2 DEF UpdatesInv
<1> QED
  BY <1>3, <1>4, <1>5 DEF UpdatesInv, InBot, UpdateId, ProbeId

LEMMA UpdatesKeeps ==
    ASSUME UpdatesInv, UNCHANGED <<tier, updates, handled, delivered>>, k \in Nat,
           \/ k' = k + 1
           \/ /\ k' = k
              /\ \/ place' \notin {"start", "probe", "case", "emit", "cards", "tap"}
                 \/ place \in {"start", "probe", "case", "emit", "cards", "tap"}
    PROVE  UpdatesInv'
<1>1. \A u \in updates : u \in Nat
  BY DEF UpdatesInv
<1>2. InBot => \A u \in updates' :
                   IF place' \in {"start", "probe", "case", "emit", "cards", "tap"}
                   THEN u < UpdateId(k') ELSE u <= UpdateId(k')
  BY <1>1 DEF UpdatesInv, UpdateId, ProbeId
<1> QED
  BY <1>2 DEF UpdatesInv, InBot, UpdateId, ProbeId

-----------------------------------------------------------------------------
(* The steps of the bot tier.                                               *)

BotInv == SuiteInv /\ CapturedInv /\ UpdatesInv

(* Where a driver that judges its case, or begins the next, is then.        *)
LEMMA BotMoves ==
    ASSUME BotInv, InBot, SuiteInv', Moved, UNCHANGED <<updates, handled, delivered>>,
           outbound' = outbound, owed' = owed,
           since' = since \/ since' = Len(outbound)
    PROVE  BotInv'
<1>1. k \in Nat /\ place' \in {"case", "close"}
  BY DEF BotInv, SuiteInv, Moved
<1>2. CapturedInv'
  BY <1>1, CapturedKeeps DEF BotInv, Moved
<1>3. UpdatesInv'
  BY <1>1, UpdatesKeeps DEF BotInv, Moved
<1> QED
  BY <1>2, <1>3 DEF BotInv

LEMMA CardsAreCounted ==
    ASSUME SuiteInv, AtCase
    PROVE  k \in 1..Len(suite) /\ suite[k].cards \in Nat
<1>1. k \in 1..Len(suite) /\ suite \in Seq(Case)
  BY DEF SuiteInv
<1>2. suite[k] \in Case
  BY <1>1
<1>3. suite[k].cards \in 0..2
  BY <1>2 DEF Case
<1> QED
  BY <1>1, <1>3

LEMMA BotDriverStep ==
    ASSUME BotInv, BotDriver
    PROVE  BotInv' /\ InBot /\ tier' = tier
<1> USE DEF BotInv
<1>1. InBot /\ ~Ext
  BY DEF BotDriver, CrashCheck, Probe, ProbeEnds, ProseCase, InjectCase, JudgeCase, ObserveCards,
         CloseBot, EmitQuestion, PayloadWritten, DoTap, AwaitAnswer, InBot, Agent, Ext
<1>2. k \in Nat /\ (place = "probe" => k = 0)
  BY DEF SuiteInv, Before
<1>3. {} \in SUBSET Evidence /\ Own({}, k)
  BY DEF Own
<1>4. CASE CrashCheck
  <2>1. place \in Before /\ UNCHANGED botVars
    BY <1>4 DEF CrashCheck, Before
  <2>2. CASE Goto("probe")
    <3>1. SuiteInv' /\ tier' = tier /\ suite' = suite /\ k' = k /\ place' = "probe"
      BY <2>1, <2>2, GotoKeeps DEF Before
    <3>2. CapturedInv'
      BY <2>1, <3>1, CapturedKeeps DEF botVars
    <3>3. UpdatesInv'
      BY <1>2, <1>4, <2>1, <3>1, UpdatesKeeps DEF botVars, CrashCheck
    <3> QED
      BY <1>1, <3>1, <3>2, <3>3
  <2>3. CASE ~Goto("probe")
    <3>1. SuiteInv' /\ Moved
      BY <1>4, <2>1, <2>3, BeginKeeps, BlockedKeeps DEF CrashCheck
    <3> QED
      BY <1>1, <2>1, <3>1, BotMoves DEF botVars, Moved
  <2> QED
    BY <2>2, <2>3
<1>5. CASE Probe
  <2>1. Goto("probing") /\ place = "probe"
    BY <1>5 DEF Probe
  <2>2. SuiteInv' /\ tier' = tier /\ suite' = suite /\ k' = k /\ place' = "probing"
    BY <2>1, GotoKeeps DEF Before
  <2>3. CapturedInv'
    BY <1>5, <2>2, CapturedKeeps DEF Probe, botOutside
  <2>4. updates' = updates \cup {UpdateId(k)} /\ UNCHANGED <<tier, k, handled, delivered>>
    BY <1>2, <1>5, <2>1, <2>2 DEF Probe, Inject, botOutside, UpdateId, ProbeId
  <2>5. UpdatesInv'
    BY <1>1, <1>2, <2>1, <2>2, <2>4, InjectKeepsUpdates
  <2> QED
    BY <2>2, <2>3, <2>5, <1>1
<1>6. CASE ProbeEnds
  <2>1. SuiteInv' /\ Moved
    BY <1>6, BeginKeeps, BlockedKeeps DEF ProbeEnds, Before
  <2> QED
    BY <1>1, <1>6, <2>1, BotMoves DEF botVars, Moved, ProbeEnds
<1>7. CASE ProseCase
  <2>1. AtCase /\ Judged("BLOCKED", {}) /\ UNCHANGED botVars
    BY <1>7 DEF ProseCase, AtCase, Before
  <2>2. SuiteInv' /\ Moved
    BY <1>3, <2>1, JudgedKeeps DEF Status
  <2> QED
    BY <1>1, <2>1, <2>2, BotMoves DEF botVars, Moved
<1>8. CASE InjectCase
  <2>1. Goto("wait") /\ place = "case" /\ AtCase /\ ~Agent
    BY <1>8 DEF InjectCase, AtCase, Before, Agent
  <2>2. SuiteInv' /\ tier' = tier /\ suite' = suite /\ k' = k /\ place' = "wait"
    BY <2>1, GotoKeeps DEF Before
  <2>3. CapturedInv'
    BY <1>8, <2>1, <2>2, CapturedKeeps DEF InjectCase, botOutside
  <2>4. updates' = updates \cup {UpdateId(k)} /\ UNCHANGED <<tier, k, handled, delivered>>
    BY <1>8, <2>2 DEF InjectCase, Inject, botOutside
  <2>5. UpdatesInv'
    BY <1>1, <1>2, <2>1, <2>2, <2>4, InjectKeepsUpdates
  <2> QED
    BY <2>2, <2>3, <2>5, <1>1
<1>9. CASE JudgeCase
  <2> DEFINE st == Classify(This, TextsOf(OutboundSince))
  <2>1. place = "wait" /\ AtCase /\ Judged(st, OutboundSince) /\ UNCHANGED botVars
    BY <1>9 DEF JudgeCase, AtCase, Before
  <2>2. st \in Status
    BY DEF Classify, Status
  <2> HIDE DEF st
  <2>3. SuiteInv' /\ Moved
    BY <1>1, <2>1, <2>2, OutboundIsOwn, JudgedKeeps
  <2> QED
    BY <1>1, <2>1, <2>3, BotMoves DEF botVars, Moved
<1>10. CASE ObserveCards
  <2>1. place = "cards" /\ AtCase /\ UNCHANGED <<updates, delivered, handled, owed, outbound, since>>
    BY <1>10 DEF ObserveCards, AtCase, Before
  <2>2. CASE Len(outbound) - since # This.cards
    <3>1. SuiteInv' /\ Moved
      BY <1>1, <1>10, <2>1, <2>2, OutboundIsOwn, JudgedKeeps DEF ObserveCards, Status
    <3> QED
      BY <1>1, <2>1, <3>1, BotMoves DEF Moved
  <2>3. CASE Len(outbound) - since = This.cards
    <3>1. Goto("tap")
      BY <1>10, <2>3 DEF ObserveCards
    <3>2. SuiteInv' /\ tier' = tier /\ suite' = suite /\ k' = k /\ place' = "tap"
      BY <2>1, <3>1, GotoKeeps DEF Before
    <3>3. Len(outbound) - since' >= suite'[k'].cards
      <4>1. Len(outbound) - since \in Int
        BY DEF CapturedInv
      <4> QED
        BY <2>1, <2>3, <3>2, <4>1 DEF This
    <3>4. CapturedInv'
      BY <2>1, <3>2, <3>3, CapturedKeeps
    <3>5. UpdatesInv'
      BY <1>2, <2>1, <3>2, UpdatesKeeps
    <3> QED
      BY <1>1, <3>2, <3>4, <3>5
  <2> QED
    BY <2>2, <2>3
<1>11. CASE CloseBot
  <2>1. place = "close" /\ Goto("done") /\ owed' = {}
        /\ UNCHANGED <<updates, delivered, handled, outbound, since>>
    BY <1>11 DEF CloseBot
  <2>2. SuiteInv' /\ tier' = tier /\ suite' = suite /\ k' = k /\ place' = "done"
    BY <2>1, GotoKeeps DEF Before
  <2>3. CapturedInv'
    BY <2>1, <2>2 DEF CapturedInv
  <2>4. UpdatesInv'
    BY <1>2, <2>1, <2>2, UpdatesKeeps
  <2> QED
    BY <1>1, <2>2, <2>3, <2>4
<1>12. CASE \E ok \in BOOLEAN : EmitQuestion(ok)
  <2>1. PICK ok \in BOOLEAN : EmitQuestion(ok)
    BY <1>12
  <2>2. place = "case" /\ AtCase /\ since' = Len(outbound)
        /\ UNCHANGED <<updates, delivered, handled, owed, outbound>>
    BY <2>1 DEF EmitQuestion, AtCase, Before, botOutside
  <2>3. CASE ok
    <3>1. Goto("emit")
      BY <2>1, <2>3 DEF EmitQuestion
    <3>2. SuiteInv' /\ tier' = tier /\ suite' = suite /\ k' = k /\ place' = "emit"
      BY <2>2, <3>1, GotoKeeps DEF Before
    <3>3. CapturedInv'
      BY <2>2, <3>2, CapturedKeeps
    <3>4. UpdatesInv'
      BY <1>2, <2>2, <3>2, UpdatesKeeps
    <3> QED
      BY <1>1, <3>2, <3>3, <3>4
  <2>4. CASE ~ok
    <3>1. Judged("BLOCKED", {})
      BY <2>1, <2>4 DEF EmitQuestion
    <3>2. SuiteInv' /\ Moved
      BY <1>3, <2>2, <3>1, JudgedKeeps DEF Status
    <3> QED
      BY <1>1, <2>2, <3>2, BotMoves DEF Moved
  <2> QED
    BY <2>3, <2>4
<1>15. CASE PayloadWritten
  <2>1. place = "emit" /\ AtCase /\ Goto("cards")
        /\ UNCHANGED <<updates, delivered, handled, outbound, since>>
    BY <1>15 DEF PayloadWritten, AtCase, Before
  <2>2. SuiteInv' /\ tier' = tier /\ suite' = suite /\ k' = k /\ place' = "cards"
    BY <2>1, GotoKeeps DEF Before
  <2>3. owed' \subseteq [of: Nat, n: Nat]
    <3>1. PICK r \in Replies(k) : owed' = owed \cup r
      BY <1>15 DEF PayloadWritten
    <3> QED
      BY <1>2, <3>1, OwedAfter DEF CapturedInv
  <2>4. CapturedInv'
    BY <2>1, <2>2, <2>3 DEF CapturedInv, InBot
  <2>5. UpdatesInv'
    BY <1>2, <2>1, <2>2, UpdatesKeeps
  <2> QED
    BY <1>1, <2>2, <2>4, <2>5
<1>13. CASE \E ok \in BOOLEAN : DoTap(ok)
  <2>1. PICK ok \in BOOLEAN : DoTap(ok)
    BY <1>13
  <2>2. place = "tap" /\ AtCase /\ Agent /\ UNCHANGED <<delivered, handled, owed, outbound, since>>
    BY <2>1 DEF DoTap, AtCase, Before, botOutside
  <2>3. CASE Goto("answer")
    <3>1. SuiteInv' /\ tier' = tier /\ suite' = suite /\ k' = k /\ place' = "answer"
      BY <2>2, <2>3, GotoKeeps DEF Before
    <3>2. CapturedInv'
      BY <2>2, <3>1 DEF CapturedInv, InBot, Agent
    <3>3. CASE updates' = updates
      BY <1>1, <1>2, <2>2, <3>1, <3>2, <3>3, UpdatesKeeps
    <3>4. CASE updates' # updates
      <4>1. updates' = updates \cup {UpdateId(k)}
        BY <2>1, <3>4 DEF DoTap, Inject, TapId
      <4>2. UpdatesInv'
        BY <1>1, <1>2, <2>2, <3>1, <4>1, InjectKeepsUpdates
      <4> QED
        BY <1>1, <3>1, <3>2, <4>2
    <3> QED
      BY <3>3, <3>4
  <2>4. CASE ~Goto("answer")
    <3>1. PICK st \in {"PASS", "FAIL"} : Judged(st, OutboundSince)
      BY <2>1, <2>4 DEF DoTap
    <3>2. updates' = updates
      BY <2>1, <2>4 DEF DoTap
    <3>3. SuiteInv' /\ Moved
      BY <1>1, <2>2, <3>1, OutboundIsOwn, JudgedKeeps DEF Status
    <3> QED
      BY <1>1, <2>2, <3>2, <3>3, BotMoves DEF Moved
  <2> QED
    BY <2>3, <2>4
<1>14. CASE \E ok \in BOOLEAN : AwaitAnswer(ok)
  <2>1. PICK ok \in BOOLEAN : AwaitAnswer(ok)
    BY <1>14
  <2>2. place = "answer" /\ AtCase
        /\ UNCHANGED <<updates, delivered, handled, owed, outbound, since>>
    BY <2>1 DEF AwaitAnswer, AtCase, Before, botOutside
  <2>3. PICK st \in {"PASS", "FAIL"} : Judged(st, OutboundSince)
    BY <2>1 DEF AwaitAnswer
  <2>4. SuiteInv' /\ Moved
    BY <1>1, <2>2, <2>3, OutboundIsOwn, JudgedKeeps DEF Status
  <2> QED
    BY <1>1, <2>2, <2>4, BotMoves DEF Moved
<1> QED
  BY <1>4, <1>5, <1>6, <1>7, <1>8, <1>9, <1>10, <1>11, <1>12, <1>13, <1>14, <1>15
     DEF BotDriver

LEMMA BotOutsideStep ==
    ASSUME BotInv, BotOutside
    PROVE  BotInv' /\ InBot /\ tier' = tier
<1> USE DEF BotInv
<1>1. UNCHANGED suiteVars
  BY DEF BotOutside, BotSends, BotDies, BotPolls, AskAnswers
<1>2. SuiteInv'
  BY <1>1, SameSuite
<1>3. InBot /\ tier' = tier /\ suite' = suite /\ k' = k /\ place' = place /\ k \in Nat
  BY <1>1 DEF suiteVars, SuiteInv, BotOutside, BotSends, BotDies, BotPolls, AskAnswers, InBot, Agent
<1>4. CASE BotSends
  <2>1. UNCHANGED <<updates, delivered, handled, since>>
    BY <1>4 DEF BotSends
  <2>2. PICK o \in owed, t \in Texts :
          /\ owed' = owed \ {o}
          /\ outbound' = Append(outbound, [of |-> o.of, during |-> k, text |-> t])
    BY <1>4 DEF BotSends, Texts
  <2> DEFINE sentNow == [of |-> o.of, during |-> k, text |-> t]
  <2>3. sentNow \in Evidence /\ sentNow.during = k
    BY <1>3, <2>2 DEF Evidence, CapturedInv
  <2> HIDE DEF sentNow
  <2>4. outbound' = Append(outbound, sentNow)
    BY <2>2 DEF sentNow
  <2>5. /\ outbound' \in Seq(Evidence) /\ Len(outbound') = Len(outbound) + 1
        /\ outbound'[Len(outbound) + 1].during = k
        /\ \A i \in 1..Len(outbound) : outbound'[i] = outbound[i]
    BY <2>3, <2>4 DEF CapturedInv
  <2>6. InBot /\ place \in {"wait", "emit", "cards", "tap", "answer"} =>
         \A i \in (since + 1)..Len(outbound') : outbound'[i].during = k
    BY <2>5 DEF CapturedInv
  <2>7. Agent /\ place = "tap" => Len(outbound') - since >= This.cards
    <3>1. SUFFICES ASSUME Agent, place = "tap" PROVE Len(outbound') - since >= This.cards
      OBVIOUS
    <3>2. This.cards \in Nat
      BY <3>1, CardsAreCounted DEF AtCase, Before, This
    <3> QED
      BY <2>5, <3>1, <3>2 DEF CapturedInv
  <2>8. CapturedInv'
    BY <1>3, <2>1, <2>2, <2>5, <2>6, <2>7 DEF CapturedInv, InBot, Agent, This
  <2>9. UpdatesInv'
    BY <1>3, <2>1, UpdatesKeeps
  <2> QED
    BY <1>2, <1>3, <2>8, <2>9
<1>5. CASE BotDies \/ \E case \in 1..Len(suite) : AskAnswers(case)
  <2>1. UNCHANGED <<updates, delivered, handled, since, outbound>> /\ owed' \subseteq owed
    BY <1>5 DEF BotDies, AskAnswers
  <2>2. CapturedInv'
    BY <1>3, <2>1 DEF CapturedInv, InBot, Agent, This
  <2>3. UpdatesInv'
    BY <1>3, <2>1, UpdatesKeeps
  <2> QED
    BY <1>2, <1>3, <2>2, <2>3
<1>6. CASE \E heard \in BOOLEAN : BotPolls(heard)
  <2>1. PICK heard \in BOOLEAN : BotPolls(heard)
    BY <1>6
  <2>2. UNCHANGED <<since, outbound>>
    BY <2>1 DEF BotPolls
  <2>3. UpdatesInv'
    BY <2>1, PollKeepsUpdates
  <2>4. owed' \subseteq [of: Nat, n: Nat]
    <3>1. CASE owed' = owed
      BY <3>1 DEF CapturedInv
    <3>2. CASE owed' # owed
      <4> DEFINE batch == {u \in updates : u >= delivered' /\ u \notin handled}
      <4> DEFINE next == CHOOSE u \in batch : \A x \in batch : u <= x
      <4>1. batch # {} /\ \E r \in Replies(next - ProbeId) : owed' = owed \cup r
        BY <2>1, <3>2 DEF BotPolls
      <4>2. next \in batch
        <5>1. batch \in SUBSET Nat
          BY DEF UpdatesInv
        <5> HIDE DEF batch
        <5>2. \E u \in batch : \A x \in batch : u <= x
          BY <4>1, <5>1, LeastOf
        <5> QED
          BY <5>2
      <4> HIDE DEF next
      <4>3. next - ProbeId \in Nat
        BY <4>2 DEF UpdatesInv, ProbeId
      <4> QED
        BY <4>1, <4>3, OwedAfter DEF CapturedInv
    <3> QED
      BY <3>1, <3>2
  <2>5. CapturedInv'
    BY <1>3, <2>2, <2>4 DEF CapturedInv, InBot, Agent, This
  <2> QED
    BY <1>2, <1>3, <2>3, <2>5
<1> QED
  BY <1>4, <1>5, <1>6 DEF BotOutside

-----------------------------------------------------------------------------
(* The ask clients and the taps.                                            *)

Asking == {"emit", "cards", "tap", "answer"}
AskStates == {"none", "running", "answered", "reaped"}

LEMMA AsksKeep ==
    ASSUME AsksInv, TapsInv, k \in Nat, tier' = tier, suite' = suite,
           k' = k \/ k' = k + 1, owed' \subseteq owed, outbound' = outbound, tapped' = tapped,
           Agent => /\ asks' \in [1..Len(suite) -> AskStates]
                    /\ \A j \in 1..Len(suite) :
                         asks'[j] = "running" => j = k' /\ place' \in Asking
    PROVE  AsksInv' /\ TapsInv'
<1>1. 1..k \subseteq 1..k'
  OBVIOUS
<1>2. AsksInv'
  BY <1>1 DEF AsksInv, Agent, Asking, AskStates
<1>3. TapsInv'
  BY <1>1 DEF TapsInv, Agent
<1> QED
  BY <1>2, <1>3

(* Outside a case no client runs, and ReapAsk ends the one of a case.       *)
LEMMA NoneRuns ==
    ASSUME AsksInv, Agent, place \notin Asking
    PROVE  \A j \in 1..Len(suite) : asks[j] # "running"
BY DEF AsksInv, Asking

LEMMA ReapEnds ==
    ASSUME AsksInv, Agent
    PROVE  /\ ReapAsk(k) \in [1..Len(suite) -> AskStates]
           /\ \A j \in 1..Len(suite) : ReapAsk(k)[j] # "running"
BY DEF AsksInv, ReapAsk, AskStates

LEMMA AskStep ==
    ASSUME SuiteInv, CapturedInv, AsksInv, TapsInv, BotDriver
    PROVE  AsksInv' /\ TapsInv'
<1>1. k \in Nat
  BY DEF SuiteInv
<1>2. Agent => asks \in [1..Len(suite) -> AskStates]
  BY DEF AsksInv, AskStates
<1>3. CASE CrashCheck \/ Probe \/ ProbeEnds \/ ProseCase \/ InjectCase \/ JudgeCase
  <2>1. /\ tier' = tier /\ suite' = suite /\ (k' = k \/ k' = k + 1)
        /\ UNCHANGED <<owed, outbound, tapped, asks>> /\ (Agent => place \notin Asking)
    BY <1>3 DEF CrashCheck, Probe, ProbeEnds, ProseCase, InjectCase, JudgeCase, Blocked,
       Judged, NextCase, Finish, Goto, botVars, botOutside, Agent, Asking
  <2> QED
    BY <1>1, <1>2, <2>1, AsksKeep, NoneRuns
<1>4. CASE \E ok \in BOOLEAN : EmitQuestion(ok)
  <2>1. /\ tier' = tier /\ suite' = suite /\ UNCHANGED <<owed, outbound, tapped>>
        /\ Agent /\ place = "case"
        /\ \/ asks' = asks /\ (k' = k \/ k' = k + 1)
           \/ asks' = [asks EXCEPT ![k] = "running"] /\ k' = k /\ place' = "emit"
    BY <1>4 DEF EmitQuestion, Judged, NextCase, Finish, Goto, botOutside
  <2>2. \A j \in 1..Len(suite) : asks[j] # "running"
    BY <2>1, NoneRuns DEF Asking
  <2>3. k' = k \/ k' = k + 1
    BY <2>1
  <2>4. /\ asks' \in [1..Len(suite) -> AskStates]
        /\ \A j \in 1..Len(suite) : asks'[j] = "running" => j = k' /\ place' \in Asking
    BY <1>2, <2>1, <2>2 DEF AskStates, Asking
  <2> QED
    BY <1>1, <2>1, <2>3, <2>4, AsksKeep
<1>5. CASE PayloadWritten
  <2>1. /\ tier' = tier /\ suite' = suite /\ k' = k /\ UNCHANGED <<asks, outbound, tapped>>
        /\ Agent /\ place = "emit" /\ place' = "cards"
    BY <1>5 DEF PayloadWritten, Goto
  <2>2. PICK m \in 0..MaxAnswers : owed' = owed \cup {[of |-> k, n |-> i] : i \in 1..m}
    BY <1>5 DEF PayloadWritten, Replies
  <2>3. k \in 1..k
    BY <1>1, <2>1 DEF SuiteInv, AtCase, Before
  <2>4. \A o \in owed' : o.of \in 1..k
    BY <2>1, <2>2, <2>3 DEF AsksInv
  <2>5. AsksInv'
    BY <2>1, <2>4 DEF AsksInv, Agent
  <2>6. TapsInv'
    BY <2>1 DEF TapsInv, Agent
  <2> QED
    BY <2>5, <2>6
<1>6. CASE ObserveCards
  <2>1. /\ tier' = tier /\ suite' = suite /\ UNCHANGED <<owed, outbound, tapped>>
        /\ Agent /\ place = "cards"
        /\ \/ asks' = ReapAsk(k) /\ (k' = k \/ k' = k + 1)
           \/ asks' = asks /\ k' = k /\ place' = "tap"
    BY <1>6 DEF ObserveCards, Judged, NextCase, Finish, Goto
  <2>2. k' = k \/ k' = k + 1
    BY <2>1
  <2>3. /\ asks' \in [1..Len(suite) -> AskStates]
        /\ \A j \in 1..Len(suite) : asks'[j] = "running" => j = k' /\ place' \in Asking
    BY <1>2, <2>1, ReapEnds DEF AsksInv, Asking
  <2> QED
    BY <1>1, <2>1, <2>2, <2>3, AsksKeep
<1>7. CASE \E button \in BOOLEAN : DoTap(button)
  <2>1. /\ tier' = tier /\ suite' = suite /\ UNCHANGED <<owed, outbound>>
        /\ Agent /\ place = "tap" /\ AtCase
        /\ \/ asks' = ReapAsk(k) /\ (k' = k \/ k' = k + 1)
           \/ asks' = asks /\ k' = k /\ place' = "answer"
    BY <1>7 DEF DoTap, Judged, NextCase, Finish, Goto, AtCase, Before, botOutside
  <2>2. k' = k \/ k' = k + 1
    BY <2>1
  <2>3. /\ asks' \in [1..Len(suite) -> AskStates]
        /\ \A j \in 1..Len(suite) : asks'[j] = "running" => j = k' /\ place' \in Asking
    BY <1>2, <2>1, ReapEnds DEF AsksInv, Asking
  <2>4. CASE tapped' = tapped
    BY <1>1, <2>1, <2>2, <2>3, <2>4, AsksKeep
  <2>5. CASE tapped' # tapped
    <3> DEFINE card == outbound[Len(outbound)]
    <3> DEFINE tap == [by |-> k, of |-> card.of, during |-> card.during]
    <3>1. tapped' = tapped \cup {tap} /\ outbound # <<>> /\ k' = k
      BY <1>7, <2>5 DEF DoTap, Judged, NextCase, Finish, Goto
    <3>2. Len(outbound) \in 1..Len(outbound) /\ card.of \in 1..k
      <4>1. Len(outbound) \in 1..Len(outbound)
        BY <3>1 DEF CapturedInv
      <4> QED
        BY <2>1, <4>1 DEF AsksInv
    <3>3. suite[k].cards > 0 => card.during = k
      <4>1. k \in 1..Len(suite) /\ suite[k].cards \in Nat
        BY <2>1, CardsAreCounted
      <4>2. Len(outbound) - since >= suite[k].cards
        BY <2>1 DEF CapturedInv, This
      <4>3. suite[k].cards > 0 => Len(outbound) \in (since + 1)..Len(outbound)
        BY <4>1, <4>2 DEF CapturedInv
      <4> QED
        BY <2>1, <4>3 DEF CapturedInv, InBot, Agent
    <3>4. k \in 1..Len(suite)
      BY <2>1, CardsAreCounted
    <3> HIDE DEF card
    <3>5. tap.by = k /\ tap.of = card.of /\ tap.during = card.during
      OBVIOUS
    <3> HIDE DEF tap
    <3>6. TapsInv'
      BY <1>1, <2>1, <3>1, <3>2, <3>3, <3>4, <3>5 DEF TapsInv, Agent
    <3>7. AsksInv'
      BY <2>1, <2>3, <3>1 DEF AsksInv, Agent, Asking, AskStates
    <3> QED
      BY <3>6, <3>7
  <2> QED
    BY <2>4, <2>5
<1>8. CASE \E good \in BOOLEAN : AwaitAnswer(good)
  <2>1. /\ tier' = tier /\ suite' = suite /\ UNCHANGED <<owed, outbound, tapped>>
        /\ Agent /\ asks' = ReapAsk(k) /\ (k' = k \/ k' = k + 1)
    BY <1>8 DEF AwaitAnswer, Judged, NextCase, Finish, botOutside
  <2> QED
    BY <1>1, <2>1, ReapEnds, AsksKeep
<1>9. CASE CloseBot
  <2>1. /\ tier' = tier /\ suite' = suite /\ k' = k /\ owed' \subseteq owed
        /\ UNCHANGED <<outbound, tapped>>
        /\ asks' = [i \in DOMAIN asks |-> IF asks[i] = "running" THEN "reaped" ELSE asks[i]]
    BY <1>9 DEF CloseBot, Goto
  <2>2. Agent => /\ asks' \in [1..Len(suite) -> AskStates]
                 /\ \A j \in 1..Len(suite) : asks'[j] # "running"
    BY <1>2, <2>1 DEF AskStates
  <2> QED
    BY <1>1, <2>1, <2>2, AsksKeep
<1> QED
  BY <1>3, <1>4, <1>5, <1>6, <1>7, <1>8, <1>9 DEF BotDriver

LEMMA AskOutsideStep ==
    ASSUME SuiteInv, CapturedInv, AsksInv, TapsInv, BotOutside
    PROVE  AsksInv' /\ TapsInv'
<1>1. k \in Nat /\ tier' = tier /\ suite' = suite /\ k' = k /\ place' = place
  BY DEF BotOutside, BotSends, BotDies, BotPolls, AskAnswers, suiteVars, SuiteInv
<1>2. CASE BotSends
  <2>1. PICK o \in owed : /\ owed' = owed \ {o}
                          /\ \E t \in Texts : outbound' =
                               Append(outbound, [of |-> o.of, during |-> k, text |-> t])
    BY <1>2 DEF BotSends, Texts
  <2>2. asks' = asks /\ tapped' = tapped
    BY <1>2 DEF BotSends
  <2>3. Agent => \A i \in 1..Len(outbound') : outbound'[i].of \in 1..k
    <3> SUFFICES ASSUME Agent, NEW i \in 1..Len(outbound') PROVE outbound'[i].of \in 1..k
      OBVIOUS
    <3>1. PICK t \in Texts :
            outbound' = Append(outbound, [of |-> o.of, during |-> k, text |-> t])
      BY <2>1
    <3> DEFINE posted == [of |-> o.of, during |-> k, text |-> t]
    <3>2. posted.of \in 1..k
      BY DEF AsksInv
    <3>3. outbound \in Seq(Evidence)
      BY DEF CapturedInv
    <3> HIDE DEF posted
    <3>4. outbound' = Append(outbound, posted)
      BY <3>1 DEF posted
    <3>5. CASE i = Len(outbound) + 1
      BY <3>2, <3>3, <3>4, <3>5
    <3>6. CASE i # Len(outbound) + 1
      <4>1. i \in 1..Len(outbound) /\ outbound'[i] = outbound[i]
        BY <3>3, <3>4, <3>6
      <4> QED
        BY <4>1 DEF AsksInv
    <3> QED
      BY <3>5, <3>6
  <2>4. AsksInv'
    BY <1>1, <2>1, <2>2, <2>3 DEF AsksInv, Agent
  <2>5. TapsInv'
    BY <1>1, <2>2 DEF TapsInv, Agent
  <2> QED
    BY <2>4, <2>5
<1>3. CASE ~BotSends
  <2>1. /\ outbound' = outbound /\ tapped' = tapped /\ (Agent => owed' \subseteq owed)
        /\ asks' = asks \/ \E case : asks' = [asks EXCEPT ![case] = "answered"]
    BY <1>3 DEF BotOutside, BotDies, BotPolls, AskAnswers
  <2>2. AsksInv'
    BY <1>1, <2>1 DEF AsksInv, Agent
  <2>3. TapsInv'
    BY <1>1, <2>1 DEF TapsInv, Agent
  <2> QED
    BY <2>2, <2>3
<1> QED
  BY <1>2, <1>3

-----------------------------------------------------------------------------
(* The steps of the live tier.                                              *)

Owed == [of: Nat, n: Nat]
Messages == [own: BOOLEAN, of: Nat, during: Nat, text: Texts, gone: BOOLEAN]
InTime == {"send", "expect", "tap", "expect-after-tap"}

LiveInv == SuiteInv /\ ChatInv

LEMMA EmptyIsOwn == {} \in SUBSET Evidence /\ Own({}, k)
BY DEF Own

LEMMA ReadIsOwn ==
    ASSUME LiveInv, Live, place \in InTime
    PROVE  read \in SUBSET Evidence /\ Own(read, k)
BY DEF LiveInv, ChatInv, Own, Live, Ext, InTime

LEMMA AboveTheMark ==
    ASSUME NEW mark \in Nat, NEW most \in Nat
    PROVE  \A i \in (mark + 1)..most : i \in Nat /\ i > mark /\ i <= most
OBVIOUS

(* A step that leaves the chat as it is.                                    *)
LEMMA ChatKeeps ==
    ASSUME LiveInv, Live, ~Swept, tier' = tier, ~Swept',
           UNCHANGED <<chat, sentIds, unsure, deleted>>,
           lastSeen' \in Nat, due' \subseteq Owed, read' \subseteq Evidence,
           place' \in InTime =>
             /\ k' = k /\ \A e \in read' : e.during = k
             /\ \/ place \in InTime /\ lastSeen' >= lastSeen
                \/ lastSeen' = Newest
    PROVE  ChatInv'
<1>1. chat \in Seq(Messages) /\ Newest \in Nat /\ lastSeen \in Nat
  BY DEF LiveInv, ChatInv, Messages, Newest
<1>2. ASSUME place' \in InTime, NEW i \in Nat, i > lastSeen', i <= Newest
      PROVE  chat[i].during = k'
  <2>1. place \in InTime /\ lastSeen' >= lastSeen
    BY <1>1, <1>2
  <2>2. i \in (lastSeen + 1)..Newest
    BY <1>1, <1>2, <2>1
  <2>3. chat[i].during = k
    BY <2>1, <2>2 DEF LiveInv, ChatInv, InTime
  <2> QED
    BY <1>2, <2>3
<1>3. Newest' = Newest
  BY DEF Newest
<1>4. place' \in InTime =>
        /\ \A i \in (lastSeen' + 1)..Newest : chat[i].during = k'
        /\ \A e \in read' : e.during = k'
  <2> SUFFICES ASSUME place' \in InTime
               PROVE  /\ \A i \in (lastSeen' + 1)..Newest : chat[i].during = k'
                      /\ \A e \in read' : e.during = k'
    OBVIOUS
  <2>1. \A i \in (lastSeen' + 1)..Newest : i \in Nat /\ i > lastSeen' /\ i <= Newest
    BY <1>1, AboveTheMark
  <2>2. \A e \in read' : e.during = k'
    OBVIOUS
  <2> QED
    BY <1>2, <2>1, <2>2
<1> QED
  BY <1>1, <1>3, <1>4
     DEF LiveInv, ChatInv, Live, InTime, Owed, Messages, Swept

(* A message that arrives does so during the case the driver is at.         *)
LEMMA ArrivalKeeps ==
    ASSUME LiveInv, Live, ~Swept, NEW message \in Messages, message.during = k,
           tier' = tier, ~Swept', place' \in InTime => k' = k /\ place \in InTime,
           chat' = Append(chat, message), UNCHANGED <<lastSeen, read, deleted>>,
           due' \subseteq Owed, sentIds \subseteq sentIds', unsure \subseteq unsure',
           message.own => Newest + 1 \in sentIds' \cup unsure'
    PROVE  ChatInv'
<1>1. chat \in Seq(Messages) /\ Newest \in Nat /\ lastSeen \in Nat
  BY DEF LiveInv, ChatInv, Messages, Newest
<1>2. /\ chat' \in Seq(Messages) /\ Newest' = Newest + 1
      /\ chat'[Newest + 1] = message /\ \A i \in 1..Newest : chat'[i] = chat[i]
  BY <1>1 DEF Newest
<1>3. place' \in InTime =>
        /\ \A i \in (lastSeen + 1)..Newest' : chat'[i].during = k'
        /\ \A e \in read : e.during = k'
  <2> SUFFICES ASSUME place' \in InTime
               PROVE  /\ \A i \in (lastSeen + 1)..Newest' : chat'[i].during = k
                      /\ \A e \in read : e.during = k
    OBVIOUS
  <2>1. /\ \A i \in (lastSeen + 1)..Newest : chat[i].during = k
        /\ \A e \in read : e.during = k
    BY DEF LiveInv, ChatInv, InTime
  <2>2. ASSUME NEW i \in (lastSeen + 1)..Newest' PROVE chat'[i].during = k
    <3>1. CASE i = Newest + 1
      BY <1>2, <3>1
    <3>2. CASE i # Newest + 1
      <4>1. i \in (lastSeen + 1)..Newest /\ i \in 1..Newest
        BY <1>1, <1>2, <3>2
      <4> QED
        BY <1>2, <2>1, <4>1
    <3> QED
      BY <3>1, <3>2
  <2> QED
    BY <2>1, <2>2
<1>4. \A i \in 1..Newest' : chat'[i].own => i \in sentIds' \cup unsure'
  <2> SUFFICES ASSUME NEW i \in 1..Newest', chat'[i].own PROVE i \in sentIds' \cup unsure'
    OBVIOUS
  <2>1. CASE i = Newest + 1
    BY <1>2, <2>1
  <2>2. CASE i # Newest + 1
    <3>1. i \in 1..Newest
      BY <1>1, <1>2, <2>2
    <3>2. chat[i].own
      BY <1>2, <3>1
    <3> QED
      BY <3>1, <3>2 DEF LiveInv, ChatInv
  <2> QED
    BY <2>1, <2>2
<1> QED
  BY <1>1, <1>2, <1>3, <1>4
     DEF LiveInv, ChatInv, Live, InTime, Owed, Messages, Swept

(* The first reply that was fetched is one of this case.                    *)
LEMMA FirstIsOwn ==
    ASSUME LiveInv, Live, place \in InTime, Fetched # {}, NEW first,
           first = CHOOSE i \in Fetched : \A j \in Fetched : i <= j
    PROVE  /\ first \in Nat /\ first > lastSeen
           /\ EvidenceOf(first) \in Evidence /\ EvidenceOf(first).during = k
<1>1. chat \in Seq(Messages) /\ Newest = Len(chat) /\ lastSeen \in Nat
      /\ \A i \in (lastSeen + 1)..Newest : chat[i].during = k
  BY DEF LiveInv, ChatInv, Messages, Newest, InTime
<1>2. Fetched \in SUBSET Nat
  BY <1>1 DEF Fetched
<1>3. \E i \in Fetched : \A j \in Fetched : i <= j
  BY <1>2, LeastOf
<1>4. first \in Fetched
  BY <1>3
<1>5. first \in (lastSeen + 1)..Newest /\ first \in 1..Newest
  BY <1>1, <1>4 DEF Fetched
<1>6. chat[first] \in Messages
  BY <1>1, <1>5
<1> QED
  BY <1>1, <1>5, <1>6 DEF EvidenceOf, Evidence, Messages

LEMMA OwesAfter ==
    ASSUME k \in Nat, due \subseteq Owed, NEW most \in Nat, Owes(most)
    PROVE  due' \subseteq Owed
<1>1. PICK n \in 0..most : due' = due \cup {[of |-> k, n |-> i] : i \in 1..n}
  BY DEF Owes
<1>2. \A i \in 1..n : [of |-> k, n |-> i] \in Owed
  BY DEF Owed
<1> QED
  BY <1>1, <1>2

LEMMA LiveDriverStep ==
    ASSUME LiveInv, LiveDriver
    PROVE  LiveInv' /\ Live /\ tier' = tier /\ suite' = suite
<1> USE DEF LiveInv
<1>1. Live
  BY DEF LiveDriver, LiveProseCase, Rebase, ExpectReply, ExpectNothing, OperationFails, Connect,
         Send, CleanupSent, Disconnect, Tap
<1>2. /\ k \in Nat /\ Newest \in Nat /\ lastSeen \in Nat /\ due \subseteq Owed
      /\ read \subseteq Evidence
  BY DEF SuiteInv, ChatInv, Newest, Owed
<1>3. CASE LiveProseCase \/ OperationFails
  <2>1. AtCase /\ ~Swept /\ Judged("BLOCKED", {}) /\ UNCHANGED liveVars
    BY <1>3 DEF LiveProseCase, OperationFails, AtCase, Before, Swept
  <2>2. SuiteInv' /\ Moved
    BY <2>1, EmptyIsOwn, JudgedKeeps DEF Status
  <2>3. ChatInv'
    BY <1>1, <1>2, <2>1, <2>2, ChatKeeps DEF Moved, InTime, Swept, liveVars
  <2> QED
    BY <1>1, <2>2, <2>3 DEF Moved
<1>4. CASE Rebase
  <2>1. /\ AtCase /\ ~Swept /\ Goto("send") /\ lastSeen' = Newest /\ read' = {}
        /\ UNCHANGED <<chat, due, sentIds, unsure, deleted>>
    BY <1>4 DEF Rebase, AtCase, Before, Swept
  <2>2. SuiteInv' /\ tier' = tier /\ suite' = suite /\ k' = k /\ place' = "send"
    BY <2>1, GotoKeeps DEF Before
  <2>3. ChatInv'
    BY <1>1, <1>2, <2>1, <2>2, ChatKeeps DEF Swept
  <2> QED
    BY <1>1, <2>2, <2>3
<1>5. CASE ExpectReply
  <2> DEFINE first == CHOOSE i \in Fetched : \A j \in Fetched : i <= j
  <2>1. /\ AtCase /\ place \in InTime /\ ~Swept /\ Fetched # {} /\ lastSeen' = first
        /\ read' = read \cup {EvidenceOf(first)}
        /\ UNCHANGED <<chat, due, sentIds, unsure, deleted>>
    BY <1>5 DEF ExpectReply, AtCase, Before, Swept, InTime
  <2>2. Judged(Classify(ThisCase, TextsOf(read')), read') \/ Goto("tap")
    BY <1>5 DEF ExpectReply
  <2> HIDE DEF first
  <2>3. /\ first \in Nat /\ first > lastSeen
        /\ EvidenceOf(first) \in Evidence /\ EvidenceOf(first).during = k
    BY <1>1, <2>1, FirstIsOwn DEF first
  <2>4. read' \in SUBSET Evidence /\ \A e \in read' : e.during = k
    BY <1>1, <1>2, <2>1, <2>3 DEF ChatInv, InTime
  <2>5. Own(read', k)
    BY <1>1, <2>4 DEF Own, Live, Ext
  <2>6. /\ SuiteInv' /\ tier' = tier /\ suite' = suite /\ ~Swept'
        /\ place' \in InTime => k' = k
    <3>1. CASE Goto("tap")
      BY <2>1, <3>1, GotoKeeps DEF Before, Swept
    <3>2. CASE Judged(Classify(ThisCase, TextsOf(read')), read')
      <4>1. PICK st \in Status : Judged(st, read')
        BY <3>2 DEF Classify, Status
      <4>2. SuiteInv' /\ Moved
        BY <2>1, <2>4, <2>5, <4>1, JudgedKeeps
      <4> QED
        BY <4>2 DEF Moved, InTime, Swept
    <3> QED
      BY <2>2, <3>1, <3>2
  <2>7. ChatInv'
    BY <1>1, <1>2, <2>1, <2>3, <2>4, <2>6, ChatKeeps
  <2> QED
    BY <1>1, <2>6, <2>7
<1>6. CASE ExpectNothing
  <2>1. AtCase /\ place \in InTime /\ ~Swept /\ UNCHANGED liveVars
    BY <1>6 DEF ExpectNothing, AtCase, Before, Swept, InTime
  <2>2. PICK st \in Status : Judged(st, read)
    BY <1>6 DEF ExpectNothing, Classify, Status
  <2>3. SuiteInv' /\ Moved
    BY <1>1, <2>1, <2>2, ReadIsOwn, JudgedKeeps
  <2>4. ChatInv'
    BY <1>1, <1>2, <2>1, <2>3, ChatKeeps DEF Moved, InTime, Swept, liveVars
  <2> QED
    BY <1>1, <2>3, <2>4 DEF Moved
<1>7. CASE \E ok \in BOOLEAN : Connect(ok)
  <2>1. PICK ok \in BOOLEAN : Connect(ok)
    BY <1>7
  <2>2. /\ place \in Before /\ ~Swept /\ (NextCase(<<>>) \/ Blocked)
        /\ lastSeen' \in Nat /\ UNCHANGED <<chat, due, sentIds, read, unsure, deleted>>
    BY <1>2, <2>1 DEF Connect, Before, Swept
  <2>3. SuiteInv' /\ Moved
    BY <2>2, BeginKeeps, BlockedKeeps
  <2>4. ChatInv'
    BY <1>1, <1>2, <2>2, <2>3, ChatKeeps DEF Moved, InTime, Swept
  <2> QED
    BY <1>1, <2>3, <2>4 DEF Moved
<1>8. CASE \E landed, returns \in BOOLEAN : Send(landed, returns)
  <2>1. PICK landed \in BOOLEAN, returns \in BOOLEAN : Send(landed, returns)
    BY <1>8
  <2>2. AtCase /\ place = "send" /\ UNCHANGED <<lastSeen, read, deleted>>
    BY <2>1 DEF Send, AtCase, Before, Swept
  <2>3. Goto("expect") \/ Judged("BLOCKED", {})
    BY <2>1 DEF Send
  <2>4. /\ SuiteInv' /\ tier' = tier /\ suite' = suite /\ ~Swept'
        /\ place' \in InTime => k' = k
    <3>1. CASE Goto("expect")
      BY <2>2, <3>1, GotoKeeps DEF Before, Swept
    <3>2. CASE Judged("BLOCKED", {})
      <4>1. SuiteInv' /\ Moved
        BY <2>2, <3>2, EmptyIsOwn, JudgedKeeps DEF Status
      <4> QED
        BY <4>1 DEF Moved, InTime, Swept
    <3> QED
      BY <2>3, <3>1, <3>2
  <2>5. CASE landed
    <3> DEFINE message == Message(TRUE, k, "other")
    <3>1. message \in Messages /\ message.during = k
      BY <1>2 DEF Message, Messages, Texts
    <3>2. chat' = Append(chat, message) /\ Owes(2)
      BY <2>1, <2>5 DEF Send
    <3> HIDE DEF message
    <3>3. due' \subseteq Owed
      BY <1>2, <3>2, OwesAfter
    <3>4. /\ sentIds \subseteq sentIds' /\ unsure \subseteq unsure'
          /\ Newest + 1 \in sentIds' \cup unsure'
      BY <2>1, <2>5 DEF Send
    <3>5. ChatInv'
      BY <1>1, <2>2, <2>4, <3>1, <3>2, <3>3, <3>4, ArrivalKeeps DEF InTime, Swept
    <3> QED
      BY <1>1, <2>4, <3>5
  <2>6. CASE ~landed
    <3>1. UNCHANGED <<chat, due, sentIds, unsure>> /\ place' \notin InTime
      BY <2>1, <2>6 DEF Send, Judged, NextCase, Finish, InTime
    <3>2. ChatInv'
      BY <1>1, <1>2, <2>2, <2>4, <3>1, ChatKeeps DEF Swept
    <3> QED
      BY <1>1, <2>4, <3>2
  <2> QED
    BY <2>5, <2>6
<1>9. CASE \E ok \in BOOLEAN : CleanupSent(ok)
  <2>1. PICK ok \in BOOLEAN : CleanupSent(ok)
    BY <1>9
  <2>2. /\ place = "close" /\ Goto("disconnect") /\ UNCHANGED <<due, lastSeen, read, unsure>>
        /\ chat' = [i \in 1..Newest |-> [chat[i] EXCEPT !.gone = deleted' /\ i \in sentIds]]
    BY <2>1 DEF CleanupSent
  <2>3. SuiteInv' /\ tier' = tier /\ suite' = suite /\ k' = k /\ place' = "disconnect"
    BY <2>2, GotoKeeps DEF Before
  <2>4. chat \in Seq(Messages) /\ \A i \in 1..Newest : chat[i] \in Messages
    <3>1. chat \in Seq(Messages)
      BY DEF ChatInv, Messages
    <3> QED
      BY <3>1 DEF Newest
  <2>5. \A i \in 1..Newest : chat'[i] = [chat[i] EXCEPT !.gone = deleted' /\ i \in sentIds]
    BY <2>2
  <2>6. \A i \in 1..Newest :
          /\ chat'[i] \in Messages /\ chat'[i].own = chat[i].own
          /\ chat'[i].gone <=> deleted' /\ i \in sentIds
    <3> SUFFICES ASSUME NEW i \in 1..Newest
                 PROVE  /\ chat'[i] \in Messages /\ chat'[i].own = chat[i].own
                        /\ chat'[i].gone <=> deleted' /\ i \in sentIds
      OBVIOUS
    <3> DEFINE erased == deleted' /\ i \in sentIds
    <3>1. erased \in BOOLEAN /\ chat[i] \in Messages /\ chat'[i] = [chat[i] EXCEPT !.gone = erased]
      BY <2>1, <2>4, <2>5 DEF CleanupSent
    <3> HIDE DEF erased
    <3>2. chat'[i] \in Messages /\ chat'[i].own = chat[i].own /\ chat'[i].gone = erased
      BY <3>1 DEF Messages
    <3> QED
      BY <3>2 DEF erased
  <2>7. chat' \in Seq(Messages) /\ Newest' = Newest
    BY <1>2, <2>2, <2>6 DEF Newest
  <2>8. deleted' => \A i \in 1..Newest' : chat'[i].own /\ ~chat'[i].gone => i \in unsure'
    <3> SUFFICES ASSUME deleted', NEW i \in 1..Newest, chat'[i].own, ~chat'[i].gone
                 PROVE  i \in unsure
      BY <2>2, <2>7
    <3>1. chat[i].own /\ i \notin sentIds
      BY <2>6
    <3> QED
      BY <1>1, <2>2, <3>1 DEF ChatInv, Swept
  <2>9. ChatInv'
    BY <1>2, <2>2, <2>3, <2>7, <2>8 DEF ChatInv, Messages, Owed, Swept
  <2> QED
    BY <1>1, <2>3, <2>9
<1>11. CASE Disconnect
  <2>1. /\ place = "disconnect" /\ Goto("done")
        /\ UNCHANGED <<chat, due, lastSeen, read, unsure, deleted>>
    BY <1>11 DEF Disconnect
  <2>2. SuiteInv' /\ tier' = tier /\ suite' = suite /\ k' = k /\ place' = "done"
    BY <2>1, GotoKeeps DEF Before
  <2>3. ChatInv'
    BY <1>1, <2>1, <2>2 DEF ChatInv, Swept, Live, Newest
  <2> QED
    BY <1>1, <2>2, <2>3
<1>10. CASE \E t \in SUBSET {[of |-> k, during |-> k, text |-> x] : x \in {"want", "ban"}} : Tap(t)
  <2>1. PICK t \in SUBSET {[of |-> k, during |-> k, text |-> x] : x \in {"want", "ban"}} : Tap(t)
    BY <1>10
  <2>2. /\ AtCase /\ place = "tap" /\ Goto("expect-after-tap") /\ Owes(1)
        /\ read' = read \cup t /\ UNCHANGED <<chat, lastSeen, sentIds, unsure, deleted>>
    BY <2>1 DEF Tap, AtCase, Before, Swept
  <2>3. SuiteInv' /\ tier' = tier /\ suite' = suite /\ k' = k /\ place' = "expect-after-tap"
    BY <2>2, GotoKeeps DEF Before
  <2>4. due' \subseteq Owed
    BY <1>2, <2>2, OwesAfter
  <2>5. \A e \in t : e \in Evidence /\ e.during = k
    BY <1>2 DEF Evidence, Texts
  <2>6. read' \subseteq Evidence /\ \A e \in read' : e.during = k
    BY <1>1, <1>2, <2>2, <2>5 DEF ChatInv
  <2>7. ChatInv'
    BY <1>1, <1>2, <2>2, <2>3, <2>4, <2>6, ChatKeeps DEF InTime, Swept
  <2> QED
    BY <1>1, <2>3, <2>7
<1> QED
  BY <1>3, <1>4, <1>5, <1>6, <1>7, <1>8, <1>9, <1>10, <1>11 DEF LiveDriver

LEMMA BotMessageStep ==
    ASSUME LiveInv, BotMessage
    PROVE  LiveInv' /\ Live /\ tier' = tier /\ suite' = suite
<1> USE DEF LiveInv
<1>1. SuiteInv'
  BY SameSuite DEF BotMessage
<1>2. /\ Live /\ place # "done" /\ UNCHANGED <<tier, suite, place, k>>
      /\ UNCHANGED <<lastSeen, sentIds, read, unsure, deleted>>
  BY DEF BotMessage, suiteVars
<1>3. PICK d \in due, t \in Texts :
        due' = due \ {d} /\ chat' = Append(chat, Message(FALSE, d.of, t))
  BY DEF BotMessage
<1> DEFINE message == Message(FALSE, d.of, t)
<1>4. message \in Messages /\ message.during = k /\ message.own = FALSE
  BY <1>3 DEF Message, Messages, SuiteInv, ChatInv
<1>5. chat' = Append(chat, message) /\ due' \subseteq Owed
  BY <1>3 DEF ChatInv, Owed
<1> HIDE DEF message
<1>6. CASE ~Swept
  <2>1. ChatInv'
    BY <1>2, <1>4, <1>5, <1>6, ArrivalKeeps DEF Swept
  <2> QED
    BY <1>1, <1>2, <2>1
<1>7. CASE Swept
  <2>1. chat \in Seq(Messages) /\ Newest \in Nat
    BY DEF ChatInv, Messages, Newest
  <2>2. /\ chat' \in Seq(Messages) /\ Newest' = Newest + 1
        /\ chat'[Newest + 1] = message /\ \A i \in 1..Newest : chat'[i] = chat[i]
    BY <1>4, <1>5, <2>1 DEF Newest
  <2>3. deleted => \A i \in 1..Newest' : chat'[i].own /\ ~chat'[i].gone => i \in unsure
    <3> SUFFICES ASSUME deleted, NEW i \in 1..Newest', chat'[i].own, ~chat'[i].gone
                 PROVE  i \in unsure
      OBVIOUS
    <3>1. i \in 1..Newest /\ chat'[i] = chat[i]
      BY <1>4, <2>1, <2>2
    <3> QED
      BY <1>2, <1>7, <3>1 DEF ChatInv
  <2>4. ChatInv'
    BY <1>2, <1>5, <1>7, <2>2, <2>3 DEF ChatInv, Messages, Owed, Swept, Live
  <2> QED
    BY <1>1, <1>2, <2>4
<1> QED
  BY <1>6, <1>7

-----------------------------------------------------------------------------
(* The steps of the page tiers.                                             *)

PagesInv == SuiteInv /\ RepliesInv

(* A reply that was written is still under way.                             *)
UnderWay(id) ==
    \/ \E i \in 1..Len(pipe) : pipe[i] = id
    \/ \E i \in 1..Len(queue) : queue[i] = id

LEMMA RepliesKeeps ==
    ASSUME RepliesInv, UNCHANGED <<tier, wire, pipe, eof, wrote, request>>,
           runner' = runner \/ runner' = "gone",
           queue' = queue \/ (queue # <<>> /\ queue' = Tail(queue)),
           answers' \subseteq Evidence, \A e \in answers' : e.of = e.during,
           place' # "write",
           place' = "reply" =>
             place = "reply" /\ (queue' = queue \/ Head(queue) # request)
    PROVE  RepliesInv'
<1>1. queue' \in Seq(Nat)
  <2>1. queue \in Seq(Nat)
    BY DEF RepliesInv
  <2>2. queue # <<>> => Tail(queue) \in Seq(Nat)
    BY <2>1
  <2> QED
    BY <2>1, <2>2, Zenon
<1>2. ASSUME Ext, place' = "reply", request \in wrote
      PROVE  UnderWay(request)'
  <2>1. UnderWay(request)
    BY <1>2 DEF RepliesInv, UnderWay
  <2>2. CASE queue' = queue
    BY <2>1, <2>2 DEF UnderWay
  <2>3. CASE queue' # queue
    <3>1. queue # <<>> /\ queue' = Tail(queue) /\ Head(queue) # request /\ queue \in Seq(Nat)
      BY <1>2, <2>3 DEF RepliesInv
    <3>2. CASE \E i \in 1..Len(pipe) : pipe[i] = request
      BY <3>2 DEF UnderWay
    <3>3. CASE \E i \in 1..Len(queue) : queue[i] = request
      <4>1. PICK i \in 1..Len(queue) : queue[i] = request
        BY <3>3
      <4>2. i - 1 \in 1..Len(Tail(queue)) /\ Tail(queue)[i - 1] = request
        BY <3>1, <4>1
      <4> QED
        BY <3>1, <4>2 DEF UnderWay
    <3> QED
      BY <2>1, <3>2, <3>3 DEF UnderWay
  <2> QED
    BY <2>2, <2>3
<1> QED
  BY <1>1, <1>2 DEF RepliesInv, Ext, UnderWay

LEMMA AnswersAreOwn ==
    ASSUME RepliesInv, Ext
    PROVE  answers \in SUBSET Evidence /\ Own(answers, k)
BY DEF RepliesInv, Own

(* A case fails: it is judged, or a screenshot is asked for first.          *)
LEMMA CaseFailsKeeps ==
    ASSUME PagesInv, Ext, AtCase, CaseFails
    PROVE  SuiteInv' /\ tier' = tier /\ suite' = suite /\ place' \notin {"write", "reply"}
<1>1. CASE shot
  <2>1. Judged("FAIL", answers)
    BY <1>1 DEF CaseFails
  <2> QED
    BY <2>1, AnswersAreOwn, JudgedKeeps DEF PagesInv, Status, Moved
<1>2. CASE ~shot
  BY <1>2, GotoKeeps DEF PagesInv, CaseFails, Before
<1> QED
  BY <1>1, <1>2

LEMMA PageDriverStep ==
    ASSUME PagesInv, PageDriver
    PROVE  PagesInv' /\ (Ext \/ Web) /\ tier' = tier /\ suite' = suite
<1> USE DEF PagesInv
<1>1. Ext \/ Web
  BY DEF PageDriver, PageProseCase, BeginCase, TakeLine, Refused, ReportExit, ReplyTimesOut,
         ClosePage, Open, Assertions, SendRequest, WriteLine, DriveWebCase
<1>2. answers \subseteq Evidence /\ (\A e \in answers : e.of = e.during) /\ k \in Nat
      /\ request \in Nat /\ queue \in Seq(Nat)
  BY DEF RepliesInv, SuiteInv
<1>3. {} \in SUBSET Evidence /\ Own({}, k)
  BY DEF Own
<1>4. CASE \E ok \in BOOLEAN : Open(ok)
  <2>1. place \in Before /\ UNCHANGED pageVars /\ (NextCase(<<>>) \/ Blocked)
    BY <1>4 DEF Open, Before
  <2>2. SuiteInv' /\ Moved
    BY <2>1, BeginKeeps, BlockedKeeps
  <2>3. RepliesInv'
    BY <1>2, <2>1, <2>2, RepliesKeeps DEF pageVars, Moved
  <2> QED
    BY <1>1, <2>2, <2>3 DEF Moved
<1>5. CASE PageProseCase \/ \E acts, holds \in BOOLEAN : DriveWebCase(acts, holds)
  <2>1. AtCase /\ UNCHANGED pageVars /\ \E st \in Status : Judged(st, {})
    BY <1>5 DEF PageProseCase, DriveWebCase, AtCase, Before, Status
  <2>2. SuiteInv' /\ Moved
    BY <1>3, <2>1, JudgedKeeps
  <2>3. RepliesInv'
    BY <1>2, <2>1, <2>2, RepliesKeeps DEF pageVars, Moved
  <2> QED
    BY <1>1, <2>2, <2>3 DEF Moved
<1>6. CASE BeginCase
  <2>1. AtCase /\ Goto("request") /\ answers' = {} /\ UNCHANGED <<outsideVars, request>>
    BY <1>6 DEF BeginCase, AtCase, Before
  <2>2. SuiteInv' /\ tier' = tier /\ suite' = suite /\ place' = "request"
    BY <2>1, GotoKeeps DEF Before
  <2>3. RepliesInv'
    BY <2>1, <2>2, RepliesKeeps DEF outsideVars
  <2> QED
    BY <1>1, <2>2, <2>3
<1>7. CASE \E hold \in BOOLEAN : Assertions(hold)
  <2>1. PICK hold \in BOOLEAN : Assertions(hold)
    BY <1>7
  <2>2. AtCase /\ Ext /\ UNCHANGED <<outsideVars, request, answers>>
    BY <2>1 DEF Assertions, AtCase, Before
  <2>3. CaseFails \/ \E st \in Status : Judged(st, answers)
    BY <2>1 DEF Assertions, Status
  <2>4. SuiteInv' /\ tier' = tier /\ suite' = suite /\ place' \notin {"write", "reply"}
    <3>1. CASE CaseFails
      BY <2>2, <3>1, CaseFailsKeeps
    <3>2. CASE \E st \in Status : Judged(st, answers)
      BY <2>2, <3>2, AnswersAreOwn, JudgedKeeps DEF Moved
    <3> QED
      BY <2>3, <3>1, <3>2
  <2>5. RepliesInv'
    BY <1>2, <2>2, <2>4, RepliesKeeps DEF outsideVars
  <2> QED
    BY <1>1, <2>4, <2>5
<1>8. CASE SendRequest
  <2>1. /\ AtCase /\ Ext /\ request' = request + 1 /\ Goto("write")
        /\ UNCHANGED <<runner, wire, pipe, queue, eof, answers, wrote>>
    BY <1>8 DEF SendRequest, AtCase, Before, outsideVars
  <2>2. SuiteInv' /\ tier' = tier /\ suite' = suite /\ place' = "write"
    BY <2>1, GotoKeeps DEF Before
  <2>3. /\ request + 1 \notin wrote /\ wrote \subseteq 1..(request + 1)
        /\ \A i \in 1..Len(wire) : wire[i] \in 1..(request + 1) /\ wire[i] # request + 1
    BY <1>2 DEF RepliesInv
  <2>4. RepliesInv'
    BY <1>2, <2>1, <2>2, <2>3 DEF RepliesInv
  <2> QED
    BY <1>1, <2>2, <2>4
<1>12. CASE WriteLine
  <2>1. /\ AtCase /\ Ext /\ place = "write" /\ request \notin wrote
        /\ UNCHANGED <<runner, pipe, queue, eof, request, answers, wrote>>
        /\ wire' = wire \/ wire' = Append(wire, request)
        /\ Goto("reply") \/ (CaseFails /\ wire' = wire)
        /\ wire' # wire => runner = "up"
    BY <1>12 DEF WriteLine, AtCase, Before, RepliesInv
  <2>2. SuiteInv' /\ tier' = tier /\ suite' = suite /\ place' # "write"
    BY <2>1, CaseFailsKeeps, GotoKeeps DEF Before
  <2>3. wire' \in Seq(Nat) /\ \A i \in 1..Len(wire') : wire'[i] \in 1..request
    <3>1. /\ wire \in Seq(Nat) /\ \A i \in 1..Len(wire) : wire[i] \in 1..request
          /\ wrote \subseteq 1..request /\ request \in Nat
      BY DEF RepliesInv
    <3>2. CASE wire' = wire
      BY <3>1, <3>2
    <3>3. CASE wire' # wire
      <4>1. wire' = Append(wire, request) /\ request \in 1..request
        BY <1>2, <2>1, <3>3 DEF RepliesInv
      <4>2. /\ Len(wire') = Len(wire) + 1 /\ wire'[Len(wire) + 1] = request
            /\ \A i \in 1..Len(wire) : wire'[i] = wire[i]
        BY <3>1, <4>1
      <4> QED
        BY <3>1, <4>1, <4>2
    <3> QED
      BY <3>2, <3>3
  <2>4. RepliesInv'
    BY <1>2, <2>1, <2>2, <2>3 DEF RepliesInv
  <2> QED
    BY <1>1, <2>2, <2>4
<1>9. CASE TakeLine
  <2>1. /\ AtCase /\ Ext /\ place = "reply" /\ queue # <<>> /\ queue' = Tail(queue)
        /\ UNCHANGED <<runner, wire, pipe, eof, request, wrote>>
    BY <1>9 DEF TakeLine, AtCase, Before
  <2>2. CASE Head(queue) = request
    <3> DEFINE taken == [of |-> Head(queue), during |-> request, text |-> "other"]
    <3>1. Goto("request") /\ answers' = answers \cup {taken}
      BY <1>9, <2>2 DEF TakeLine, IsReply
    <3>2. taken \in Evidence /\ taken.of = taken.during
      BY <1>2, <2>2 DEF Evidence, Texts
    <3> HIDE DEF taken
    <3>3. SuiteInv' /\ tier' = tier /\ suite' = suite /\ place' = "request"
      BY <2>1, <3>1, GotoKeeps DEF Before
    <3>4. answers' \subseteq Evidence /\ \A e \in answers' : e.of = e.during
      BY <1>2, <3>1, <3>2
    <3>5. RepliesInv'
      BY <2>1, <3>3, <3>4, RepliesKeeps
    <3> QED
      BY <1>1, <3>3, <3>5
  <2>3. CASE Head(queue) # request
    <3>1. answers' = answers /\ UNCHANGED suiteVars
      BY <1>9, <2>3 DEF TakeLine, IsReply
    <3>2. SuiteInv' /\ tier' = tier /\ suite' = suite /\ place' = place
      BY <3>1, SameSuite DEF suiteVars
    <3>3. RepliesInv'
      BY <1>2, <2>1, <2>3, <3>1, <3>2, RepliesKeeps
    <3> QED
      BY <1>1, <3>2, <3>3
  <2> QED
    BY <2>2, <2>3
<1>10. CASE Refused \/ ReportExit \/ ReplyTimesOut
  <2>1. /\ AtCase /\ Ext /\ CaseFails
        /\ queue' = queue \/ (queue # <<>> /\ queue' = Tail(queue))
        /\ UNCHANGED <<runner, wire, pipe, eof, wrote, request, answers>>
    BY <1>10 DEF Refused, ReportExit, ReplyTimesOut, AtCase, Before, outsideVars
  <2>2. SuiteInv' /\ tier' = tier /\ suite' = suite /\ place' \notin {"write", "reply"}
    BY <2>1, CaseFailsKeeps
  <2>3. RepliesInv'
    BY <1>2, <2>1, <2>2, RepliesKeeps
  <2> QED
    BY <1>1, <2>2, <2>3
<1>11. CASE ClosePage
  <2>1. /\ place = "close" /\ Goto("done") /\ runner' = "gone"
        /\ UNCHANGED <<wire, pipe, queue, eof, request, answers, wrote>>
    BY <1>11 DEF ClosePage
  <2>2. SuiteInv' /\ tier' = tier /\ suite' = suite /\ place' = "done"
    BY <2>1, GotoKeeps DEF Before
  <2>3. RepliesInv'
    BY <1>2, <2>1, <2>2, RepliesKeeps
  <2> QED
    BY <1>1, <2>2, <2>3
<1> QED
  BY <1>4, <1>5, <1>6, <1>7, <1>8, <1>9, <1>10, <1>11, <1>12
     DEF PageDriver

LEMMA PageOutsideStep ==
    ASSUME PagesInv, PageOutside
    PROVE  PagesInv' /\ (Ext \/ Web) /\ tier' = tier /\ suite' = suite
<1> USE DEF PagesInv
<1>1. /\ Ext /\ UNCHANGED suiteVars /\ UNCHANGED <<request, answers>>
  BY DEF PageOutside, RunnerReplies, RunnerExits, Drain
<1>2. SuiteInv' /\ tier' = tier /\ suite' = suite /\ place' = place
  BY <1>1, SameSuite DEF suiteVars
<1>3. /\ wire \in Seq(Nat) /\ pipe \in Seq(Nat) /\ queue \in Seq(Nat) /\ request \in Nat
      /\ wrote \subseteq 1..request /\ \A i \in 1..Len(wire) : wire[i] \in 1..request
  BY DEF RepliesInv
<1>4. CASE RunnerReplies
  <2>1. /\ runner = "up" /\ wire # <<>> /\ wire' = Tail(wire) /\ pipe' = Append(pipe, Head(wire))
        /\ wrote' = wrote \cup {Head(wire)} /\ UNCHANGED <<runner, queue, eof>>
    BY <1>4 DEF RunnerReplies
  <2>2. Head(wire) = wire[1] /\ 1 \in 1..Len(wire) /\ Head(wire) \in 1..request
    BY <1>3, <2>1
  <2>3. /\ wire' \in Seq(Nat) /\ Len(wire') = Len(wire) - 1
        /\ \A i \in 1..Len(wire') : wire'[i] = wire[i + 1] /\ i + 1 \in 1..Len(wire)
    BY <1>3, <2>1
  <2>4. \A i \in 1..Len(wire') : wire'[i] \in 1..request
    BY <1>3, <2>3
  <2>5. /\ pipe' \in Seq(Nat) /\ Len(pipe') = Len(pipe) + 1
        /\ pipe'[Len(pipe) + 1] = Head(wire) /\ \A i \in 1..Len(pipe) : pipe'[i] = pipe[i]
    BY <1>3, <2>1, <2>2
  <2>6. ~eof /\ wrote' \subseteq 1..request
    BY <1>3, <2>1, <2>2 DEF RepliesInv
  <2>7. ASSUME place = "reply", request \in wrote' PROVE UnderWay(request)'
    <3>1. CASE request = Head(wire)
      <4>1. Len(pipe) + 1 \in 1..Len(pipe') /\ pipe'[Len(pipe) + 1] = request
        BY <1>3, <2>5, <3>1
      <4> QED
        BY <1>1, <4>1 DEF UnderWay
    <3>2. CASE request # Head(wire)
      <4>1. UnderWay(request)
        BY <1>1, <2>1, <2>7, <3>2 DEF RepliesInv, UnderWay
      <4>2. \A i \in 1..Len(pipe) : i \in 1..Len(pipe') /\ pipe'[i] = pipe[i]
        BY <1>3, <2>5
      <4> QED
        BY <1>1, <2>1, <4>1, <4>2 DEF UnderWay
    <3> QED
      BY <3>1, <3>2
  <2>9. place = "write" =>
          request \notin wrote' /\ \A i \in 1..Len(wire') : wire'[i] # request
    BY <1>1, <2>1, <2>2, <2>3 DEF RepliesInv
  <2>8. RepliesInv'
    BY <1>1, <1>2, <1>3, <2>1, <2>3, <2>4, <2>5, <2>6, <2>7, <2>9
       DEF RepliesInv, Ext, UnderWay
  <2> QED
    BY <1>1, <1>2, <2>8
<1>5. CASE RunnerExits
  <2>1. runner' = "gone" /\ UNCHANGED <<wire, pipe, queue, eof, wrote>>
    BY <1>5 DEF RunnerExits
  <2>2. RepliesInv'
    BY <1>1, <1>2, <2>1, RepliesKeeps DEF RepliesInv
  <2> QED
    BY <1>1, <1>2, <2>2
<1>6. CASE Drain
  <2>1. UNCHANGED <<runner, wire, wrote>>
    BY <1>6 DEF Drain
  <2>2. CASE pipe = <<>>
    <3>1. runner = "gone" /\ UNCHANGED <<queue, pipe>> /\ eof' = TRUE
      BY <1>6, <2>2 DEF Drain
    <3>2. RepliesInv'
      BY <1>1, <1>2, <2>1, <2>2, <3>1 DEF RepliesInv, Ext
    <3> QED
      BY <1>1, <1>2, <3>2
  <2>3. CASE pipe # <<>>
    <3>1. queue' = Append(queue, Head(pipe)) /\ pipe' = Tail(pipe) /\ eof' = eof
      BY <1>6, <2>3 DEF Drain
    <3>2. Head(pipe) = pipe[1] /\ Head(pipe) \in Nat /\ ~eof
      BY <1>3, <2>3 DEF RepliesInv
    <3>3. /\ pipe' \in Seq(Nat) /\ Len(pipe') = Len(pipe) - 1
          /\ \A i \in 1..Len(pipe') : pipe'[i] = pipe[i + 1]
      BY <1>3, <2>3, <3>1
    <3>4. /\ queue' \in Seq(Nat) /\ Len(queue') = Len(queue) + 1
          /\ queue'[Len(queue) + 1] = Head(pipe) /\ \A i \in 1..Len(queue) : queue'[i] = queue[i]
      BY <1>3, <3>1, <3>2
    <3>5. ASSUME place = "reply", request \in wrote PROVE UnderWay(request)'
      <4>1. UnderWay(request)
        BY <1>1, <3>5 DEF RepliesInv, UnderWay
      <4>2. CASE \E i \in 1..Len(pipe) : pipe[i] = request
        <5>1. PICK i \in 1..Len(pipe) : pipe[i] = request
          BY <4>2
        <5>2. CASE i = 1
          <6>1. Len(queue) + 1 \in 1..Len(queue') /\ queue'[Len(queue) + 1] = request
            BY <1>3, <3>2, <3>4, <5>1, <5>2
          <6> QED
            BY <1>1, <6>1 DEF UnderWay
        <5>3. CASE i # 1
          <6>1. Len(pipe) \in Nat /\ Len(pipe') = Len(pipe) - 1
            BY <1>3, <3>3
          <6>2. i - 1 \in 1..Len(pipe') /\ (i - 1) + 1 = i
            BY <5>1, <5>3, <6>1
          <6>3. pipe'[i - 1] = pipe[(i - 1) + 1]
            BY <3>3, <6>2
          <6>4. i - 1 \in 1..Len(pipe') /\ pipe'[i - 1] = request
            BY <5>1, <6>2, <6>3
          <6> QED
            BY <1>1, <6>4 DEF UnderWay
        <5> QED
          BY <5>2, <5>3
      <4>3. CASE \E i \in 1..Len(queue) : queue[i] = request
        <5>1. PICK i \in 1..Len(queue) : queue[i] = request
          BY <4>3
        <5>2. i \in 1..Len(queue') /\ queue'[i] = request
          BY <1>3, <3>4, <5>1
        <5> QED
          BY <1>1, <5>2 DEF UnderWay
      <4> QED
        BY <4>1, <4>2, <4>3 DEF UnderWay
    <3>6. RepliesInv'
      BY <1>1, <1>2, <2>1, <3>1, <3>2, <3>3, <3>4, <3>5 DEF RepliesInv, Ext, UnderWay
    <3> QED
      BY <1>1, <1>2, <3>6
  <2> QED
    BY <2>2, <2>3
<1> QED
  BY <1>4, <1>5, <1>6 DEF PageOutside

-----------------------------------------------------------------------------
(* The drivers together, of which the tier of the run is the only one that  *)
(* takes a step.                                                            *)

LEMMA DriversStart == DriversInit => DriversInv
<1> SUFFICES ASSUME DriversInit PROVE DriversInv
  OBVIOUS
<1> USE DEF DriversInit
<1>1. SuiteInv
  BY RunsAssumption DEF SuiteInit, SuiteInv, AtCase, Before
<1>2. CapturedInv /\ TapsInv
  BY DEF BotInit, SuiteInit, CapturedInv, TapsInv
<1>6. AsksInv
  BY DEF BotInit, SuiteInit, AsksInv
<1>3. UpdatesInv
  BY DEF BotInit, UpdatesInv
<1>4. ChatInv
  <2>1. chat \in Seq(Messages) /\ \A i \in 1..Newest : ~chat[i].own
    <3> DEFINE first == [own |-> FALSE, of |-> 0, during |-> 0, text |-> "want", gone |-> FALSE]
    <3>1. first \in Messages /\ ~first.own
      BY DEF Messages, Texts
    <3>2. chat \in {<<>>, <<first>>}
      BY DEF LiveInit
    <3> HIDE DEF first
    <3>3. CASE chat = <<>>
      BY <3>3 DEF Newest
    <3>4. CASE chat = <<first>>
      <4>1. Len(chat) = 1 /\ chat[1] = first /\ chat \in Seq(Messages)
        BY <3>1, <3>4
      <4> QED
        BY <3>1, <4>1 DEF Newest
    <3> QED
      BY <3>2, <3>3, <3>4
  <2> QED
    BY <2>1 DEF LiveInit, SuiteInit, ChatInv, Swept, Messages
<1>5. RepliesInv
  BY DEF PageInit, SuiteInit, RepliesInv
<1> QED
  BY <1>1, <1>2, <1>3, <1>4, <1>5, <1>6 DEF DriversInv

LEMMA DriversKeep == DriversInv /\ [DriversNext]_driverVars => DriversInv'
<1> SUFFICES ASSUME DriversInv, [DriversNext]_driverVars PROVE DriversInv'
  OBVIOUS
<1> USE DEF DriversInv
<1>1. CASE UNCHANGED driverVars
  <2>1. UNCHANGED suiteVars /\ UNCHANGED botVars /\ UNCHANGED liveVars /\ UNCHANGED pageVars
    BY <1>1 DEF driverVars
  <2>2. SuiteInv' /\ tier' = tier /\ suite' = suite /\ k' = k /\ place' = place
    BY <2>1, SameSuite DEF suiteVars
  <2>3. CapturedInv'
    BY <2>1, <2>2 DEF CapturedInv, botVars, InBot, Agent, This
  <2>4. UpdatesInv'
    BY <2>1, <2>2 DEF UpdatesInv, botVars, InBot, UpdateId, ProbeId
  <2>5. ChatInv'
    BY <2>1, <2>2 DEF ChatInv, liveVars, Live, Newest, Swept
  <2>6. RepliesInv'
    BY <2>1, <2>2 DEF RepliesInv, pageVars, Ext
  <2>7. AsksInv' /\ TapsInv'
    BY <2>1, <2>2 DEF AsksInv, TapsInv, botVars, Agent
  <2> QED
    BY <2>2, <2>3, <2>4, <2>5, <2>6, <2>7
<1>2. CASE (BotDriver \/ BotOutside) /\ UNCHANGED <<liveVars, pageVars>>
  <2>1. BotInv' /\ InBot /\ tier' = tier
    BY <1>2, BotDriverStep, BotOutsideStep DEF BotInv
  <2>2. ~Live /\ ~Ext
    BY <2>1 DEF InBot, Live, Ext
  <2>3. AsksInv' /\ TapsInv'
    BY <1>2, AskStep, AskOutsideStep
  <2> QED
    BY <1>2, <2>1, <2>2, <2>3, LiveIdle, PageIdle DEF BotInv
<1>3. CASE (LiveDriver \/ BotMessage) /\ UNCHANGED <<botVars, pageVars>>
  <2>1. LiveInv' /\ Live /\ tier' = tier /\ suite' = suite
    BY <1>3, LiveDriverStep, BotMessageStep DEF LiveInv
  <2>2. ~InBot /\ ~Ext
    BY <2>1 DEF InBot, Live, Ext
  <2> QED
    BY <1>3, <2>1, <2>2, BotIdle, PageIdle DEF LiveInv
<1>4. CASE (PageDriver \/ PageOutside) /\ UNCHANGED <<botVars, liveVars>>
  <2>1. PagesInv' /\ (Ext \/ Web) /\ tier' = tier /\ suite' = suite
    BY <1>4, PageDriverStep, PageOutsideStep DEF PagesInv
  <2>2. ~InBot /\ ~Live
    BY <2>1 DEF InBot, Live, Ext, Web
  <2> QED
    BY <1>4, <2>1, <2>2, BotIdle, LiveIdle DEF PagesInv
<1> QED
  BY <1>1, <1>2, <1>3, <1>4 DEF DriversNext, DriverStep, Outside

(* Whatever the bot, the chat, the browser or the runner does, the drivers   *)
(* keep their invariant.                                                     *)
THEOREM DriversInvariant == DriversSpec => []DriversInv
<1> QED
  BY DriversStart, DriversKeep, PTL DEF DriversSpec

(* No case of a suite is judged on a reply, card or message of another one:  *)
(* what run_bot_suite, run_live_bot_suite and run_ext_suite read for a case  *)
(* came in its time, and a tap goes to a card of its own ask, or to a late   *)
(* one of an ask whose client has ended.                                     *)
THEOREM JudgedOnItsOwnEvidence == DriversSpec => []EvidenceIsTheCases
<1>1. ASSUME DriversInv, NEW t \in tapped
      PROVE  /\ suite[t.by].cards > 0 => t.during = t.by
             /\ t.of # t.by => t.of < t.by /\ asks[t.of] # "running"
  <2>1. /\ Agent /\ t.by \in 1..k /\ t.by <= Len(suite) /\ t.of \in 1..t.by /\ k \in Nat
        /\ suite[t.by].cards > 0 => t.during = t.by
    BY <1>1 DEF DriversInv, TapsInv, SuiteInv
  <2>2. t.of # t.by => t.of < t.by /\ t.of \in 1..Len(suite) /\ t.of # k
    BY <1>1, <2>1 DEF DriversInv, SuiteInv
  <2> QED
    BY <1>1, <2>1, <2>2 DEF DriversInv, AsksInv
<1>2. DriversInv => EvidenceIsTheCases
  BY <1>1 DEF DriversInv, SuiteInv, EvidenceIsTheCases, Own
<1> QED
  BY <1>2, DriversInvariant, PTL

LEMMA WrittenIsRead == RepliesInv => AnsweredBeforeExit
BY DEF RepliesInv, AnsweredBeforeExit, Exited

(* The fake keeps an update until the bot has handled it, disconnect deletes *)
(* what was sent to the live chat, and _read_reply finds the reply of a      *)
(* runner that has exited since.                                             *)
THEOREM NothingGetsLost == DriversSpec => []NothingIsLost
<1>1. DriversInv => NothingIsLost
  BY WrittenIsRead DEF DriversInv, UpdatesInv, ChatInv, NothingIsLost, UpdateIsNotLost,
     SentIsDeleted, Swept
<1> QED
  BY <1>1, DriversInvariant, PTL
=============================================================================
