------------------------------- MODULE QaRun --------------------------------
(* One run of `review qa` (modes/qa.py, qa/env.py, qa/executor.py): which      *)
(* route the request takes, the environment and the git worktree it brings up, *)
(* the server or tester it boots, the verdict it reads, and the clean-up --    *)
(* against the two things that can cut it short at any moment: a signal, whose *)
(* handler runs on the main thread (process.py, qa/env.py), and the backstop,  *)
(* which runs on a thread of its own (backstop.py).                            *)
EXTENDS Naturals, FiniteSets

CONSTANTS
    Requests,      \* the requests explored: a subset of Request
    MaxSignals,    \* signals the user or a supervisor sends (bound)
    MaxCases,      \* cases a transcript may count (bound)
    Said(_)        \* what the tester may write in answer to a request

Kinds == {"bot", "web", "ext", "backend"}
Drivers == {"bot", "web", "ext"}           \* kinds with a deterministic driver

Request ==
    [suites: BOOLEAN,                      \* some *.md holds a `## Case:` heading
     parses: BOOLEAN,                      \* qa.yaml parses (or is absent)
     argKind: Kinds \cup {"auto"}, cfgKind: Kinds \cup {"none"},
     looks: SUBSET Drivers,                \* markers found in the SUT's files
     blocks: SUBSET Drivers,               \* sut.bot / sut.web / sut.ext sections
     live: BOOLEAN, available: BOOLEAN,    \* Tier-2 driver; the driver's runtime
     negative: BOOLEAN, supported: BOOLEAN,  \* --max-cases < 0; a known tester
     server: BOOLEAN,                      \* the run boots a child of its own
     stage: {"none", "flag", "config", "ambient"},
     hook: BOOLEAN, compose: BOOLEAN, file: BOOLEAN, keep: BOOLEAN,
     check: {"none", "url", "service"},    \* sut.health
     inPlace: BOOLEAN, strict: BOOLEAN,
     tree: {"clean-git", "dirty", "unknown", "clean-nongit"}]

ASSUME RequestsAssumption == Requests \subseteq Request
ASSUME BoundsAssumption == MaxSignals \in Nat /\ MaxCases \in Nat

Threads == {"main", "signal", "backstop"}

VARIABLES
    c,        \* the request
    pc,       \* where the main thread is; an operation in flight is a place
    mode,     \* EnvHandle.mode: whose environment the tests run against
    env,      \* the environment outside: "down", "partial", "up"
    pending,  \* the handle is in _PENDING_TEARDOWNS
    latch,    \* EnvHandle._torn_down
    td,       \* where each thread is in EnvHandle.tear_down
    wt,       \* the isolated worktree: "none", "partial", "present"
    child,    \* "none", "running"
    listed,   \* the child is in _LIVE_CHILDREN
    trust,    \* the isolated worktree is a trusted project in ~/.claude.json
    signal,   \* what the signal handler is running for: "none", SIGINT, SIGTERM
    sent,     \* signals sent so far
    bstop,    \* the backstop thread: "armed", "kill", "sweep"
    lost,     \* history: what was cut short, left on purpose, or missing when the
              \* result was read
    out,      \* the transcript the run parsed
    ret,      \* the code the run will return
    exit      \* "none" while the process lives, then how it ended

vars == <<c, pc, mode, env, pending, latch, td, wt, child, listed, trust, signal, sent,
          bstop, lost, out, ret, exit>>

-----------------------------------------------------------------------------
(* Routing                                                                    *)

DetectKind(r) ==
    IF "ext" \in r.looks THEN "ext"
    ELSE IF "web" \in r.looks THEN "web"
    ELSE IF "bot" \in r.looks THEN "bot" ELSE "backend"

ResolveKind(r) ==
    IF r.argKind # "auto" THEN r.argKind
    ELSE IF r.parses /\ r.cfgKind # "none" THEN r.cfgKind ELSE DetectKind(r)

\* A driver takes the run when the kind is its own and its section is present.
DriverTakes(r) == r.parses /\ ResolveKind(r) \in r.blocks

EnvDeclared(r) == r.stage # "none" \/ r.compose \/ r.hook

Route(r) ==
    IF ~r.suites THEN "no_suites"
    ELSE IF DriverTakes(r) THEN "driver"
    ELSE IF ~r.parses THEN "bad_config"
    ELSE IF EnvDeclared(r) THEN "env" ELSE "bare"

Driving(kind) == Route(c) = "driver" /\ ResolveKind(c) = kind
Testing == Route(c) \in {"bare", "env"}

(* The verdict read back from a transcript                                    *)

Verdicts == {"PASS", "FAIL", "BLOCKED", "UNKNOWN"}
Count == 0..MaxCases

\* What a transcript says: the last block's verdict ("UNKNOWN" when there is no
\* block, or only the prompt's placeholder line), its CASES: line, the number of
\* severity tags, and the exit status of the process that wrote it.
Transcript ==
    [by: {"tester", "driver"}, claim: Verdicts, tally: BOOLEAN,
     run: Count, passed: Count, failed: Count, blocked: Count,
     findings: 0..1, rc: 0..1]

NoTranscript ==
    [by |-> "driver", claim |-> "UNKNOWN", tally |-> FALSE, run |-> 0, passed |-> 0,
     failed |-> 0, blocked |-> 0, findings |-> 0, rc |-> 0]

\* A PASS needs a case that ran, a tally that agrees with it, and a tester that
\* exited 0; a FAIL needs the clean exit too.
HonorPass(v, t) == IF v = "PASS" /\ ~(t.tally /\ t.run >= 1) THEN "UNKNOWN" ELSE v

Reconcile(v, t) ==
    IF v # "PASS" \/ ~t.tally THEN v
    ELSE IF t.failed >= 1 THEN "FAIL"
    ELSE IF t.blocked >= 1 THEN "BLOCKED"
    ELSE IF t.run # t.passed + t.failed + t.blocked \/ t.passed # t.run THEN "UNKNOWN"
    ELSE v

DowngradeOnFailure(v, t) ==
    IF t.rc # 0 /\ v \in {"PASS", "FAIL"} THEN "UNKNOWN" ELSE v

OutcomeVerdict(t) ==
    IF t.by = "driver" THEN t.claim
    ELSE DowngradeOnFailure(Reconcile(HonorPass(t.claim, t), t), t)

ExitCode(v, findings, strict) ==
    IF v = "UNKNOWN" THEN "unproven"
    ELSE IF v = "BLOCKED" THEN "blocked"
    ELSE IF strict /\ (v = "FAIL" \/ findings > 0) THEN "findings" ELSE "ok"

\* A driver's own verdict over its case results, and the transcript it renders.
SuiteVerdict(p, f, b) ==
    IF p + f + b = 0 THEN "BLOCKED"
    ELSE IF f > 0 THEN "FAIL" ELSE IF b > 0 THEN "BLOCKED" ELSE "PASS"

Tallied(by, claim, p, f, b, findings, rc) ==
    [by |-> by, claim |-> claim, tally |-> TRUE, run |-> p + f + b, passed |-> p,
     failed |-> f, blocked |-> b, findings |-> findings, rc |-> rc]

CaseTranscript(p, f, b) ==
    Tallied("driver", SuiteVerdict(p, f, b), p, f, b, IF f > 0 THEN 1 ELSE 0, 0)

DriverTranscripts ==
    {t \in {CaseTranscript(p, f, b) : p, f, b \in Count} : t.run <= MaxCases}

BlockedTranscript == Tallied("driver", "BLOCKED", 0, 0, 0, 1, 0)

ASSUME SaidAssumption ==
    \A r \in Requests : \A t \in Said(r) : t \in Transcript /\ t.by = "tester"

LaunchFailed == Tallied("tester", "BLOCKED", 0, 0, 0, 0, 1)

-----------------------------------------------------------------------------
(* The clean-up still due from a place of the main thread                     *)

TeardownOrExit == IF mode = "owned" THEN "teardown" ELSE "exit"
UnisolateOr(next) == IF wt = "present" THEN "unisolate" ELSE next

Enter(place) ==
    /\ pc' = place
    /\ td' = [td EXCEPT !["main"] = IF place = "teardown" THEN "check" ELSE "none"]

\* The main thread runs unless the handler has interrupted it.
Running == exit = "none" /\ signal = "none"
At(place) == Running /\ pc = place

\* Registered after the backstop took its snapshots: its sweep cannot see it.
LateFor(places) == IF bstop \in places THEN {"raced"} ELSE {}

\* The process ends while the backstop's thread is inside tear_down.
OrphanedSweep == IF td["backstop"] \in {"set", "down"} THEN {"raced"} ELSE {}

\* What the cases need while they run, as far as it is this run's to provide, and
\* what of it is not there.
Needs == {"environment", "server", "tree"}
LiveChat == Driving("bot") /\ c.live
Boots == ~LiveChat /\ (Driving("web") => c.server)

Missing ==
    {n \in Needs :
       CASE n = "environment" -> /\ Route(c) = "env" /\ mode \notin {"reused", "noop"}
                                 /\ ~(mode = "owned" /\ env = "up")
         [] n = "server" -> Boots /\ child # "running"
         [] n = "tree" -> ~LiveChat /\ ~c.inPlace /\ wt # "present"}

sigVars == <<signal, sent, bstop, exit>>
envVars == <<mode, env, pending, latch>>
childVars == <<child, listed>>

TypeOK ==
    /\ c \in Requests
    /\ pc \in {"start", "stage", "up", "updown", "register", "gate", "seed", "args",
               "isolate", "boot", "launch", "booted", "drive", "reap", "revoke",
               "unisolate", "teardown", "exit"}
    /\ mode \in {"none", "reused", "noop", "owned"}
    /\ env \in {"down", "partial", "up"}
    /\ pending \in BOOLEAN /\ latch \in BOOLEAN /\ listed \in BOOLEAN
    /\ trust \in BOOLEAN
    /\ td \in [Threads -> {"none", "check", "set", "down", "unregister"}]
    /\ wt \in {"none", "partial", "present"} /\ child \in {"none", "running"}
    /\ signal \in {"none", "SIGINT", "SIGTERM"} /\ sent \in 0..MaxSignals
    /\ bstop \in {"armed", "kill", "sweep"}
    /\ lost \subseteq {"kept", "up", "down", "downfailed", "add", "remove", "boot", "trust",
                       "deadman", "raced"} \cup Needs
    /\ out \in Transcript
    /\ ret \in {"none", "usage", "no_suites", "no_env", "unhealthy", "blocked",
                "unproven", "findings", "ok", "interrupted"}
    /\ exit \in {"none", "usage", "no_suites", "no_env", "unhealthy", "blocked",
                 "unproven", "findings", "ok", "interrupted", "terminated", "backstop"}

Init ==
    /\ c \in Requests
    /\ pc = "start" /\ mode = "none" /\ env = "down"
    /\ pending = FALSE /\ latch = FALSE
    /\ td = [t \in Threads |-> "none"]
    /\ wt = "none" /\ child = "none" /\ listed = FALSE /\ trust = FALSE
    /\ signal = "none" /\ sent = 0 /\ bstop = "armed"
    /\ lost = {} /\ out = NoTranscript /\ ret = "none" /\ exit = "none"

-----------------------------------------------------------------------------
(* The main thread: routing and bring-up                                      *)

Start ==
    /\ At("start")
    /\ CASE Route(c) = "no_suites" -> Enter("exit") /\ ret' = "no_suites"
         [] Route(c) = "bad_config" -> Enter("exit") /\ ret' = "usage"
         [] Route(c) = "env" -> Enter("stage") /\ ret' = ret
         [] OTHER -> Enter("args") /\ ret' = ret
    /\ UNCHANGED <<c, envVars, wt, childVars, trust, sigVars, lost, out>>

\* The hook wins over compose; with neither, a stage that only the environment
\* names has already been ignored and the tester boots the SUT itself.
BringUpLocal ==
    IF c.hook \/ c.compose
    THEN Enter("up") /\ env' = "partial" /\ UNCHANGED <<mode, ret>>
    ELSE mode' = "noop" /\ Enter("args") /\ UNCHANGED <<env, ret>>

\* bring_up_env: a reachable stage is reused; a declared one that does not answer
\* ends the run, one that is only in the environment is ignored.
ResolveStage(reachable) ==
    /\ At("stage")
    /\ reachable => c.stage # "none"
    /\ IF reachable THEN mode' = "reused" /\ Enter("args") /\ UNCHANGED <<env, ret>>
       ELSE IF c.stage \in {"flag", "config"}
       THEN Enter("exit") /\ ret' = "unhealthy" /\ UNCHANGED <<mode, env>>
       ELSE BringUpLocal
    /\ UNCHANGED <<c, pending, latch, wt, childVars, trust, sigVars, lost, out>>

\* `up` ends, or its timeout ends it; a failed one is followed by a best-effort
\* `down` whose result nobody looks at.
UpReturns(ok) ==
    /\ env' = IF ok THEN "up" ELSE "partial"
    /\ Enter(IF ok THEN "register" ELSE "updown")
    /\ ret' = ret

HookUp(ok) ==
    /\ At("up") /\ c.hook
    /\ UpReturns(ok)
    /\ UNCHANGED <<c, mode, pending, latch, wt, childVars, trust, sigVars, lost, out>>

\* A compose file that is not there ends the bring-up before `up` is run.
ComposeUp(ok) ==
    /\ At("up") /\ ~c.hook
    /\ IF c.file THEN UpReturns(ok)
       ELSE Enter("exit") /\ ret' = "unhealthy" /\ env' = "down"
    /\ UNCHANGED <<c, mode, pending, latch, wt, childVars, trust, sigVars, lost, out>>

DownAfterFailedUp(ok) ==
    /\ At("updown")
    /\ env' = IF ok THEN "down" ELSE env
    /\ lost' = IF ok THEN lost ELSE lost \cup {"downfailed"}
    /\ Enter("exit") /\ ret' = "unhealthy"
    /\ UNCHANGED <<c, mode, pending, latch, wt, childVars, trust, sigVars, out>>

\* Mutant: the handle is returned without being registered.
MutRegisterPending ==
    /\ At("register")
    /\ Enter("gate")
    /\ UNCHANGED <<c, envVars, wt, childVars, trust, sigVars, lost, out, ret>>

RegisterPending ==
    /\ At("register")
    /\ pending' = TRUE
    /\ lost' = lost \cup LateFor({"sweep"})
    /\ Enter("gate")
    /\ UNCHANGED <<c, mode, env, latch, wt, childVars, trust, sigVars, out, ret>>

\* A health check or a seed script that fails: keep the environment for triage,
\* or tear it down, and end the run either way.
GiveUpOnEnv ==
    /\ ret' = "unhealthy"
    /\ IF c.keep THEN pending' = FALSE /\ lost' = lost \cup {"kept"} /\ Enter("exit")
       ELSE Enter("teardown") /\ UNCHANGED <<pending, lost>>
    /\ UNCHANGED mode

\* A check of a compose service cannot pass in an environment a hook brought up.
MayBeHealthy(healthy) ==
    /\ c.check = "none" => healthy
    /\ c.check = "service" /\ c.hook => ~healthy

Gate(healthy) ==
    /\ At("gate") /\ MayBeHealthy(healthy)
    /\ IF healthy THEN Enter("seed") /\ UNCHANGED <<mode, pending, lost, ret>>
       ELSE GiveUpOnEnv
    /\ UNCHANGED <<c, env, latch, wt, childVars, trust, sigVars, out>>

Seed(ok) ==
    /\ At("seed")
    /\ IF ok THEN mode' = "owned" /\ Enter("args") /\ UNCHANGED <<pending, lost, ret>>
       ELSE GiveUpOnEnv
    /\ UNCHANGED <<c, env, latch, wt, childVars, trust, sigVars, out>>

(* The main thread: the run itself                                            *)

Refuse(code) == ret' = code /\ Enter(TeardownOrExit)
Block == Refuse("blocked") /\ out' = BlockedTranscript

\* _guard_in_place: a tree that is dirty, or whose state git cannot tell, is
\* refused; otherwise the run goes to an isolated worktree, or straight on.
Proceed ==
    IF c.inPlace /\ c.tree \in {"dirty", "unknown"} THEN Refuse("usage")
    ELSE ret' = ret /\ Enter(IF c.inPlace THEN "boot" ELSE "isolate")

ArgumentsSeen ==
    /\ wt' = IF pc' = "isolate" /\ c.tree # "clean-nongit" THEN "partial" ELSE wt
    /\ UNCHANGED <<c, envVars, childVars, trust, sigVars, lost>>

BotArguments ==
    /\ At("args") /\ Driving("bot")
    /\ IF c.negative THEN Refuse("usage") /\ out' = out
       ELSE IF c.live /\ ~c.available THEN Block
       ELSE IF c.live THEN Enter("drive") /\ UNCHANGED <<ret, out>>
       ELSE Proceed /\ out' = out
    /\ ArgumentsSeen

\* The live web and extension tiers are gates only: they report BLOCKED.
WebArguments ==
    /\ At("args") /\ Driving("web")
    /\ IF c.negative THEN Refuse("usage") /\ out' = out
       ELSE IF c.live \/ ~c.available THEN Block
       ELSE Proceed /\ out' = out
    /\ ArgumentsSeen

ExtArguments ==
    /\ At("args") /\ Driving("ext")
    /\ IF c.negative THEN Refuse("usage") /\ out' = out
       ELSE IF c.live \/ ~c.available THEN Block
       ELSE Proceed /\ out' = out
    /\ ArgumentsSeen

TesterArguments ==
    /\ At("args") /\ Testing
    /\ IF c.negative \/ ~c.supported THEN Refuse("usage") ELSE Proceed
    /\ out' = out
    /\ ArgumentsSeen

\* IsolatedSut.__enter__: `git worktree add`; a failed one is cleaned up at once.
Isolate(ok) ==
    /\ At("isolate")
    /\ ok => wt = "partial"
    /\ IF ok THEN wt' = "present" /\ Enter("boot") /\ ret' = ret
       ELSE wt' = "none" /\ Refuse("blocked")
    /\ UNCHANGED <<c, envVars, childVars, trust, sigVars, lost, out>>

\* Popen of the dev server, the bot or the VS Code runner. One that cannot be
\* started is a BLOCKED transcript.
Popen(ok) ==
    /\ IF ok THEN child' = "running" /\ Enter("booted") /\ UNCHANGED <<out, ret>>
       ELSE /\ out' = BlockedTranscript /\ ret' = "blocked"
            /\ Enter(UnisolateOr(TeardownOrExit)) /\ child' = child
    /\ UNCHANGED <<c, envVars, wt, listed, trust, sigVars, lost>>

BootBot(ok) == At("boot") /\ Driving("bot") /\ Popen(ok)
LaunchRunner(ok) == At("boot") /\ Driving("ext") /\ Popen(ok)
BootServer(ok) == At("boot") /\ Driving("web") /\ c.server /\ Popen(ok)

\* sut.web without a command drives a site that is already up.
NoServer ==
    /\ At("boot") /\ Driving("web") /\ ~c.server
    /\ Enter("drive")
    /\ UNCHANGED <<c, envVars, wt, childVars, trust, sigVars, lost, out, ret>>

\* claude's worktree is trusted in ~/.claude.json before the tester's `try`;
\* codex, or a machine without that file, needs none.
TrustWorkspace ==
    /\ At("boot") /\ Testing
    /\ trust' \in {FALSE, ~c.inPlace}
    /\ Enter("launch")
    /\ UNCHANGED <<c, envVars, wt, childVars, sigVars, lost, out, ret>>

AfterTester == IF trust THEN "revoke" ELSE UnisolateOr(TeardownOrExit)

LaunchTester(ok) ==
    /\ At("launch")
    /\ IF ok THEN child' = "running" /\ Enter("booted") /\ UNCHANGED <<out, ret>>
       ELSE /\ out' = LaunchFailed /\ ret' = "blocked"
            /\ Enter(AfterTester) /\ child' = child
    /\ UNCHANGED <<c, envVars, wt, listed, trust, sigVars, lost>>

RegisterChild ==
    /\ At("booted")
    /\ listed' = TRUE
    /\ lost' = lost \cup LateFor({"sweep"})
    /\ Enter("drive")
    /\ UNCHANGED <<c, envVars, wt, child, trust, sigVars, out, ret>>

\* A transcript is parsed and decides the code.
Parse(transcripts) ==
    /\ At("drive")
    /\ out' \in transcripts
    /\ ret' = ExitCode(OutcomeVerdict(out'), out'.findings, c.strict)
    /\ lost' = lost \cup Missing
    /\ Enter("reap")
    /\ UNCHANGED <<c, envVars, wt, childVars, trust, sigVars>>

DriveBot == Driving("bot") /\ ~c.live /\ Parse(DriverTranscripts \cup {BlockedTranscript})
DriveLiveBot == Driving("bot") /\ c.live /\ Parse(DriverTranscripts \cup {BlockedTranscript})
DriveWeb == Driving("web") /\ Parse(DriverTranscripts \cup {BlockedTranscript})
DriveExt == Driving("ext") /\ Parse(DriverTranscripts \cup {BlockedTranscript})
RunTester == Testing /\ Parse(Said(c))

\* reap()/_terminate: the group is killed first and unlisted last.
Reap ==
    /\ At("reap")
    /\ child' = IF listed THEN "none" ELSE child
    /\ listed' = FALSE
    /\ Enter(AfterTester)
    /\ UNCHANGED <<c, envVars, wt, trust, sigVars, lost, out, ret>>

\* The tester's `finally`.
RevokeTrust ==
    /\ At("revoke")
    /\ trust' = FALSE
    /\ Enter(UnisolateOr(TeardownOrExit))
    /\ UNCHANGED <<c, envVars, wt, childVars, sigVars, lost, out, ret>>

\* IsolatedSut.__exit__: remove --force, then rmtree, then prune if need be.
Unisolate ==
    /\ At("unisolate")
    /\ wt' = "none"
    /\ Enter(TeardownOrExit)
    /\ UNCHANGED <<c, envVars, childVars, trust, sigVars, lost, out, ret>>

\* atexit runs what is still pending; a teardown that the backstop's thread has
\* begun is left to its orphaned `down`.
Exit ==
    /\ At("exit")
    /\ IF pending /\ ~latch
       THEN Enter("teardown") /\ UNCHANGED <<exit, lost>>
       ELSE /\ exit' = ret /\ UNCHANGED <<pc, td>>
            /\ lost' = lost \cup OrphanedSweep
    /\ UNCHANGED <<c, envVars, wt, childVars, trust, signal, sent, bstop, out, ret>>

-----------------------------------------------------------------------------
(* EnvHandle.tear_down, by whichever thread                                   *)

MayRun(t) ==
    /\ exit = "none"
    /\ t = "main" => signal = "none"
    /\ t = "signal" => signal # "none"

\* The main thread leaves its `finally` when tear_down has returned.
TornDown(t) == pc' = IF t = "main" THEN "exit" ELSE pc

TearDownCheck(t) ==
    /\ MayRun(t) /\ td[t] = "check"
    /\ td' = [td EXCEPT ![t] = IF latch THEN "none" ELSE "set"]
    /\ IF latch THEN TornDown(t) ELSE pc' = pc
    /\ UNCHANGED <<c, envVars, wt, childVars, trust, sigVars, lost, out, ret>>

TearDownSet(t) ==
    /\ MayRun(t) /\ td[t] = "set"
    /\ latch' = TRUE
    /\ td' = [td EXCEPT ![t] = "down"]
    /\ UNCHANGED <<c, pc, mode, env, pending, wt, childVars, trust, sigVars, lost, out, ret>>

\* `down` returns; a failed or timed-out one is not looked at.
TearDownRun(t, ok) ==
    /\ MayRun(t) /\ td[t] = "down"
    /\ env' = IF ok THEN "down" ELSE env
    /\ lost' = IF ok THEN lost ELSE lost \cup {"downfailed"}
    /\ td' = [td EXCEPT ![t] = "unregister"]
    /\ UNCHANGED <<c, pc, mode, pending, latch, wt, childVars, trust, sigVars, out, ret>>

TearDownUnregister(t) ==
    /\ MayRun(t) /\ td[t] = "unregister"
    /\ pending' = FALSE
    /\ td' = [td EXCEPT ![t] = "none"]
    /\ TornDown(t)
    /\ UNCHANGED <<c, mode, env, latch, wt, childVars, trust, sigVars, lost, out, ret>>

-----------------------------------------------------------------------------
(* Signals                                                                    *)

\* What a signal that ends, or unwinds, the operation in flight leaves undone.
CutShort ==
    (IF pc \in {"up", "register"} THEN {"up"} ELSE {})
      \cup (IF pc = "updown" \/ td["main"] = "down" \/ td["signal"] = "down"
            THEN {"down"} ELSE {})
      \cup (IF pc = "isolate" /\ wt # "none" THEN {"add"} ELSE {})
      \cup (IF pc = "unisolate" THEN {"remove"} ELSE {})
      \cup (IF pc = "booted" THEN {"boot"} ELSE {})
      \cup (IF pc \in {"launch", "revoke"} /\ trust THEN {"trust"} ELSE {})

\* The handler is entered: the pending teardowns first, then the children.
SignalArrives(s) ==
    /\ Running /\ sent < MaxSignals
    /\ signal' = s /\ sent' = sent + 1
    /\ td' = [td EXCEPT !["signal"] = IF pending THEN "check" ELSE "none"]
    /\ UNCHANGED <<c, pc, envVars, wt, childVars, trust, bstop, lost, out, ret, exit>>

\* Mutant: the exception is swallowed where it is raised.
MutUnwound == pc

\* Where the main thread goes on when KeyboardInterrupt is raised in it: the
\* `finally` blocks and context managers entered and not yet left.
Unwound ==
    CASE pc \in {"start", "stage", "up", "updown", "register", "gate", "seed", "exit",
                 "teardown"} -> "exit"
      [] pc \in {"args", "isolate", "unisolate"} -> TeardownOrExit
      [] pc \in {"boot", "launch", "revoke"} -> UnisolateOr(TeardownOrExit)
      [] pc \in {"booted", "reap"} -> AfterTester
      [] pc = "drive" -> "reap"

\* kill_live_children, then the previous disposition: SIGINT raises, SIGTERM kills.
\* A `down` that the exception or the death meets is cut short.
Chain(s) ==
    /\ child' = IF listed THEN "none" ELSE child
    /\ lost' = lost \cup CutShort \cup (IF s = "SIGTERM" THEN OrphanedSweep ELSE {})
    /\ IF s = "SIGINT"
       THEN /\ pc' = Unwound
            /\ ret' = "interrupted" /\ exit' = exit
            /\ pending' = (pending /\ "down" \notin {td["main"], td["signal"]})
            /\ td' = [td EXCEPT !["signal"] = "none",
                                !["main"] = IF Unwound = "teardown" THEN "check" ELSE "none"]
       ELSE exit' = "terminated" /\ UNCHANGED <<pc, ret, pending, td>>
    /\ signal' = "none"
    /\ UNCHANGED <<c, mode, env, latch, wt, listed, trust, bstop, out>>

\* Mutant: the handler waits for the lock the interrupted thread may hold.
MutHandlerEnds ==
    /\ exit = "none" /\ signal # "none" /\ td["signal"] = "none"
    /\ td["main"] # "unregister"
    /\ Chain(signal)
    /\ sent' = sent

HandlerEnds ==
    /\ exit = "none" /\ signal # "none" /\ td["signal"] = "none"
    /\ Chain(signal)
    /\ sent' = sent

\* A second signal while the handler's `down` runs finds the latch set: it goes
\* straight to the children and the previous disposition.
SecondSignal(s) ==
    /\ exit = "none" /\ signal # "none" /\ td["signal"] = "down"
    /\ sent < MaxSignals
    /\ Chain(s)
    /\ sent' = sent + 1

-----------------------------------------------------------------------------
(* The backstop thread                                                        *)

\* The ceiling is reached: children first, then the pending teardowns, then exit.
BackstopFires ==
    /\ exit = "none" /\ bstop = "armed"
    /\ bstop' = "kill"
    /\ UNCHANGED <<c, pc, envVars, td, wt, childVars, trust, signal, sent, lost, out, ret, exit>>

BackstopKills ==
    /\ exit = "none" /\ bstop = "kill"
    /\ child' = IF listed THEN "none" ELSE child
    /\ bstop' = "sweep"
    /\ td' = [td EXCEPT !["backstop"] = IF pending THEN "check" ELSE "none"]
    /\ UNCHANGED <<c, pc, envVars, wt, listed, trust, signal, sent, lost, out, ret, exit>>

\* os._exit ends every thread where it stands. What the main thread brought up
\* after the sweep, or was still taking down, is left.
Dies(why) ==
    /\ exit' = "backstop"
    /\ lost' = lost \cup CutShort \cup why
    /\ UNCHANGED <<c, pc, envVars, td, wt, childVars, trust, signal, sent, bstop, out, ret>>

BackstopExits ==
    /\ exit = "none" /\ bstop = "sweep" /\ td["backstop"] = "none"
    /\ Dies({})

\* The dead-man timer ends a sweep that takes longer than three seconds.
DeadMan ==
    /\ exit = "none" /\ bstop \in {"kill", "sweep"}
    /\ Dies({"deadman"})

-----------------------------------------------------------------------------
MainStep ==
    \/ Start \/ RegisterPending
    \/ BotArguments \/ WebArguments \/ ExtArguments \/ TesterArguments
    \/ NoServer \/ TrustWorkspace \/ RegisterChild
    \/ DriveBot \/ DriveLiveBot \/ DriveWeb \/ DriveExt \/ RunTester
    \/ Reap \/ RevokeTrust \/ Unisolate \/ Exit
    \/ \E ok \in BOOLEAN :
         \/ ResolveStage(ok) \/ HookUp(ok) \/ ComposeUp(ok) \/ DownAfterFailedUp(ok)
         \/ Gate(ok) \/ Seed(ok) \/ Isolate(ok)
         \/ BootBot(ok) \/ LaunchRunner(ok) \/ BootServer(ok) \/ LaunchTester(ok)

TearDownStep(t) ==
    \/ TearDownCheck(t) \/ TearDownSet(t) \/ TearDownUnregister(t)
    \/ \E ok \in BOOLEAN : TearDownRun(t, ok)

Next ==
    \/ MainStep \/ HandlerEnds \/ BackstopFires \/ BackstopKills \/ BackstopExits
    \/ DeadMan
    \/ \E t \in Threads : TearDownStep(t)
    \/ \E s \in {"SIGINT", "SIGTERM"} : SignalArrives(s) \/ SecondSignal(s)

\* The operations of the main thread and of the handler have timeouts of their own, but
\* a driver may hang in a call without one (Unbounded in QaDrivers): the code bounds
\* neither the write to a client or a runner nor the close of a session or a browser.
DriverMayHang == pc = "drive" /\ ~Testing

Spec ==
    /\ Init /\ [][Next]_vars
    /\ WF_vars(~DriverMayHang /\ MainStep) /\ WF_vars(HandlerEnds)
    /\ \A t \in Threads : WF_vars(TearDownStep(t))

-----------------------------------------------------------------------------
(* Properties                                                                 *)

\* Every way a run can end takes down the environment it brought up, or has a
\* reason not to: kept for triage, a `down` that failed, a signal
\* inside `up` or `down`, the dead-man, an environment registered after the sweep.
EnvIsTornDown ==
    exit # "none" /\ env # "down"
      => lost \cap {"kept", "downfailed", "up", "down", "deadman", "raced"} # {}

\* No dev server, bot, VS Code or tester CLI outlives the run, unless it was
\* started and not yet listed when the end came, or listed after the backstop's
\* snapshot.
ServerIsReaped ==
    exit # "none" /\ child = "running" => lost \cap {"boot", "raced", "deadman"} # {}

\* The isolated worktree and its trust entry are gone after every return and every
\* interrupt outside their making and unmaking; only a death that unwinds nothing
\* leaves them.
WorktreeIsRemoved ==
    exit \notin {"none", "terminated", "backstop"}
      => /\ wt # "none" => lost \cap {"add", "remove"} # {}
         /\ trust => "trust" \in lost

\* The handler that interrupts a `down`, or the `finally` that follows it, does
\* not run it again: two threads are in `down` only once the backstop has fired.
OneThreadTearsDown ==
    bstop = "armed" => Cardinality({t \in Threads : td[t] = "down"}) <= 1

\* When the run has ended nothing it brought up is left: not the environment, not a
\* server or a tester, not the worktree or its trust entry; and no two threads took
\* the environment down at once.
NothingIsLeft == EnvIsTornDown /\ ServerIsReaped /\ WorktreeIsRemoved /\ OneThreadTearsDown

\* A run that ends with a result read it while what the cases ran against was there
\* -- the environment it had brought up, checked and seeded, its server or tester,
\* its worktree -- whatever signals came: only the backstop's sweep may take them
\* from under a run that still returns. A zero exit is the word of a driver, or of a
\* tester that exited cleanly, and only under --strict that every case passed.
ResultIsOfTheRun ==
    /\ exit \in {"ok", "findings"} /\ lost \cap Needs # {} => bstop = "sweep"
    /\ exit = "ok" => out.rc = 0 /\ out.claim \in {"PASS", "FAIL"}
    /\ exit = "ok" /\ c.strict =>
         out.claim = "PASS" /\ out.run >= 1 /\ out.passed = out.run /\ out.findings = 0

\* Whatever happens the run ends, or its driver hangs for ever and no signal comes.
RunEnds == <>(exit # "none") \/ <>[]DriverMayHang
=============================================================================
