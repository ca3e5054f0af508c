# A TLA+ verification of review-cli

`review` sends a diff, a plan or a question to a panel of language models and brings
their verdicts back. It is a command line program, but most of what can go wrong in it is
concurrent: a panel is a pool of threads over child processes, a review may run detached
from its caller, its result certifies a git index that other sessions change meanwhile,
several reviews share files of cooldowns and logs, a QA run brings up an environment that
has to be gone afterwards, and the spec reviewer is a browser, a server, an agent and a file.

This directory holds models of those parts in TLA+, TLC runs that check them on small
instances, and proofs, checked by TLAPS, of what holds for all instances. Paths below are
relative to `src/reviewlib/` unless they say otherwise. `PROJECT.json` maps each definition
of each model to the lines it stands for.

- [1. The system](#1-the-system)
- [2. The modules](#2-the-modules)
- [3. The runs, their bounds and their fairness](#3-the-runs-their-bounds-and-their-fairness)
- [4. Where the code and its words disagree](#4-where-the-code-and-its-words-disagree)
- [5. What is proved](#5-what-is-proved)
- [6. What is not modelled](#6-what-is-not-modelled)
- [7. Plan](#7-plan)

## 1. The system

### Components, their state, and how they meet

| component | code | state it keeps | operations | talks to |
|---|---|---|---|---|
| board failover | `panel.py` `run_board_with_failover` | the round, the reserve queue, results, the run-stats tally and who owns it, the board deadline | start, run a round, judge, promote, return, raise | seat threads, run statistics, process runner (deadline) |
| seat retry | `panel.py` `run_panel_with_retry`, `retry.py` | per seat: provider chain, calls, timeouts | call, retry, switch provider, give up | provider cache, backend adapters |
| provider chains | `provider_failover.py` | `last-provider.json` | build a chain, remember, forget | seats of this and of other processes |
| process runner | `process.py` `_run_streamed` | semaphore, registry of live children, each child's clocks | acquire, spawn, drain, poll, kill, clean up | children, the backstop (which kills the registry) |
| seat cooldowns | `seat_cooldown.py` | a JSON file shared by all processes, a lock a process and a lock of the file | record, escalate, expire, clear | seats, board selection |
| backend adapters | `backends.py` | what each process was told about accounts, the trusted directories of the claude CLI | pass the gates, call, read the result, settle | cooldowns, process runner, HTTP providers |
| board selection | `config.py`, `pool_guard.py` | none | pick pool, reserve, roles | cooldowns |
| commit gate and checkpoint | `modes/review.py`, `cli.py`, the hook in `install.py` | index, HEAD, `review-stamp`, `review-stamp-diff`, marker | read the diff, certify, recheck, commit, verify, undo | git, hooks, other sessions |
| detached jobs | `jobs.py`, `cli.py` `_spawn_detached_job` | one JSON record a job | spawn, record pid, finish, poll, relabel | backstop, pollers in other processes |
| run backstop | `backstop.py` | a timer thread | fire, reap, record, exit | process runner, jobs |
| spec-web drafts | `specweb/static/app.js`, `specweb/store.py` | composer, token counter, autosave timer; the draft map and its tokens | type, autosave, close, submit, delete, reload | server, other tabs |
| spec-web review | `specweb/server.py`, `store.py`, `deliver.py`, `cli.py` | the thread of notes, `last_submit`, the submit queue, a watcher | add, edit, reply, resolve, reopen, delete, import, submit, watch | the agent (stdout, tmux), Telegram |
| quorum, brainstorm, sessions | `modes/quorum.py`, `modes/brainstorm.py`, `panel.py`, `sessions.py` | an append-only session log | rounds, moderator's verdict, resume | panel |
| QA run | `modes/qa.py`, `qa/env.py`, `qa/executor.py`, `qa/web_harness.py` | the registry of environments, the pending one, a server, a worktree, signal handlers | route, bring up, gate, seed, run, tear down | docker, git, a tester, the backstop |
| QA drivers | `qa/bot_driver.py`, `bot_harness.py`, `live_*.py`, `web_driver.py`, `ext_driver.py` | a fake Telegram, a live chat's high-water mark, a page, a runner's replies | drive a case, wait, collect, judge | the program under test |
| visual checks | `features/visual/*` | none that lasts | score, decide | a vision model |
| dashboard | `dashboard/*` | a database of parsed logs, a shared parse, each page's sessions, event streams | parse, refresh, serve, notify | log files that grow |
| statistics, installer, rendering | `stats.py`, `install.py`, `specweb/render.py` | files | append, edit | |

### What is hard in it

* **Threads of one process.** Seats finish in any order while their results are used by
  position; all of them share a semaphore, a registry, a tally flag and a provider cache. A
  poll loop judges a child by two variables that another thread writes without a lock.
* **Processes that share a file.** Pollers of a job, its parent and the job itself; the
  agent and the server over one thread of notes; two review processes over caches.
* **Long waits between a read and its use.** A diff is reviewed for minutes before it is
  certified and committed. A page decides by a copy of a note that is seconds old.
* **Messages that overtake each other.** Autosaves, clears and posts of a browser tab are
  separate requests; aborting one does not unsend it.
* **Locks that give up.** The cooldown file's locks are waited for two seconds and then done
  without; a signal handler runs on the very thread whose lock it may need.
* **Readers of files that grow.** The dashboard parses logs that are being written, keys what
  it learnt by a stat taken at another moment, and lets several pages share one parse.
* **Answers to another question.** A bot, a chat and an editor answer late, twice or never,
  and the next case is already waiting.
* **Ends.** A backstop kills the process while its main thread may be about to succeed; a
  parent dies between two writes; a server stops between a write and a delivery.

### What makes each part correct

* Board: every failed seat is replaced while a reserve is left, no reviewer runs twice, each
  seat counts once, nothing of the run leaks into the next call, and the board always ends.
* Seat: retries are bounded, and a seat gives up only when every provider of its chain had a
  fair trial of its own, whatever those before it cost.
* Cooldowns: no failure or success that was written is lost while the locks hold, a seat is
  skipped only for what happened to its own model and transport, and nobody waits for ever.
* Process runner: no more children than the cap, no live child that the reaper cannot find,
  no child killed for a silence it did not keep, and every call returns.
* Checkpoint: what is committed and certified is what was reviewed, and nobody else's
  commit is lost.
* Jobs: a recorded result is final, "died" is only ever persisted of the dead, exit 0 means
  success, and a dead job is reported.
* QA run: what a run brings up is gone when it ends, on every way out that the process lives
  to see; and a result is read while what it is a result of is still there.
* QA drivers: a case is judged on what came in its own time and, where requests have ids, in
  reply to its own, and nothing that was handed over is lost on the way.
* Discussions: a resumed discussion goes on from the whole rounds that the log holds, each
  end has its reason, and the tally is of the answers that were usable.
* Dashboard: what is stored under a log's key is what that log said, a page's totals belong to
  its own sessions, and once the logs are at rest a page that polls shows them and a stream
  has told what it saw change.
* Drafts: what was cleared does not come back; what is typed is kept.
* Spec review: no note or answer is lost, and each submit reaches the agent as it was.

## 2. The modules

Each model is one file; `MC*.tla` gives its constants values, `*Proofs.tla` holds what is
proved about it. A definition whose name starts with `Mut` (or that a comment calls a
mutant) is a plausible bug; no specification uses one.

| module | lines of code it stands for | composes |
|---|---|---|
| `SeatDispatch` | `panel.py` 647-852, `retry.py` 114-457, `provider_failover.py` 93-305 | |
| `BoardFailover` | `panel.py` 535-644 | extends `SeatDispatch` |
| `BoardContract` | the abstract promise of a board run | implemented by `BoardFailover` |
| `SlotContract` | the abstract promise of the cap on backend children | implemented by `SeatDispatch`, `BoardFailover` and `BackendRunner` |
| `BackendRunner` | `process.py` `_run_streamed`, `kill_live_children`, the deadline clamp | |
| `Checkpoint` | `modes/review.py` checkpoint path, `install.py` stamp and hook | |
| `DetachedJobs` | `jobs.py`, `backstop.py`, `cli.py` detach and finalize | |
| `SpecDrafts` | `specweb/static/app.js` composer, draft routes of server and store | |
| `SpecReview` | `specweb/store.py` thread, submit and watch of `specweb/server.py` | |
| `SeatCooldown` | `seat_cooldown.py` | |
| `CooldownContract` | the abstract promise of the store of cooldowns | implemented by `SeatCalls` while every lock is granted |
| `Adapters` | the choice of transport, the gates and the reading of results in `backends.py` | |
| `SeatCalls` | a call from its first gate to what it settles, in `backends.py` | extends `Adapters` and `SeatCooldown` |
| `Moderation` | turnouts and tally of `panel.py`, the moderator of `modes/quorum.py` and `modes/brainstorm.py` | |
| `Sessions` | `sessions.py`: the log, what is read of it | |
| `Discussion` | `modes/just_ask.py`, `modes/quorum.py`, `modes/brainstorm.py` | extends `Moderation` and `Sessions` |
| `QaRun` | `modes/qa.py`, `qa/env.py`, `qa/executor.py`, `qa/web_harness.py`, `backstop.py` | |
| `QaCases` | a suite and its cases, common to the drivers | |
| `QaBot` | the hermetic bot and the ask of an agent: `qa/bot_*.py` | extends `QaCases` |
| `QaLive` | a real chat: `qa/live_*.py` | extends `QaCases` |
| `QaPages` | browser and editor: `qa/web_driver.py`, `qa/ext_driver.py` | extends `QaCases` |
| `QaDrivers` | the five tiers as one specification | extends `QaBot`, `QaLive` and `QaPages` |
| `CallLogs` | what is read of a log and how calls become sessions: `dashboard/parser.py`, `dashboard/call_log_cache.py` | |
| `Dashboard` | the shared parse, the page's sessions, the event stream: `dashboard/server.py` | extends `CallLogs` |

### SeatDispatch and BoardFailover

A **seat** is one thread of `run_panel_with_retry`. Its `phase` is `idle`, `started` (the
thread runs, no chain yet), `queued` (it wants to call: the backoff sleep and the wait for a
slot), `calling`, `deciding` (a result is in) or `done`. `BuildChain` is
`provider_chain`: unpaid and unreachable providers dropped, the cached one first for a default
selection; which providers probe as unpaid or down is any subset. `StartCall` takes one of
`MaxConcurrency` slots if the provider is a child process. `FinishCall` returns any of the
six results the retry loop tells apart. Then exactly one of `AcceptVerdict`,
`RetrySameProvider`, `SwitchProvider`, `SeatFails` applies. `ThreadFails` is an exception out
of the thread, which the panel turns into the result 127: before its chain is built, or in what
the thread itself writes between two calls, when it announces a retry or another provider
(`retry.py:465`, `panel.py:795`). The wall clock cap may or may not have been reached at each
decision. `spent` is a history: the providers whose trial ended for a reason of their own.

The **board** is the calling thread: `StartBoard` arms the deadline and takes the tally over,
`DispatchRound` starts the threads of a round, `PanelReturns` waits for all of them,
`JudgeUsable` and `JudgeFailed` go through the results in job order and promote,
`NextRound` runs what was promoted, `ReturnOutcome` and `Raise` release. A call's automatic
tally (`AutoTally`, `PanelTally`) is part of the call's action, so the suppression flag is
tested where the code tests it.

`BoardContract` has five actions and four variables: verdicts, seats owed, reserve left,
outcome. `BoardFailover` implements it with `answered <- Len(usable)`,
`outstanding <- Len(current) - judged + Len(nextRound)`, `reserveLeft <- ReserveSize -
promoted`: judging is the step that answers, replaces or loses, everything else stutters.

### BackendRunner

Calls go through `enter` (the idle bound is clamped to the board deadline), `slot`, `spawn`,
`register`, the swap of the pid handle for the group handle, `watch`/`judge` (one iteration
of the poll loop in two steps, because it reads the clock and the output latch separately),
`kill`, `join`, `finally`, `unregister`, `release`. A drain thread notes a chunk in two
writes, time first; `racing` remembers that it stood between them when the poll read the
clock. `kill_live_children` is a snapshot and a kill, with anything in between. A tick is a
unit of time; a call's clock counts since its last output (idle mode) or its start (wall
mode). With `REVIEW_IDLE_TIMEOUT_SECONDS=0` a call that asks for a liveness bound is still
polled (mode `total`): silence is judged by the clock, and its idle bound by `ran`, the time
since the loop began (`process.py:1360`).

### Checkpoint

A tree maps files to contents, a commit has a tree and a parent, a diff text is a set of
changes plus the prefix style it was printed in. The review reads the staged diff, hashes it,
reviews, writes the stamp files, then runs gate, recheck, `git commit` (hooks, gate,
snapshot: three steps), parse, verify and undo. The stamp's digest is a second read of the
index, at dispatch or, if that one failed, when the stamp is written; `since` and `read` are
histories of how often the other session had moved at the first and at the second read. The
other session stages, commits and soft resets at any of those points, and the hooks restage,
refuse or hang. A commit remembers which rule of the pre-commit hook let it in.

### DetachedJobs

The parent writes a record, spawns, writes the pid, and may die between any two of these. The
child has a main thread (dispatch, finalize, exit) and a backstop timer that may fire at any
time in dispatch or later, and may be killed. A poller reads, probes the pid and relabels in three
separate steps; a write is one step because it is a read-modify-write under an flock that
ends in a rename. Writes may fail; pids may be reused.

### SpecDrafts

Each tab has a composer, a timer, the controller of the autosave in flight, a token counter
and the local copy of the note's draft. Requests are in a set and delivered in any order; an
aborted one may arrive or not, its answer reaches nobody. The server keeps a draft and a
token per slot and rejects what is not newer. A saved note and the clearing of its draft are
two critical sections of the server (`ServePost`, `ServePosted`). A handler of the page is
one action with everything it sends. Messages are lost up to a bound; a list of notes that
does not load after a saved note is one of them (`ListFails`), and the page takes it for a
post that failed.

### SpecReview

The file is `store`. A request is two steps, `Load` under the lock and `Write`; the lock
is one of threads and one between processes, and the second may be refused
(`FlockWorks`). Requests come from the server's threads and from the agent's process
(`review spec-web reply`, `--seed`). A press of Submit review takes its timestamp before the
lock (`Press`, `EnterSubmit`), flips all pending notes in one batch, keeps the payload of
what it wrote, and after the lock queues it (`Notify`). The foreground server prints the
queue; beside the daemon a poller compares `last_submit` with the one it has seen. The server
may stop at any point (`StopServer`, or `Exit` after one review), and the daemon may be
started again. Of the reviewer's page the model keeps what its Reopen buttons would write,
which may be out of date.

### SeatCooldown, Adapters and SeatCalls

The store is one `file` for all processes. A change (`record_cooldown`, `clear_cooldown`) is
a thread's `job`: take the process's `mutex` or do without it, take the file's `flock` or do
without it, `Load`, `WriteBack`. The reads and writes of the threads in `Unlucky` may fail: a
read that failed counts as an empty store (`seat_cooldown.py:350`), a write that failed is
swallowed (`:538`, `:695`). Two histories make the properties say something: `ledger` is the
store had each change that was written been made at once, and `weak` is set when a thread
went on without a lock or without what the file holds. The entry's escalation (`NewEntry`) is the code's: prior failures within
`ResetAfter` raise the count, the schedule gives the length, an override replaces it.

`Adapters` says of each backend which gates a call passes, in which order, and which results
it can have; `Verdict` is what the result means to the store. `SeatCalls` runs calls through
that: `Start`, the gates (`CheckCooldown`, `FallBack` of an image call, `CheckAccount` with
`AccountAnswers`), `Answer` (a stalled opencode call is made again up to three times),
`Settle`. A call owes the store up to two changes, the adapter's own and the image
call's around it. `denied` is a process's cache of accounts that do not pay, `trusted` what
the claude CLI was made to trust. `Kill` ends a process with its locks; `Hang` stops one
thread in the middle of a change, its locks in its hands. `chronicAt` and `hearsay` remember
when a key was last read as chronic.

### Moderation, Sessions and Discussion

A `Turnout` counts a panel's answers: usable, hollow (exit code 0 and no text) and failed. A
moderator is asked, then its fallbacks, and gives a decision or nothing. The log is a
sequence of entries: a header with its meta line, a round's parts closed by a sentinel, the
synthesis. A text may quote the heading of the next round, of the synthesis, or of its own
round's moderator, with or without a decision below it: the reader takes the last for the
moderator's part, cuts the text there (`cut`) and searches what follows for a STOP
(`sessions.py:372`). A kill may tear the append in hand: what is parsed afterwards is
`parse_log` of what is left. `Discussion` runs a request through its phases, logs each as the code does and
resumes after a kill or another run's end: `meanwhile` is a resume while the first run still
lives.

### QaRun

The main thread has a place `pc` in the route of the request: refuse, drive with a driver,
run the bare tester, or bring an environment up, gate it, seed it and run the tester in it.
An environment is a handle with its mode and the latch `_torn_down`; `pending` is the
one that is being brought up; `td` is the teardown each thread (main, signal handler,
backstop) is in. A worktree, a trust entry, a server's child and its entry in the registry
are state of their own, each with the window between making it and owning it. At most
`MaxSignals` signals arrive, each runs its handler on the main thread and then exits; the
backstop fires at any time and its dead-man exits whatever blocks it. `lost` is a history of
the reasons for which something may be left behind, one for each window the code has.

### QaCases, QaBot, QaLive, QaPages and QaDrivers

A suite is a sequence of cases: what it expects (`prose` for a person to judge, `reply`,
`silent`), whether it taps a card, how many cards an agent's ask sends. `QaBot` is a fake
Telegram server: updates stay until the bot confirms them by its next offset, outbound
messages carry the case whose ask they belong to (`of`) and the case they came in (`during`),
asks wait in a queue with their taps, and a tap is recorded with both. `QaLive` is a
chat in which messages of the bot appear late; the driver keeps a high-water mark and the ids
it sent, and a send that timed out may have landed. `QaPages` is a browser or an editor
runner behind a pipe: requests have ids, replies come late or never, and the runner may die
with replies in the pipe. `QaDrivers` starts the tier that a request names.

### CallLogs and Dashboard

A log is a sequence of lines, each of the kinds that the parser tells apart; `CallLogs` reads
a prefix as the code does (exit code, timeouts, notices, outcome) and groups calls
into sessions by gap and rounds. In `Dashboard` the logs grow and may be removed; a reader
takes the stat of a log, then reads it, and stores the row under the stat that it took; one
thread parses for a gap and the others wait for it, and since the gaps share one condition, a
waiter may be woken by the parse of another gap and take what its own has from before
(`Shared`, `Woken`); a page keeps its sessions for a gap with a fingerprint of the
directory (`mark`: how many logs there are and the newest time of any) and may have a
background refresh under way. A stream takes the logs as they are when it connects for its
baseline (`base`), compares them at each poll with those of the last one (`Baseline`), tells
each log that changed and sends the newest `RecentRuns` runs of the parse (`RunsSent`; 8 in
the code). One that connects again only takes a new baseline. A cached value is abstracted to how many lines of each log it covers. A log's text and its time are
read in one step, and so are the two short sections of lock of the background thread.
`missed` and `late` are histories of the known ways in which a page falls behind
(section 4); `PageCatchesUp` is stated without them.

## 3. The runs, their bounds and their fairness

| run | instance | why the bound is enough for the cases that matter | properties |
|---|---|---|---|
| `seat_dispatch` | 2 seats (a default selection and a pin) on 2 providers and one cache key, one slot, budget 2, wall cap | two seats are what a shared cache and a slot need; budget 2 separates the sub-cap of timeouts (1) from the budget | `FailsOnlyAfterFairTrials`, `EverySeatReturns` |
| `board_failover` | pool 2, reserve 2, one provider, no retries | a promoted seat can fail and be replaced; two seats of a round finish in either order | `EveryFailureIsBackfilled`, `EachSeatTalliedOnce`, `NothingLeaks`, `BoardTerminates`, `ImplementsContract` |
| `checkpoint` | 2 files present or absent, threshold 1, 3 foreign moves, both prefix settings | three moves are stage, commit, reset: the shortest that pulls a commit back | `CheckpointIsReviewed`, `StampCertifiesReview`, `NoDriftAccumulates`, `ForeignCommitsSurvive` |
| `detached_jobs` | one job, two pollers | jobs do not share anything; two pollers can relabel each other's reads | `PersistedUnknownIsDead`, `ZeroMeansSuccess`, `ResultsStick`, `DeadJobsAreReported` |
| `backend_runner` | 2 calls, cap 1, idle 2, floor 1, deadline in 2 ticks, one chunk, clocks to 3; pairs of stall, silence and wall requests, one with the idle bound switched off | one call waits for the other's slot while the deadline passes; 3 ticks exceed every bound | `LiveChildIsListed`, `OutputBeatsTheReaper`, `EveryCallReturns` |
| `spec_drafts` | 2 tabs, 2 texts, 5 reviewer actions, one lost message | open, type, retype, submit and reload, in two tabs; two texts tell an old draft from a new one | `ClearedStaysCleared`, `LatestTextIsSaved` |
| `spec_review` | 2 notes, 2 submits, one answer a note, 3 other requests, all four deployments | two submits can be written in the other order than they were stamped; three requests are two notes and one update that races them | `EachSubmitSpeaksForItself`, `NotesSurvive`, `EverySubmitReachesTheWatch` |
| `qa_run` | every route with the flags it looks at, at most 2 signals, at most one case a kind, the backstop | a second signal can hit the teardown of the first; one case of each kind is what the verdict compares | `NothingIsLeft`, `ResultIsOfTheRun`, `RunEnds` |
| `qa_drivers` | suites of two cases a tier, 3 sends, 2 answers, 4 messages in the chat, fetches of 2 | a case can be judged on its predecessor's answers only if there are two; a fetch is shorter than the chat, so its limit bites | `EvidenceIsTheCases`, `NothingIsLost`, `SuiteEnds` |
| `discussion` | a minimum of 3 or 4 rounds and a maximum of 3 to 5, 3 seats, 2 moderators, 2 or 3 invocations, up to 2 kills | a kill in the second round and one in the run that resumes it; the limit of rounds is met with and without a stop; a minimum above the default tells the one that was asked for from it | `ResumeContinues`, `EndsForAReason`, `TallyAddsUp`, `DiscussionEnds` |
| `seat_calls` | 3 threads in 2 processes, schedule of 2 lengths, 3 units of time, one kill, one hang, one thread whose reads and writes may fail | two threads contend for the process's lock and the third for the file's; the second length and its reset are reached | `NothingLearntIsLost`, `SkipIsEarned`, `EveryCallEnds` |
| `dashboard` | 2 logs, the gaps 1 and 9, 2 pages, a stream or two, the startup thread, 2 background refreshes, at most one failing parse, one or both logs removable, retries of a parse 2 (5 in the code), one run a message of the stream (8 in the code) | a page can install its sessions over another's; a parse is retried after a change and gives up after another; the streams of two gaps wake each other; a log can come and go within one parse; with two runs, one is left out of what a stream sends | `NothingStaleLooksFresh`, `AnswersAreTheirOwn`, `PageTellsOutcomes`, `PageCatchesUp` |

`CHECK_DEADLOCK FALSE` is set where the system may really stop because everything asked of
it is done: `spec_drafts`, `spec_review`, `qa_run`, `qa_drivers`, `discussion`, `seat_calls`
and `dashboard`. The other specifications have an explicit stuttering action for the state in
which everything has returned, so a deadlock before it is reported; in `qa_run`,
`qa_drivers`, `discussion` and `seat_calls` the liveness property says that the end is the
intended one.

Fairness is weak fairness of what a running thread does next, and no more:

* `SeatDispatch`: a seat's thread keeps running (each call of a backend is bounded by the
  runner's own timeouts, which `EveryCallReturns` shows). The board's calling thread too.
* `Checkpoint`: the review process goes on; the other session owes nothing.
* `DetachedJobs`: parent, child and pollers go on, except that a call of a model
  (`MainReturns`) may never end: that is what the backstop, a timer with its own fairness,
  is for. No fairness is given to a kill, a reuse of a pid or a poller that gives up.
* `BackendRunner`: threads and time go on. A child owes nothing: it may never print nor
  exit. The wait for the semaphore has strong fairness, since a slot that is freed again and
  again is eventually taken by a given waiter (Python's semaphore wakes the waiter that came
  first).
* `SpecReview`: the threads of a running server and the poller go on. Nobody has to press,
  stop or start anything. `Notify` is disabled by a server that stops, so nothing is promised
  of a handler whose process died.
* `QaRun`: the main thread, a handler that runs and a teardown go on, because every
  operation of theirs has a timeout; not the main thread while a driver drives a suite
  (`DriverMayHang`). No signal has to come.
* `QaDrivers`: the driver alone goes on, and only where its wait has a deadline. Four calls
  have none (`Unbounded`): the write of a question to an ask client that may not read it
  (`qa/bot_harness.py:987-996`, whose comment says it can block), the write of a request to
  the editor's runner (`qa/ext_harness.py:267`), the disconnect of the live client
  (`qa/live_tier.py:498`) and the close of the browser (`qa/web_harness.py:266`). Bot, chat
  and runner owe nothing. `SuiteEnds` and `RunEnds` promise an end, or a hang in one of these.
* `Discussion`: a run goes on (each call of a panel and of a moderator ends); kills and
  resumes are free.
* `SeatCalls`: a thread in a call goes on, unless it is the one that hangs. Time owes nothing.
* `Dashboard`: the threads that serve a request, refresh or watch go on; a log owes no
  line, and a page need not ask, except a page that polls.
* `SpecDrafts` has no liveness property.

What the deeper properties say, beyond the obvious reading:

* `EachSeatTalliedOnce` relates the statistics to the results in every state, so one call
  counted by both the panel and the board breaks it whatever the final sums are.
* `FailsOnlyAfterFairTrials` says of a seat that gave up that each provider of its chain met a
  failure no retry can fix, or used up its own retries, hangs or clock: what one provider cost
  must not shorten the trial of the next. It excepts a thread that raised.
* `CheckpointIsReviewed` compares the commit that `--commit` reported with what the
  panel was shown, across restaging hooks and foreign moves. A review of stdin is excluded:
  it has no index of its own.
* `StampCertifiesReview` compares the stamp, and every commit another session gets in by its
  hash, with what the seats were given to read. The digest is a second read of the index, and
  the property excepts, by `read` and `since`, the review in which the other session moved
  between the two.
* `NoDriftAccumulates` is the reason for the HEAD line in `review-stamp-diff`: of the commits
  on the branch at most one came in as a trivial delta.
* `OutputBeatsTheReaper` is about the poll reading two variables without the drain's lock.
  It holds because the drain writes the time first and the latch second: a chunk that is
  half noted already looks recent. It is about a drain that stands between its writes when the
  poll reads the clock. A chunk that begins after that reading is judged as of the reading: the
  poll may reap a child that spoke a moment later.
* `LatestTextIsSaved` covers a tab whose tokens are behind another tab's: its first autosave
  is rejected and must be sent again with a new token.
* `EverySubmitReachesTheWatch` holds because the poller asks whether `last_submit` *differs*
  from the one it has seen. Timestamps are taken before the lock, so of two submits the
  earlier stamp can be written last, and "is later than" would lose that batch.
* `NothingIsLeft` has four parts (environment, server, worktree, one teardown at a time). It
  excepts the windows in `lost` one by one, so an end outside of them that
  leaves something breaks it.
* `ResultIsOfTheRun` relates the exit to what was there when its transcript was read:
  whatever signals came, no part of the run that the cases need was lost but to the backstop's
  sweep; a zero exit is the word of a driver or of a tester that exited cleanly, and under
  `--strict` every case ran and passed. Without `--strict` it does not say more, because the
  code does not: a run whose tester claims FAIL exits 0 as well (section 4).
* `EvidenceIsTheCases` says that what a case is judged on came after the case began and, where
  replies have ids, answers its request; and that a tap goes to a card of the case's own ask, or
  to a late card of an ask that is over, never to one that is still open.
* `ResumeContinues` compares what a resumed run takes for the transcript with what all runs
  before it wrote: each round under its own number and in order. A text may be cut short
  only in a round that quotes the heading of its own moderator.
* `EndsForAReason` judges a run that ends by the entries of the log, not by what the reader made
  of them: the maximum of rounds, a dead round, an earlier synthesis, or a STOP at or past the
  minimum that was asked for. The STOPs that nobody decided, but that the reader takes for
  decisions (section 4), are listed by name in `StopIn`.
* `TallyAddsUp` relates the tally's two sums to turnouts over all phases of a run.
* `NothingLearntIsLost`: `file = ledger` until a lock was done without or a read failed, across
  processes; and a denial is never overwritten by the late answer to an older question.
* `SkipIsEarned` is an action property about the past: at the moment a ready seat is
  skipped, a result of the same model and transport was chronic no longer ago than the longest
  cooldown.
* `NothingStaleLooksFresh`: a row whose key is the log's present stat covers the log as it is,
  though the stat is taken before the read; and a parse whose mark is the present one says what
  the logs say (`SaysWhatLogsSay`), though a mark is two numbers and not the logs: it excepts a
  log that is gone and was written to after the mark (`CameAndWent`).
* `PageCatchesUp` says that once the logs are at rest a page that polls shows all of them, and a
  stream has told the last state of every log that changed since it connected, and sent its
  newest runs as they are (`StreamTold`). It excepts the divergences of section 4: `missed` and
  `late` by their histories, a log that came and went, and what did not change again since the
  stream's baseline.

## 4. Where the code and its words disagree

No run expects a violation. These were met while modelling; each is in the models as the
code has it, and where a property would contradict it, the property says so.

* With `diff.noprefix=true` every `--commit` checkpoint is refused as drift: the recheck's
  `git diff` does not pin the prefixes that the reviewed diff was read with
  (`modes/review.py:898`, `cli.py:248`).
* The HEAD line of `review-stamp-diff` is HEAD at the end of the review (`install.py:1064`);
  the hook reads it as the HEAD the diff was reviewed against (`install.py:829`).
* A record without a pid past its grace window is reported as died even while its child runs
  (`jobs.py:670`). It is not persisted, which is why `PersistedUnknownIsDead` holds.
* A call that spawns after the reaper's snapshot leaves its child running (`process.py:359`),
  and so does one between `Popen` and its registration.
* A closing save that the server rejects as stale is not sent again
  (`specweb/static/app.js:903`), so a second tab that types and closes at once loses the text.
* `watch --emit-current` reads `last_submit` and then the review; a submit in between is
  printed at once and again at the first poll, though it is "never double-emitted"
  (`specweb/server.py:1304`).
* Reopen derives a note's status from its batch and its replies. A note that was answered
  while resolved comes back as answered, so it is not always "the PRE-resolve state"
  (`app.js:1147`); and the page's copy may be old.
* With `--exit-on-submit` a second submit that is already queued is dropped with the process.
  The file keeps it. Two concurrent submits may be queued in the other order than they were
  written.
* `cancelDraftSave` aborts the autosave in flight whatever slot it is of (`app.js:841`); a
  post that fails re-arms the new-note slot though another composer may be open
  (`app.js:804`); the answer of a post closes whichever composer is open by then
  (`app.js:786`); nothing stops a second submit of one note while the first is under way
  (`app.js:752`).
* A read of the spec-web store that fails counts as an empty thread, and the next write makes
  it one (`specweb/store.py:229`).
* A child that prints its first chunk after the poll has read the clock and before it reads the
  latch is no longer "silent", but its idle time is the one read before: it may be reaped by a
  shorter idle bound for a silence it has just ended (`process.py:1396`).
* The digest of the stamp is a second read of the index, right after the first at dispatch
  (`cli.py:262`) or, if that one failed, at the end of the review (`install.py:1008`): a change
  between the two reads certifies what the seats did not see.
* An `update-ref` that hangs in the undo of a checkpoint ends the review with a traceback, the
  branch moved or not (`modes/review.py:1055-1065`); every other failure of an undo is reported
  and exits 12.
* The hook's drift counts the file headers of an unprefixed diff as changed lines, but not one
  that is `/dev/null` (`install.py:870`).
* The backstop's exit with 124 can be overtaken by the main thread that its reap wakes.
* "No checkpoint was created" (`modes/review.py:1248`) is also printed on paths where the
  commit stays, among them a `git commit` killed by its timeout after it committed
  (`modes/review.py:1152`).
* The pid of a dead job that is reused makes it look alive (`jobs.py:590`).
* The last-working cache of providers is replaced without a lock, so one of two updates of two
  processes is lost (`provider_failover.py:284`).

QA:

* A tester that claims FAIL and exits cleanly makes the run exit 0 unless `--strict` is given,
  with any tally or none: only a claim of PASS is checked against the tally.
* `qa/bot_harness.py:987-991` says that a write to an ask client can block this process, and it
  has no timeout, nor have three other calls (section 3); the deadlines of a suite begin after.
* `qa/env.py`'s module text promises a teardown on every way out; a signal during `up` and
  before the pending registration (`qa/env.py:348`) leaves the environment, which is a reason
  in `lost`.
* A handle is "never double-`down`ed", but the latch is tested and set without a lock
  (`qa/env.py:130`); `OneThreadTearsDown` excepts the backstop beside the main thread.
* The dead-man cuts the backstop's sweep short (`backstop.py:99`). What `down` returns is never
  looked at (`qa/env.py:481`, `:549`). SIGTERM ends the tester's child without the worktree's
  and the trust entry's clean-up (`qa/executor.py:546`). The dev server runs unregistered
  for a moment (`qa/web_harness.py:403`).
* A late reply to a case counts as the next one's, in the hermetic bot and in the chat:
  evidence is what comes during a case, and only the editor's replies have ids.
* `get_messages` takes the newest few (`qa/live_tier.py:581`): a chat with more of them hides
  an answer. There is no new base after a tap (`qa/live_bot_runner.py:223`). A tap takes the
  last card for the one "this emit produced" (`qa/bot_driver.py:863`), and a late card of an
  earlier case, whose ask was reaped, may be that one. A page is not reset between cases (`qa/web_driver.py:44`,
  `qa/ext_driver.py:51`). A message whose send timed out is never deleted
  (`qa/live_tier.py:551`).

Discussions:

* A text that quotes the heading of its own round's moderator opens the moderator's part early
  (`sessions.py:372-386`): the rest of it is missing from the transcript of a resumed run, and
  a quoted `DECISION: STOP` ends it. So does one in the error text of a moderator or in a dead
  round's.
* A round torn after its sentinel counts as whole. The error text of a moderator that failed is
  in the log and is read for a decision. A header torn before its meta line loses panel and
  bounds of the session. A session whose synthesis failed is completed, and a resume of it is
  refused without `--force`. A resume beside the run that still writes gives two writers of
  one log (`sessions.py:471`). A resumed run is not tallied.

Seats:

* The API call that stands in for a missing CLI records a cooldown of the CLI
  (`backends.py:290` says otherwise of the bucket): the `hearsay` of `SkipIsEarned`.
* A read of the file that fails counts as an empty store, and the write that follows drops every
  other entry (`seat_cooldown.py:350`).
* Two failures at once escalate twice; one that waited for the lock may come with a time before
  the last one's and begin the escalation anew.
* opencode clears a cooldown on any exit code 0 with output. A process that is killed leaves
  the trust entry of its images' directory.

Dashboard:

* The page's sessions are kept by a fingerprint that is taken after the parse they came from
  (`dashboard/server.py:440`): a log that grew during the parse stays hidden until another
  change, though the class comment speaks of invalidation by fingerprint (`:166`).
* A stream that waited for somebody else's parse sends the summary of before, once
  (`dashboard/parser.py:1243`, `dashboard/server.py:1069`). A stream that connects again takes
  the logs as they are for its baseline (`dashboard/server.py:983`) and the page loads nothing
  on its `open` (`app.js:1176`): what changed in between is not told until it changes again.
* A stream sends the newest eight runs of a parse (`dashboard/server.py:1072`), whichever log
  changed; a change in an older run reaches the page only as a `log` event.
* Count and newest time return to what they were when a log that was begun after the
  fingerprint is removed again. If a parse read it in between, the page goes on showing it
  until something else changes, and so does a stream between two of its polls
  (`CameAndWent`).
* A stream that waits is woken by any gap's parse (one condition for all gaps) and then takes
  its own gap's last one, however old (`dashboard/parser.py:1243`).
* The totals' signature is taken after the sessions it is for. A session's id changes as
  its first call does, and annotations are left behind. A call that is still running and
  empty counts as failed in the health of its model; one whose log has an error line counts
  as completed.
* A clean review that quotes a paywall's or a refusal's text is read as one. A log that was
  killed while its last line quotes a footer reads as ended. A log that is removed between
  listing and parse is an empty call.

## 5. What is proved

All theorems are about every value of the constants that the named assumptions allow: any
numbers of seats, providers, pool, reserve, files, foreign moves, pollers, calls, notes,
requests, signals, threads, processes, tabs, cases, messages, rounds, logs. The argument is
the same throughout: an inductive invariant that contains the property, one lemma per group
of actions that they keep it, and temporal logic at the end.

**BackendProofs**: four specifications of the calls that a panel is made of.

* *Seats* (`SeatInv`). `LoopInv` ties the counters of the retry loop to the phase: a call past
  the budget or a third wait for a hang is impossible because each retry was guarded by them.
  `ChainInv` says that what was tried is part of the chain and that the provider in use is
  in it; and that a provider which is left is `spent`, which is decided from the counters of
  its own trial. Theorems: `DispatchTypeCorrect`, `RetriesAreBounded`, `EveryProviderIsTried`.
* *Board* (`BoardInv`). On top of `SeatInv`: `RoundInv` (only the seats of the current round
  run, and no reviewer beyond the promoted prefix has run: without it a promoted reviewer
  could be one that is still busy), `TallyInv` (the flag is set exactly while the board owns
  the tally, and what it restores is FALSE), `LoopPosition`. Theorems: `BoardTypeCorrect`,
  `FailuresAreBackfilled`, `DegradedMeansExhausted`, `TallyIsExact`, `ReleasedOnEveryExit`, and
  `BoardImplementsContract`, the refinement without fairness.
* *The cap.* `SeatDispatch` counts the seats in a call, `BackendRunner` the permits of a
  semaphore that calls wait for, lose to a failed spawn and give back after the reap. Both are
  shown to implement `SlotContract`, in which a caller takes one slot while one is left and
  returns that one: `RoundImplementsCap`, `BoardImplementsCap`, `RunnerImplementsCap`. So the
  board assumes of the cap no more than the runner provides. Each step changes the
  holders by at most one call, and the permit that is left when one is taken is what
  `SlotInv` says of the semaphore's count.
* *Runner* (`RunnerInv`). `ChildInv` follows a child from handle to handle, `ClockInv` bounds
  what a poll may have read (a fresh chunk leaves no idle time, in the modes that judge by it;
  the time since the loop began is no one's silence), `SlotInv` counts permits by the cardinality of the holders.
  Theorems: `RunnerTypeCorrect`, `ConcurrencyCapHolds`, `RegistryCoversLiveChildren`,
  `ReaperYieldsToOutput`, `ReapWaitsForTheFloor`.
* *Jobs* (`JobInv`). A poll acts on an old read; what makes it safe is that a record with a
  pid means the child was spawned (`SpawnInv`) and that a child seen dead stays dead. Theorems:
  `JobTypeCorrect`, `RecordStaysConsistent`, `RelabelIsNeverPremature`, `WaitZeroMeansSuccess`,
  and the action property `RecordedResultsStick`.

**CheckpointProofs** (`CheckpointInv`). `StoreInv` (HEAD and parents exist, and a commit never
changes: `CommitDiffIsStable`), `LocalsInv`, `GateInv`, `ProgressInv` (what has been
established by each step of the review). Theorems: `CheckpointTypeCorrect`,
`CheckpointHoldsReviewedDiff`, `StampIsOfTheReview`. For the last, `CalmInv` follows the index
while the other session is still: what is staged is what the seats were given until the review's
own hooks run, so a digest read before the other session's next move is of that diff, and no
commit is let in by a hash while there is no stamp. The branch's history is the least set
that holds HEAD and the parents of its members (`Reach`), so facts about it need no
recursion: a new commit adds itself, a soft reset to a parent removes, nothing else changes
it. With them:

* `OneTrivialDeltaAtMost` by `DriftInv`: the baseline is written once, and a commit let in as a
  trivial delta has a parent no newer than the HEAD that the baseline names and is newer
  itself. Two of them on one branch would have one below the other's parent.
* `UndoSparesOthers`, an action property, by `OwnInv`: the commit that a run takes back is the
  one it made.

**SpecDraftsProofs** (`DraftsInv`). `DraftTypes` also says that a request that was not aborted
is of the page that is loaded. `LateInv`: an autosave that arrives after the clear it was
sent before has a token that its slot has seen, so it is refused. `FlightInv`: a page has at
most one autosave in flight, the one its controller names, and none while its timer runs.
`LatestInv` is about a composer whose text nobody else's pending writes can overtake any more: the
text waits for the timer, or is under way with the last token of all, or was refused by an
answer that raises the counter above what refused it (`Overtaken`), or is stored with
nothing on its way that could replace it; a post under way, or a note that is gone, are the
exceptions. Without `Overtaken` a tab that counts behind another would look as if it lost the
text. Theorems: `DraftsInvariant`, `ClearsStand`, `LatestTextReachesTheServer`.

**SpecReviewProofs** (`ReviewInv`). A section writes what it read a while ago. `GuardInv` says
why that is safe: with both locks granted there is one section, so `Kept` relates what it
will write to what the file still holds; and a submit whose section is open has not got past
the lock. `SnapshotInv`, `QueueInv` and `PrintInv` follow a batch from its handler to the
queue to the print. Theorems: `ReviewTypeCorrect`, `SubmitsSpeakForThemselves`, and the
action property `UpdatesAreNotLost`, which assumes `FlockWorks`: the code goes on without the
lock where the filesystem refuses it, and then updates can be lost.

**QaProofs**: the run and its drivers.

* *Run* (`QaInv`, under `RequestsAssumption`, `BoundsAssumption` and `SaidAssumption`: requests
  and transcripts have their fields, bounds are natural). `EnvInv`, `ChildInv` and `TreeInv`
  follow what a run makes from the step that makes it to its owner and to its end, and name in
  `lost` the reason whenever a step between the two was cut; `ThreadInv` says which threads
  can be inside a teardown; `VerdictInv` ties the exit code to the transcript it was computed
  from; `ReadyInv` says what a run has lost of what its cases need, from the step that lost it
  to an exit that reports no result. Theorems: `QaTypeCorrect`,
  `QaInvariant`, `NothingOutlivesTheRun`, `ResultsAreOfTheRun`.
* *Drivers* (`DriversInv`, under `RunsAssumption`). `SuiteInv`: a driver at case *k* has judged
  the *k - 1* before it. What makes a case's evidence its own is different in each tier:
  `CapturedInv`, what the fake Telegram captured past the mark of a case came during it;
  `ChatInv`, above the high-water mark of the chat is only what came in this case;
  `RepliesInv`, a reply carries the id of its request. `AsksInv` says that only the ask of the
  present case can be open, which is why a card whose ask is not this case's (`TapsInv`) is of
  one that is over: the end of a case reaps its ask. The same parts hold what `NothingIsLost`
  needs: `UpdatesInv` (the bot confirms no further than one past what it handled, and
  updates get their ids in order), in `ChatInv` that each message of the driver's is known or
  its send did not return, and in `RepliesInv` that a reply that was written is in the pipe or
  the queue until it is taken. Theorems: `DriversInvariant`, `JudgedOnItsOwnEvidence`,
  `NothingGetsLost`.

**DiscussionProofs** (`DiscussionInv`). Reading a log is a fold, and one append more is one
step more of the reader (`States`, `ReadingOfAppend`, by a least counterexample, since the
library's induction theorem cannot be instantiated). `LogInv` says what the reader makes of the
log in every state, torn or not: each whole round once, under its own number, cut only where it
quotes its own moderator (`Faithful`); and each stop and each end traced back to the entry that
it was read from (`Traced`), so that a reason to end is a matter of the log and not of its
reader. `TalkInv` and `ContinueInv` relate what each run has in hand to it: the second only
while no two runs overlapped (`AloneInv`), which is where the code gives up the promise
(section 4). `ExitInv` keeps the reasons of exits, `HeaderInv` and
`BeginInv` the order in which a session is opened. The tally's two sums are proved from the
counters of each call. Theorems: `DiscussionStaysConsistent`, `DiscussionEndsForAReason`,
`DiscussionResumes`, `DiscussionTallyAddsUp`.

**SeatCallsProofs** (`SeatInv`, under `ScheduleAssumption` and `SeatsAssumption`: a schedule of
positive lengths, and a key in the store for each seat whose adapter keeps one). `Exclusive`:
while every thread got its locks and read what the file holds, who reads or writes the file holds its lock, and what it
has read is still the file; without the second half a write could bring an older store back.
`CallInv` says what a call at each gate still owes. `TraceInv` takes every entry, in the
file and in what threads have read, back to a chronic result. `DeniedInv`: a model is never
known to pay, only a provider, which is why a denial of the model stands. Theorems:
`SeatInvariant`, the action properties `NothingIsForgotten` and `SkipsAreEarned`, and
`StoreImplementsContract`: in every behaviour in which no thread ever goes on without a lock or
without what the file holds, the file implements `CooldownContract`, a store whose entries change one at a time, each
from what was there before, and whose cooldowns grow by one length at a time. The hypothesis is
needed: TLC, given the contract on the instance of `seat_calls`, finds a step that breaks it as
soon as a lock is done without or a read has failed, and none before.

**DashboardProofs** (`DashInv`, under `DashboardAssumption` and `WrittenAssumption`). A parse
reads logs one by one while they grow and are removed, and is kept under a mark taken before
it: how many logs there were, and the newest time. The mark does not say which logs it was
taken of, so the invariant is about every set of logs it may have been (`Unmoved`: as many, all
still there, with that newest time). While such a set is there none of its logs has grown,
because lines come in the order of time; so what was read of them is all they hold, and any
other log that was read is later than the mark (`Faithful`), and the mark left out none but
later ones (`Signed`). If the mark is also the present one, the logs that are there are such a
set, and what was read of another log is of one that came and went. `RowsInv` says that a
stat taken before the read never claims more than was read. `RequestsInv` and `CacheOK` carry
the gap from the request to the answer, and `GenOK` that who holds the present generation holds
the sessions that are kept, so totals are never attached to other sessions.

What a page is shown of a call (`PageTellsOutcomes`) needs a second invariant, `CoversInv`:
nobody who reads, keeps or shows rows has read more of a log than was written, or a log that was
not begun. From there it is about the operators of `CallLogs`, for any logs:

* the last lines of a log decide what is read of it (`FooterIs`, `ExitIs`, `SaysAre`), so what a
  call's answer quotes before its footer does not, and the class that is shown agrees
  (`OutcomeTold`);
* grouping calls into runs is a fold that puts each call into exactly one run (`AreRuns`,
  `GroupStepKeeps`, `GroupedAreRuns`), which brainstorms and the final sorting keep
  (`AttachedKeeps`, `NewestFirstKeeps`, `ClustersAreRuns`). Folds go by a least counterexample
  (`Folds`), and sorting by a count of predecessors (`InOrderIs`);
* so the places of the calls in the runs are as many as the calls (`PositionsAre`), and the
  three counts are of disjoint parts of them (`TwoParts`, `TotalsAddUp`).

`WrittenAssumption` says how a log may end: in the footer that `process.py` writes for how its
call ended, or, if the call was killed, in anything that does not read as an exit with 0. The
last clause is needed, and section 4 names the log that breaks it. Theorems: `DashInvariant`,
`CoversInvariant`, `NothingStale`, `EachItsOwnAnswer`, `OutcomesAreTold`.

Type invariants that a theorem states are not repeated as runs; those of `Discussion`,
`QaDrivers`, `SeatCalls`, `SpecDrafts` and `Dashboard` are part of their invariants.

Only model-checked, because TLAPS does not reach it: liveness (`EverySeatReturns`,
`BoardTerminates` and the fairness part of `ImplementsContract`, `DeadJobsAreReported`,
`EveryCallReturns`, `EverySubmitReachesTheWatch`, `RunEnds`, `SuiteEnds`, `DiscussionEnds`,
`EveryCallEnds`, `PageCatchesUp`). Every other property of the runs is a theorem.

## 6. What is not modelled

`PROJECT.json` lists every component with the reason. In short: argument parsing and the
dispatch of modes are a function from arguments to a mode; board selection is pure, and the
models take pool, reserve and roles as constants; visual verification, rendering, statistics
and the installer are sequential text or image processing without shared state.

Inside the modelled components these are left out: the wording of logs, token counts, argument
lists and payloads of backends, credential lookup, Telegram and tmux themselves, the
live-reload event stream of the spec reviewer, reads of its store that fail, a second job
directory, the live log files of the process runner, the parsing of QA suites, the
dashboard's annotations, and token and duration statistics. 

Some steps are simpler than the code, each in a way no property looks at:

* A board's tally flag and deadline are set in one step, before the `try` that releases them
  (`panel.py:572-581`). Neither assignment fails by itself, but an interrupt between them, or
  before the `try`, would leave them set, and is not modelled.
* `ParseSha` finds the run's own commit or nothing. The code takes the first bracket of git's
  output that names a commit with the checkpoint's subject (`modes/review.py:928-952`), so the
  model assumes that no hook prints the id of an earlier checkpoint in brackets.
* A log's appends come at times that differ and grow. Two of them in one tick of the file
  system's clock, or a log dated in the future, leave the count and the newest time that the
  dashboard's signature is made of (`dashboard/parser.py:1286-1293`) as they were.

Two review
processes over the provider cache are not modelled either: the file has no lock, and a lost
update costs one call.

## 7. Plan

What would come next: `Selection`, with pool, reserve, roles and the pool guard as operators
against reference definitions over small pools; and the refinement of `BoardContract`,
`SlotContract` and `CooldownContract` carried on to their callers, so that the fairness of the
board could be argued from that of the runner.
