---------------------------- MODULE DetachedJobs ----------------------------
(***************************************************************************)
(* One `review ... --detach` job: the parent that spawns it, the detached  *)
(* child with its main thread and its backstop timer, and the `review      *)
(* status` / `review wait` processes that poll the job record.             *)
(*                                                                         *)
(* The record is one JSON file.  Every write is a read-modify-write under  *)
(* the job's flock ending in an atomic replace, so a write is one step and *)
(* a crash leaves the old record; a poll is several steps, because its     *)
(* read, its pid probe and its relabel are separate.                       *)
(***************************************************************************)
EXTENDS Naturals

CONSTANTS Pollers,   \* the processes running `review status` or `review wait`
          None

VARIABLES
    parent,     \* where _spawn_detached_job is
    rec,        \* the job record, None before the first write
    graceOver,  \* SPAWN_GRACE_SECONDS have passed since started_at
    main,       \* where the child's main thread is
    rc,         \* the value of rc in cli.main
    timer,      \* where the child's run_backstop timer is
    exitCode,   \* how the child ended, None while it has not
    pidReused,  \* the dead child's pid now names an unrelated process
    poll        \* the pollers' locals

jobChild == <<main, rc, timer, exitCode>>
jobVars == <<parent, rec, graceOver, jobChild, pidReused, poll>>

Terminal == {"done", "failed", "unknown-terminated"}
Backstop == 124
Killed == 137      \* a child that died of a signal, or with the machine
ReturnCodes == {0, 1}

Records == [status: Terminal \cup {"running"}, pid: {None, "child"},
            exit: {None, Backstop} \cup ReturnCodes]

ASSUME NoneAssumption ==
    None \notin Records /\ None \notin {Backstop, Killed} \cup ReturnCodes

ChildAlive == main # "none" /\ exitCode = None
PidAlive == ChildAlive \/ pidReused

Poll(pc, data, result) == [pc |-> pc, data |-> data, result |-> result]

JobInit ==
    /\ parent = "record"
    /\ rec = None
    /\ graceOver = FALSE
    /\ main = "none"
    /\ rc = 1
    /\ timer = "unarmed"
    /\ exitCode = None
    /\ pidReused = FALSE
    /\ poll = [p \in Pollers |-> Poll("read", None, None)]

(***************************************************************************)
(* _spawn_detached_job                                                     *)
(***************************************************************************)
(* The record is written before the child can exist.                       *)
WriteRunningRecord ==
    /\ parent = "record"
    /\ \/ /\ rec' = [status |-> "running", pid |-> None, exit |-> None]
          /\ parent' = "popen"
       \/ UNCHANGED rec /\ parent' = "gone"
    /\ UNCHANGED <<graceOver, jobChild, pidReused, poll>>

SpawnChild ==
    /\ parent = "popen"
    /\ \/ main' = "dispatch" /\ timer' = "armed" /\ parent' = "pid"
       \/ UNCHANGED <<main, timer>> /\ parent' = "gone"
    /\ UNCHANGED <<rec, graceOver, rc, exitCode, pidReused, poll>>

(* The second write merges the pid alone.                                  *)
WithPid(r) == [r EXCEPT !.pid = "child"]

WritePid ==
    /\ parent = "pid"
    /\ rec' \in {rec, WithPid(rec)}     \* the write may raise
    /\ parent' = "gone"
    /\ UNCHANGED <<graceOver, jobChild, pidReused, poll>>

ParentKilled ==
    /\ parent \in {"popen", "pid"}
    /\ parent' = "gone"
    /\ UNCHANGED <<rec, graceOver, jobChild, pidReused, poll>>

(***************************************************************************)
(* The detached child: cli.main, then the backstop timer's thread.         *)
(***************************************************************************)
(* _main_dispatch returns or raises SystemExit; leaving the `with` cancels *)
(* a timer that has not fired.                                             *)
MainReturns ==
    /\ ChildAlive
    /\ main = "dispatch"
    /\ main' = "finalize"
    /\ rc' \in ReturnCodes
    /\ timer' = IF timer = "armed" THEN "cancelled" ELSE timer
    /\ UNCHANGED <<parent, rec, graceOver, exitCode, pidReused, poll>>

FinishedRecord(r, code) ==
    [r EXCEPT !.status = IF code = 0 THEN "done" ELSE "failed", !.exit = code]

(* The final write is best-effort.                                         *)
MainFinalizes ==
    /\ ChildAlive
    /\ main = "finalize"
    /\ rec' \in {rec, FinishedRecord(rec, rc)}
    /\ main' = "exit"
    /\ UNCHANGED <<parent, graceOver, rc, timer, exitCode, pidReused, poll>>

(* A timer that has fired is a daemon thread: it does not hold up the exit.*)
MainExits ==
    /\ ChildAlive
    /\ main = "exit"
    /\ exitCode' = rc
    /\ UNCHANGED <<parent, rec, graceOver, main, rc, timer, pidReused, poll>>

(* _fire: arm the deadman, reap the backends and the qa environments.      *)
BackstopFires ==
    /\ ChildAlive
    /\ timer = "armed"
    /\ timer' = "fired"
    /\ UNCHANGED <<parent, rec, graceOver, main, rc, exitCode, pidReused, poll>>

BackstopRecords ==
    /\ ChildAlive
    /\ timer = "fired"
    /\ rec' \in {rec, FinishedRecord(rec, Backstop)}
    /\ timer' = "recorded"
    /\ UNCHANGED <<parent, graceOver, main, rc, exitCode, pidReused, poll>>

(* os._exit, by _fire itself or by its deadman when _fire blocks.          *)
BackstopExits ==
    /\ ChildAlive
    /\ timer \in {"fired", "recorded"}
    /\ exitCode' = Backstop
    /\ UNCHANGED <<parent, rec, graceOver, main, rc, timer, pidReused, poll>>

(***************************************************************************)
(* The outside: SIGKILL, SIGTERM or a reboot; time; the kernel's pids.     *)
(***************************************************************************)
ChildKilled ==
    /\ ChildAlive
    /\ exitCode' = Killed
    /\ UNCHANGED <<parent, rec, graceOver, main, rc, timer, pidReused, poll>>

GracePasses ==
    /\ rec # None
    /\ ~graceOver
    /\ graceOver' = TRUE
    /\ UNCHANGED <<parent, rec, jobChild, pidReused, poll>>

PidIsReused ==
    /\ exitCode # None
    /\ ~pidReused
    /\ pidReused' = TRUE
    /\ UNCHANGED <<parent, rec, graceOver, jobChild, poll>>

(***************************************************************************)
(* job_status, in the loop of _wait_subcommand                             *)
(***************************************************************************)
PollStep(p, next) == poll' = [poll EXCEPT ![p] = next]
Answer(p, result) == PollStep(p, Poll("done", None, result))
PollAgain(p) == PollStep(p, Poll("read", None, None))

(* Mutant: a stale record without a pid is relabelled like a dead one.     *)
MutPersistStale(p) ==
    /\ poll[p].pc = "read"
    /\ rec # None
    /\ IF rec.status # "running" THEN Answer(p, rec)
       ELSE IF rec.pid = None
            THEN graceOver /\ PollStep(p, Poll("relabel", rec, None))
            ELSE PollStep(p, Poll("probe", rec, None))
    /\ UNCHANGED <<parent, rec, graceOver, jobChild, pidReused>>

(* Mutant: without a pid there is nothing to probe, so it keeps waiting.   *)
MutWaitForPid(p) ==
    /\ poll[p].pc = "read"
    /\ rec # None
    /\ IF rec.status # "running" THEN Answer(p, rec)
       ELSE rec.pid # None /\ PollStep(p, Poll("probe", rec, None))
    /\ UNCHANGED <<parent, rec, graceOver, jobChild, pidReused>>

(* A record without a pid is running inside the grace window, and past it  *)
(* is reported terminated without being written back.                      *)
PollReads(p) ==
    /\ poll[p].pc = "read"
    /\ rec # None
    /\ IF rec.status # "running" THEN Answer(p, rec)
       ELSE IF rec.pid = None
            THEN /\ graceOver
                 /\ Answer(p, [rec EXCEPT !.status = "unknown-terminated"])
            ELSE PollStep(p, Poll("probe", rec, None))
    /\ UNCHANGED <<parent, rec, graceOver, jobChild, pidReused>>

PollProbes(p) ==
    /\ poll[p].pc = "probe"
    /\ IF PidAlive THEN PollAgain(p)
       ELSE PollStep(p, [poll[p] EXCEPT !.pc = "relabel"])
    /\ UNCHANGED <<parent, rec, graceOver, jobChild, pidReused>>

(* _persist_unknown_terminated: a compare-and-set on the status; the fresh *)
(* record is the answer when it lost.                                      *)
\* Mutant: a blind merge.
MutRelabelled(r) == [r EXCEPT !.status = "unknown-terminated"]

Relabelled(r) ==
    IF r.status = "running" THEN [r EXCEPT !.status = "unknown-terminated"] ELSE r

PollRelabels(p) ==
    /\ poll[p].pc = "relabel"
    /\ rec' = Relabelled(rec)
    /\ Answer(p, rec')
    /\ UNCHANGED <<parent, graceOver, jobChild, pidReused>>

(* A read-only jobs directory: the relabel is reported, not persisted.     *)
PollCannotWrite(p) ==
    /\ poll[p].pc = "relabel"
    /\ Answer(p, [poll[p].data EXCEPT !.status = "unknown-terminated"])
    /\ UNCHANGED <<parent, rec, graceOver, jobChild, pidReused>>

(* The deadline of `review wait`, looked at after a running answer.        *)
PollGivesUp(p) ==
    /\ poll[p].pc = "read"
    /\ rec # None
    /\ rec.status = "running"
    /\ Answer(p, rec)
    /\ UNCHANGED <<parent, rec, graceOver, jobChild, pidReused>>

(* Mutant: no exit code reads as success.                                  *)
MutJobExitCode(r) == IF r.exit = None THEN 0 ELSE r.exit

(* _job_exit_code, and wait's own 1 when it gave up on a running job.      *)
JobExitCode(r) ==
    IF r.status \in {"done", "failed"} /\ r.exit # None THEN r.exit ELSE 1

Parent == WriteRunningRecord \/ SpawnChild \/ WritePid
Child == MainFinalizes \/ MainExits \/ BackstopRecords \/ BackstopExits
Polling(p) == \/ PollReads(p) \/ PollProbes(p)
              \/ PollRelabels(p) \/ PollCannotWrite(p)

Settled ==
    /\ parent = "gone"
    /\ ~ChildAlive
    /\ rec = None \/ \A p \in Pollers : poll[p].pc = "done"
    /\ UNCHANGED jobVars

JobNext ==
    \/ Parent \/ ParentKilled
    \/ Child \/ MainReturns \/ BackstopFires
    \/ ChildKilled \/ GracePasses \/ PidIsReused
    \/ \E p \in Pollers : Polling(p) \/ PollGivesUp(p)
    \/ Settled

(* Processes that are not stuck in a model call keep running, the backstop *)
(* is a timer, and so is the grace window.                                 *)
JobSpec ==
    /\ JobInit
    /\ [][JobNext]_jobVars
    /\ WF_jobVars(Parent)
    /\ WF_jobVars(Child)
    /\ WF_jobVars(BackstopFires)
    /\ WF_jobVars(GracePasses)
    /\ \A p \in Pollers : WF_jobVars(Polling(p))

(***************************************************************************)
(* Properties                                                              *)
(***************************************************************************)
(* Every variable keeps its type.                                          *)
JTypeOK ==
    /\ parent \in {"record", "popen", "pid", "gone"}
    /\ rec \in {None} \cup Records
    /\ {graceOver, pidReused} \subseteq BOOLEAN
    /\ main \in {"none", "dispatch", "finalize", "exit"}
    /\ rc \in ReturnCodes
    /\ timer \in {"unarmed", "armed", "cancelled", "fired", "recorded"}
    /\ exitCode \in {None, Killed, Backstop} \cup ReturnCodes
    /\ poll \in [Pollers -> [pc: {"read", "probe", "relabel", "done"},
                              data: {None} \cup Records,
                              result: {None} \cup Records]]

(* The status and the exit code of a record belong to one writer: no       *)
(* interleaving of the finalizer, the backstop, the parent's pid write and *)
(* a poller's relabel leaves one's status beside another's exit code.      *)
RecordAgreesWithItself ==
    rec # None =>
        /\ rec.status = "done" <=> rec.exit = 0
        /\ rec.status = "failed" <=> rec.exit \notin {None, 0}

(* What is written back as unknown-terminated is dead: a poller's stale    *)
(* read never persists the death of a child that is still running.         *)
PersistedUnknownIsDead ==
    rec # None /\ rec.status = "unknown-terminated" => ~ChildAlive

(* A result the child recorded stays a result: neither the parent's late   *)
(* pid write nor a poller that probed the pid before it regresses it.      *)
ResultsStick ==
    [][rec # None /\ rec.status \in {"done", "failed"} =>
        rec'.status \in {"done", "failed"}]_jobVars

(* `review wait` exits 0 only for a review that itself returned 0.         *)
ZeroMeansSuccess ==
    \A p \in Pollers :
        poll[p].result # None /\ JobExitCode(poll[p].result) = 0 =>
            main = "exit" /\ rc = 0

(* Once the child is dead every poller gets a terminal answer, unless it   *)
(* gave up before or the kernel handed the pid to somebody else.           *)
DeadJobsAreReported ==
    \A p \in Pollers :
        exitCode # None ~> poll[p].pc = "done" \/ pidReused
=============================================================================
