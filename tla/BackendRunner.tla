---------------------------- MODULE BackendRunner ----------------------------
(***************************************************************************)
(* process._run_streamed, called by the panel's threads at once: the       *)
(* process-wide concurrency cap, the registry of live children, the drain  *)
(* threads that note a child's output, the poll loop that decides a child  *)
(* is stuck, the clean-up, and kill_live_children on the way out.          *)
(*                                                                         *)
(* Time is a tick.  A call's clock is the time since its last output, and  *)
(* since its start in wall mode; the board's budget is what is left until  *)
(* the deadline idle bounds are clamped to.  A call whose idle bound is    *)
(* switched off but which asks to be checked for a stall ("total") is also *)
(* held to the time since its loop began.                                  *)
(***************************************************************************)
EXTENDS Integers, FiniteSets, FiniteSetsExt

CONSTANTS Calls,     \* the threads in _run_streamed
          Cap,       \* REVIEW_MAX_CONCURRENCY
          Requests,  \* what the callers may ask for, see Config
          Idle,      \* the idle (or wall) bound of a call, in ticks
          Floor,     \* _MIN_DEADLINE_CLAMPED_IDLE_FLOOR, in ticks
          Budget,    \* ticks to the board deadline; negative for none
          MaxChat,   \* bound: chunks a child prints
          MaxClock   \* bound: clocks stop counting here

(* stall and silence are 0 when the caller did not ask for that check.     *)
Config == [mode: {"idle", "wall", "total"}, stall: Nat, silence: Nat]

ASSUME RunnerAssumption ==
    /\ IsFiniteSet(Calls)
    /\ Cap \in Nat \ {0}
    /\ Requests \subseteq [Calls -> Config]
    /\ Idle \in Nat \ {0}
    /\ Floor \in Nat \ {0}
    /\ Budget \in Int
    /\ MaxChat \in Nat
    /\ MaxClock \in Nat

VARIABLES
    pc,        \* where each call is
    cfg,       \* what its caller asked for
    child,     \* none, alive, leftover (only descendants live), dead
    group,     \* its process group is known
    bound,     \* effective idle bound, taken on entry
    silence,   \* effective true-silence bound, taken at the spawn
    clock,     \* time since activity["last"], or since the start
    ran,       \* time since loop_started, of the calls held to it
    got,       \* activity["got_output"]
    drain,     \* a drain thread is between its two writes
    chat,      \* chunks the child printed
    elapsed,   \* what the poll read
    racing,    \* history: the drain had begun to note a chunk at that read
    verdict,   \* why the call reaped its child
    free,      \* permits left in the semaphore
    registry,  \* _LIVE_CHILDREN
    budget,    \* time left until the board deadline
    cli,       \* the process: running, snapshot, killed, exited
    doomed     \* the reaper's snapshot of the registry

callVars == <<cfg, bound, silence, elapsed, racing, verdict>>
outVars == <<clock, ran, got, drain, chat>>
treeVars == <<child, group>>
cliVars == <<cli, doomed>>
runnerVars == <<pc, callVars, outVars, treeVars, free, registry, budget, cliVars>>

MinOf(a, b) == IF a < b THEN a ELSE b
MaxOf(a, b) == IF a < b THEN b ELSE a

(* _clamp_to_board_deadline                                                *)
Clamp(computed) ==
    IF Budget < 0 \/ budget >= computed THEN computed
    ELSE MinOf(computed, MaxOf(budget, Floor))

Running == cli # "exited"
Goto(c, label) == pc' = [pc EXCEPT ![c] = label]

RunnerInit ==
    /\ pc = [c \in Calls |-> "enter"]
    /\ cfg \in Requests
    /\ child = [c \in Calls |-> "none"]
    /\ group = [c \in Calls |-> FALSE]
    /\ bound = [c \in Calls |-> Idle]
    /\ silence = [c \in Calls |-> 0]
    /\ clock = [c \in Calls |-> 0] /\ ran = [c \in Calls |-> 0]
    /\ got = [c \in Calls |-> FALSE]
    /\ drain = [c \in Calls |-> FALSE]
    /\ chat = [c \in Calls |-> 0]
    /\ elapsed = [c \in Calls |-> 0]
    /\ racing = [c \in Calls |-> FALSE]
    /\ verdict = [c \in Calls |-> "none"]
    /\ free = Cap
    /\ registry = {}
    /\ budget = MaxOf(Budget, 0)
    /\ cli = "running"
    /\ doomed = {}

(***************************************************************************)
(* Starting the child                                                      *)
(***************************************************************************)
(* The idle bound is clamped now, before any wait for a slot.              *)
Enter(c) ==
    /\ pc[c] = "enter"
    /\ bound' = [bound EXCEPT ![c] =
                    IF cfg[c].mode = "idle" THEN Clamp(Idle) ELSE Idle]
    /\ Goto(c, "slot")
    /\ UNCHANGED <<cfg, silence, elapsed, racing, verdict, outVars, treeVars,
                   free, registry, budget, cliVars>>

AcquireSlot(c) ==
    /\ pc[c] = "slot"
    /\ free > 0
    /\ free' = free - 1
    /\ Goto(c, "spawn")
    /\ UNCHANGED <<callVars, outVars, treeVars, registry, budget, cliVars>>

(* Popen; an exception goes straight to the finally, with no child.        *)
Spawn(c) ==
    /\ pc[c] = "spawn"
    /\ silence' = [silence EXCEPT ![c] = Clamp(cfg[c].silence)]
    /\ \/ child' = [child EXCEPT ![c] = "alive"] /\ Goto(c, "register")
       \/ UNCHANGED child /\ Goto(c, "release")
    /\ UNCHANGED <<cfg, bound, elapsed, racing, verdict, outVars, group,
                   free, registry, budget, cliVars>>

(* A handle names the call's child alone, or its whole process group.      *)
Register(c) ==
    /\ pc[c] = "register"
    /\ registry' = registry \cup {<<c, "pid">>}
    /\ Goto(c, "group")
    /\ UNCHANGED <<callVars, outVars, treeVars, free, budget, cliVars>>

(* os.getpgid can fail only for a child that is already gone.              *)
GroupKnown(c) ==
    /\ pc[c] = "group"
    /\ group' = [group EXCEPT ![c] = TRUE]
    /\ Goto(c, "swap")
    /\ UNCHANGED <<callVars, outVars, child, free, registry, budget, cliVars>>

GroupUnknown(c) ==
    /\ pc[c] = "group"
    /\ child[c] # "alive"
    /\ Goto(c, "listen")
    /\ UNCHANGED <<callVars, outVars, treeVars, free, registry, budget, cliVars>>

(* Mutant: the old handle goes before the new one is there.                *)
MutReregister(c) ==
    \/ /\ pc[c] = "swap"
       /\ registry' = registry \ {<<c, "pid">>}
       /\ Goto(c, "swapped")
    \/ /\ pc[c] = "swapped"
       /\ registry' = registry \cup {<<c, "group">>}
       /\ Goto(c, "listen")

(* _reregister_child adds the group handle, then drops the old one.        *)
Reregister(c) ==
    \/ /\ pc[c] = "swap"
       /\ registry' = registry \cup {<<c, "group">>}
       /\ Goto(c, "swapped")
    \/ /\ pc[c] = "swapped"
       /\ registry' = registry \ {<<c, "pid">>}
       /\ Goto(c, "listen")

Swap(c) ==
    /\ Reregister(c)
    /\ UNCHANGED <<callVars, outVars, treeVars, free, budget, cliVars>>

(* The clocks start once the child exists, then the drain threads do.      *)
Listen(c) ==
    /\ pc[c] = "listen"
    /\ clock' = [clock EXCEPT ![c] = 0]
    /\ Goto(c, "watch")
    /\ UNCHANGED <<callVars, ran, got, drain, chat, treeVars, free, registry, budget, cliVars>>

(***************************************************************************)
(* Watching it                                                             *)
(***************************************************************************)
ChildExited(c) ==
    /\ pc[c] = "watch"
    /\ child[c] # "alive"
    /\ Goto(c, "join")
    /\ UNCHANGED <<callVars, outVars, treeVars, free, registry, budget, cliVars>>

(* A poll reads the time of the last output, and then whether there was    *)
(* any; the drain may write either in between.  What it read is a local of *)
(* that round of the loop.                                                 *)
PollClock(c) ==
    /\ pc[c] = "watch"
    /\ child[c] = "alive"
    /\ elapsed' = [elapsed EXCEPT ![c] = clock[c]]
    /\ racing' = [racing EXCEPT ![c] = drain[c]]
    /\ Goto(c, "judge")
    /\ UNCHANGED <<cfg, bound, silence, verdict, outVars, treeVars, free,
                   registry, budget, cliVars>>

(* No byte yet and past the liveness bound, which the idle bound caps.     *)
Stalled(c) ==
    /\ cfg[c].mode # "wall" /\ cfg[c].stall > 0 /\ ~got[c]
    /\ elapsed[c] >= MinOf(cfg[c].stall, bound[c])

(* With true-silence armed it alone rules until the first byte.            *)
SilenceRules(c) == cfg[c].mode # "wall" /\ cfg[c].silence > 0 /\ ~got[c]

(* What the bound is held against; a total is read here, not by the poll.  *)
Spent(c) == IF cfg[c].mode = "total" THEN ran[c] ELSE elapsed[c]

(* Mutant: the idle bound is not looked at once the child has spoken.      *)
MutJudgement(c) ==
    IF Stalled(c) THEN "stall"
    ELSE IF cfg[c].mode # "wall" /\ got[c] THEN "none"
    ELSE IF SilenceRules(c)
         THEN IF elapsed[c] >= silence[c] THEN "silence" ELSE "none"
    ELSE IF Spent(c) >= bound[c] THEN "timeout" ELSE "none"

Judgement(c) ==
    IF Stalled(c) THEN "stall"
    ELSE IF SilenceRules(c)
         THEN IF elapsed[c] >= silence[c] THEN "silence" ELSE "none"
    ELSE IF Spent(c) >= bound[c] THEN "timeout" ELSE "none"

Judge(c) ==
    /\ pc[c] = "judge"
    /\ verdict' = [verdict EXCEPT ![c] = Judgement(c)]
    /\ IF Judgement(c) = "none"
       THEN /\ Goto(c, "watch")
            /\ elapsed' = [elapsed EXCEPT ![c] = 0]
            /\ racing' = [racing EXCEPT ![c] = FALSE]
       ELSE Goto(c, "kill") /\ UNCHANGED <<elapsed, racing>>
    /\ UNCHANGED <<cfg, bound, silence, outVars, treeVars, free,
                   registry, budget, cliVars>>

(***************************************************************************)
(* Cleaning up                                                             *)
(***************************************************************************)
(* SIGTERM, three seconds, SIGKILL: to the group when it is known, else to *)
(* the child alone, which no longer reaches what the child left behind.    *)
KillTree(c) ==
    IF child[c] # "none" /\ (group[c] \/ child[c] = "alive") THEN "dead" ELSE child[c]

Reap(c, from, to) ==
    /\ pc[c] = from
    /\ child' = [child EXCEPT ![c] = KillTree(c)]
    /\ Goto(c, to)
    /\ UNCHANGED <<callVars, outVars, group, free, registry, budget, cliVars>>

KillStuck(c) == Reap(c, "kill", "join")

(* The readers get their grace; whatever still holds the pipe is killed,   *)
(* and stopping, set under the lock, ends what a drain had begun.          *)
JoinReaders(c) ==
    /\ pc[c] = "join"
    /\ child' = [child EXCEPT ![c] = IF @ = "leftover" THEN KillTree(c) ELSE @]
    /\ drain' = [drain EXCEPT ![c] = FALSE]
    /\ Goto(c, "finally")
    /\ UNCHANGED <<callVars, clock, ran, got, chat, group, free, registry, budget, cliVars>>

FinalKill(c) == Reap(c, "finally", "unregister")

Unregister(c) ==
    /\ pc[c] = "unregister"
    /\ registry' = {h \in registry : h[1] # c}
    /\ Goto(c, "release")
    /\ UNCHANGED <<callVars, outVars, treeVars, free, budget, cliVars>>

(* The call returns and its locals go.                                     *)
Return(c) ==
    /\ Goto(c, "done")
    /\ bound' = [bound EXCEPT ![c] = Idle]
    /\ silence' = [silence EXCEPT ![c] = 0]
    /\ clock' = [clock EXCEPT ![c] = 0]
    /\ ran' = [ran EXCEPT ![c] = 0]
    /\ got' = [got EXCEPT ![c] = FALSE]
    /\ chat' = [chat EXCEPT ![c] = 0]
    /\ elapsed' = [elapsed EXCEPT ![c] = 0]
    /\ racing' = [racing EXCEPT ![c] = FALSE]
    /\ verdict' = [verdict EXCEPT ![c] = "none"]

ReleaseSlot(c) ==
    /\ pc[c] = "release"
    /\ free' = free + 1
    /\ Return(c)
    /\ UNCHANGED <<cfg, drain, treeVars, registry, budget, cliVars>>

CallStep(c) ==
    /\ Running
    /\ \/ Enter(c) \/ AcquireSlot(c) \/ Spawn(c) \/ Register(c)
       \/ GroupKnown(c) \/ GroupUnknown(c) \/ Swap(c) \/ Listen(c)
       \/ ChildExited(c) \/ PollClock(c) \/ Judge(c) \/ KillStuck(c)
       \/ JoinReaders(c) \/ FinalKill(c) \/ Unregister(c)
       \/ ReleaseSlot(c)

(***************************************************************************)
(* The child, and the drain threads                                        *)
(***************************************************************************)
Listening(c) == pc[c] \in {"watch", "judge", "kill", "join"}

(* A chunk: the time first, unless in wall mode the clock restarts, then   *)
(* the latch.                                                              *)
NoteTime(c) ==
    clock' = [clock EXCEPT ![c] = IF cfg[c].mode # "wall" THEN 0 ELSE @]
NoteLatch(c) == got' = [got EXCEPT ![c] = TRUE]

(* Mutant: the latch first, the time second.                               *)
MutDrainFirst(c) == NoteLatch(c) /\ UNCHANGED clock

DrainFirst(c) == NoteTime(c) /\ UNCHANGED got
DrainSecond(c) == NoteTime(c) /\ NoteLatch(c)

ChildPrints(c) ==
    /\ Running /\ Listening(c)
    /\ child[c] \in {"alive", "leftover"}
    /\ ~drain[c]
    /\ chat[c] < MaxChat
    /\ DrainFirst(c)
    /\ chat' = [chat EXCEPT ![c] = @ + 1]
    /\ drain' = [drain EXCEPT ![c] = TRUE]
    /\ UNCHANGED <<pc, ran, callVars, treeVars, free, registry, budget, cliVars>>

DrainFinishes(c) ==
    /\ Running /\ Listening(c)
    /\ drain[c]
    /\ DrainSecond(c)
    /\ drain' = [drain EXCEPT ![c] = FALSE]
    /\ UNCHANGED <<pc, ran, callVars, chat, treeVars, free, registry, budget, cliVars>>

(* By itself, with or without descendants that keep its pipe open.         *)
ChildEnds(c) ==
    /\ child[c] = "alive"
    /\ child' = [child EXCEPT ![c] = "dead"] \/ child' = [child EXCEPT ![c] = "leftover"]
    /\ UNCHANGED <<pc, callVars, outVars, group, free, registry, budget, cliVars>>

Counts(c) == Listening(c) /\ cfg[c].mode = "total"

(* The two writes of a drain are next to each other: no tick parts them.   *)
Tick ==
    /\ Running
    /\ \A c \in Calls : ~drain[c]
    /\ \/ budget > 0
       \/ \E c \in Calls : Listening(c) /\ clock[c] < MaxClock
       \/ \E c \in Calls : Counts(c) /\ ran[c] < MaxClock
    /\ budget' = MaxOf(budget - 1, 0)
    /\ clock' = [c \in Calls |-> IF Listening(c) THEN MinOf(clock[c] + 1, MaxClock)
                                 ELSE clock[c]]
    /\ ran' = [c \in Calls |-> IF Counts(c) /\ ran[c] < MaxClock THEN ran[c] + 1 ELSE ran[c]]
    /\ UNCHANGED <<pc, callVars, got, drain, chat, treeVars, free, registry, cliVars>>

(***************************************************************************)
(* kill_live_children, from the backstop or the signal reaper              *)
(***************************************************************************)
TakeSnapshot ==
    /\ cli = "running"
    /\ cli' = "snapshot"
    /\ doomed' = registry
    /\ UNCHANGED <<pc, callVars, outVars, treeVars, free, registry, budget>>

(* SIGKILL to every handle of the snapshot: its group, or its pid alone.   *)
KillSnapshot ==
    /\ cli = "snapshot"
    /\ cli' = "killed"
    /\ child' = [c \in Calls |->
                   IF child[c] # "none" /\ <<c, "group">> \in doomed THEN "dead"
                   ELSE IF child[c] = "alive" /\ <<c, "pid">> \in doomed THEN "dead"
                   ELSE child[c]]
    /\ UNCHANGED <<pc, callVars, outVars, group, free, registry, budget, doomed>>

ProcessExits ==
    /\ cli = "killed"
    /\ cli' = "exited"
    /\ UNCHANGED <<pc, callVars, outVars, treeVars, free, registry, budget, doomed>>

Returned ==
    /\ cli = "exited" \/ \A c \in Calls : pc[c] = "done"
    /\ UNCHANGED runnerVars

ReaperStep == TakeSnapshot \/ KillSnapshot \/ ProcessExits

RunnerNext ==
    \/ \E c \in Calls : \/ CallStep(c) \/ ChildPrints(c)
                         \/ DrainFinishes(c) \/ ChildEnds(c)
    \/ Tick
    \/ ReaperStep
    \/ Returned

(* Threads run, time passes; a child owes nothing, and a semaphore that    *)
(* keeps being free is eventually acquired by each thread that waits.      *)
RunnerSpec ==
    /\ RunnerInit
    /\ [][RunnerNext]_runnerVars
    /\ WF_runnerVars(Tick)
    /\ WF_runnerVars(KillSnapshot \/ ProcessExits)
    /\ \A c \in Calls : SF_runnerVars(CallStep(c)) /\ WF_runnerVars(DrainFinishes(c))

(***************************************************************************)
(* Properties                                                              *)
(***************************************************************************)
Labels == {"enter", "slot", "spawn", "register", "group", "swap", "swapped",
           "listen", "watch", "judge", "kill", "join", "finally",
           "unregister", "release", "done"}
HasSlot(c) == pc[c] \notin {"enter", "slot", "done"}
Handles == Calls \X {"pid", "group"}

(* Every variable keeps its type.                                          *)
RTypeOK ==
    /\ pc \in [Calls -> Labels]
    /\ cfg \in Requests
    /\ child \in [Calls -> {"none", "alive", "leftover", "dead"}]
    /\ {group, got, drain, racing} \subseteq [Calls -> BOOLEAN]
    /\ bound \in [Calls -> Nat \ {0}]
    /\ {silence, clock, ran, chat, elapsed} \subseteq [Calls -> Nat]
    /\ verdict \in [Calls -> {"none", "stall", "silence", "timeout"}]
    /\ free \in 0..Cap
    /\ registry \subseteq Handles
    /\ doomed \subseteq Handles
    /\ budget \in Nat
    /\ cli \in {"running", "snapshot", "killed", "exited"}

(* The cap bounds model processes: every permit is free or held by one     *)
(* call, and a child lives only while its call holds one.                  *)
CapHolds ==
    /\ free + Cardinality({c \in Calls : HasSlot(c)}) = Cap
    /\ \A c \in Calls : child[c] = "alive" => HasSlot(c)

(* The registry covers a child from its registration, through the swap of  *)
(* handles, until it has been reaped: a reaper reading the set at any step *)
(* of the call finds it.                                                   *)
LiveChildIsListed ==
    \A c \in Calls :
        child[c] = "alive" /\ pc[c] # "register" =>
            \E kind \in {"pid", "group"} : <<c, kind>> \in registry

(* A child whose output a drain had begun to note when the poll read the   *)
(* clock is not reaped by that poll for being quiet (_drain's order of     *)
(* writes against the poll loop's order of reads in _run_streamed).        *)
ForQuiet(c) ==
    verdict[c] \in {"stall", "silence"} \/ (verdict[c] = "timeout" /\ cfg[c].mode = "idle")
OutputBeatsTheReaper == \A c \in Calls : ForQuiet(c) => ~racing[c]

(* No call is reaped after less quiet than its own bound or the floor: a   *)
(* deadline that has nearly passed still leaves it one real attempt.       *)
NoInstantReap ==
    \A c \in Calls :
        /\ verdict[c] = "timeout" => Spent(c) >= MinOf(Idle, Floor)
        /\ verdict[c] = "silence" => elapsed[c] >= MinOf(cfg[c].silence, Floor)

(* Every call returns while the process lives: a child that stops printing *)
(* is reaped, a failed spawn gives its slot back, and no waiter is left.   *)
EveryCallReturns == \A c \in Calls : <>(pc[c] = "done" \/ cli = "exited")

(* The calls between their permit and its return hold the slots of the cap.*)
PermitsHeld ==
    INSTANCE SlotContract WITH
        Users <- Calls, Limit <- Cap, holders <- {c \in Calls : HasSlot(c)}
=============================================================================
