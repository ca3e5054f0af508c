---------------------------- MODULE SeatCooldown ----------------------------
(* The store of cooldowns (seat_cooldown.py): one file for all review          *)
(* processes, read, changed and replaced as a whole, under a lock of the       *)
(* process and a lock of the file -- neither of which is waited for for long.  *)
EXTENDS Integers, Sequences, FiniteSets

CONSTANTS
    Threads,      \* the threads that call seats
    Process(_),   \* the process of a thread
    Unlucky,      \* the threads whose reads and writes of the file may fail
    Keys,         \* <<model, access method>>
    Schedule,     \* how long the first, second, ... cooldown in a row lasts
    ResetAfter,   \* a failure this long after the last one is a first one again
    Overrides,    \* the values of REVIEW_SEAT_COOLDOWN_SECONDS, Unset among them
    MaxTime       \* time is counted up to this (bound)

Unset == -1

ASSUME ScheduleAssumption ==
    /\ Len(Schedule) > 0 /\ \A i \in DOMAIN Schedule : Schedule[i] \in Nat \ {0}
    /\ ResetAfter \in Nat /\ MaxTime \in Nat
    /\ Overrides \subseteq Nat \cup {Unset}

Processes == {Process(t) : t \in Threads}
NoEntry == [until |-> 0, at |-> 0, count |-> 0]
EmptyStore == [k \in Keys |-> NoEntry]

VARIABLES
    now,       \* time.time(), in units of the schedule
    override,  \* the fixed length that replaces the schedule, if any
    file,      \* the file
    mutex,     \* the lock of each process: its holder, or "free"
    flock,     \* the lock of the file: its holder, or "free"
    job,       \* what each thread is doing to the store
    weak,      \* history: a thread went on without a lock, or without what the file holds
    ledger     \* history: the store, had each change been made at once

storeVars == <<now, override, file, mutex, flock, job, weak, ledger>>

Idle == [pc |-> "idle", do |-> "none", key |-> CHOOSE k \in Keys : TRUE, at |-> 0,
         seen |-> EmptyStore]

StoreInit ==
    /\ now = 1 /\ override \in Overrides
    /\ file = EmptyStore /\ ledger = EmptyStore
    /\ mutex = [p \in Processes |-> "free"] /\ flock = "free"
    /\ job = [t \in Threads |-> Idle] /\ weak = FALSE

\* A time passes.
Tick == now < MaxTime /\ now' = now + 1
        /\ UNCHANGED <<override, file, mutex, flock, job, weak, ledger>>

-----------------------------------------------------------------------------
(* Reading                                                                    *)

\* An entry counts until its time; nothing counts while the feature is off.
ActiveCooldown(k) == override # 0 /\ file[k].until > now

\* What follows a failure: a longer cooldown when the last one was not long ago. The
\* time of the last one may be later than this one's, which waited for the lock.
FailCount(prior, at) ==
    IF prior # NoEntry /\ at - prior.at \in 0..ResetAfter THEN prior.count + 1 ELSE 1

Ttl(count) == Schedule[IF count <= Len(Schedule) THEN count ELSE Len(Schedule)]

\* Counts past the schedule's end are not told apart.
Capped(count) == IF count <= Len(Schedule) THEN count ELSE Len(Schedule)

NewEntry(prior, at) ==
    IF override # Unset THEN [until |-> at + override, at |-> at, count |-> 1]
    ELSE LET n == FailCount(prior, at)
         IN  [until |-> at + Ttl(n), at |-> at, count |-> Capped(n)]

-----------------------------------------------------------------------------
(* Changing: record_cooldown and clear_cooldown                               *)

Begin(t, what, k) ==
    job' = [job EXCEPT ![t] = [Idle EXCEPT !.pc = "lock", !.do = what, !.key = k, !.at = now]]

\* Recording is off with an override of 0; clearing is not. A model without an entry
\* is not cleared, as far as a look without the lock, which may fail, can tell.
StartRecord(t, k) == IF override = 0 THEN UNCHANGED job ELSE Begin(t, "record", k)
Nothing(k) == \A a \in {x[2] : x \in {y \in Keys : y[1] = k[1]}} : file[<<k[1], a>>] = NoEntry
StartClear(t, k) ==
    \/ (Nothing(k) \/ t \in Unlucky) /\ UNCHANGED job
    \/ ~Nothing(k) /\ Begin(t, "clear", k)

At(t, pc) == job[t].pc = pc
Goto(t, pc) == job' = [job EXCEPT ![t].pc = pc]

\* The process's lock, and what happens when it is held too long: no lock at all.
TakeMutex(t) ==
    /\ At(t, "lock") /\ mutex[Process(t)] = "free"
    /\ mutex' = [mutex EXCEPT ![Process(t)] = t]
    /\ Goto(t, "flock")
    /\ UNCHANGED <<now, override, file, flock, weak, ledger>>

\* Mutant: the lock is waited for.
MutMutexTimesOut(t) == FALSE /\ UNCHANGED storeVars

MutexTimesOut(t) ==
    /\ At(t, "lock") /\ mutex[Process(t)] # "free"
    /\ weak' = TRUE /\ Goto(t, "load")
    /\ UNCHANGED <<now, override, file, mutex, flock, ledger>>

\* Mutant: the lock of the process is taken for the lock of the file.
MutTakeFlock(t) ==
    /\ At(t, "flock") /\ Goto(t, "load")
    /\ UNCHANGED <<now, override, file, mutex, flock, weak, ledger>>

\* The lock of the file is tried for a shorter while, then done without.
TakeFlock(t) ==
    /\ At(t, "flock") /\ flock = "free"
    /\ flock' = t /\ Goto(t, "load")
    /\ UNCHANGED <<now, override, file, mutex, weak, ledger>>

FlockTimesOut(t) ==
    /\ At(t, "flock") /\ flock # "free"
    /\ weak' = TRUE /\ Goto(t, "load")
    /\ UNCHANGED <<now, override, file, mutex, flock, ledger>>

\* A file that cannot be read counts as one without entries.
Load(t) ==
    /\ At(t, "load")
    /\ \/ /\ job' = [job EXCEPT ![t].pc = "write", ![t].seen = file]
          /\ UNCHANGED weak
       \/ /\ t \in Unlucky
          /\ job' = [job EXCEPT ![t].pc = "write", ![t].seen = EmptyStore]
          /\ weak' = TRUE
    /\ UNCHANGED <<now, override, file, mutex, flock, ledger>>

Changed(store, t) ==
    LET j == job[t]
    IN  [store EXCEPT ![j.key] = IF j.do = "record" THEN NewEntry(@, j.at) ELSE NoEntry]

\* The file becomes what was read with the one entry changed.
Replace(t) ==
    /\ file' = Changed(job[t].seen, t)
    /\ ledger' = Changed(ledger, t)

Freed(lock, ts) == IF lock \in ts THEN "free" ELSE lock
ReleaseBy(ts) ==
    /\ mutex' = [p \in Processes |-> Freed(mutex[p], ts)]
    /\ flock' = Freed(flock, ts)

ToWrite(t) == job[t].do = "record" \/ job[t].seen[job[t].key] # NoEntry

\* The file is replaced, unless there is nothing to clear or the write fails, which
\* nobody is told of; and the locks are given back.
WriteBack(t) ==
    /\ At(t, "write")
    /\ \/ ToWrite(t) /\ Replace(t)
       \/ (~ToWrite(t) \/ t \in Unlucky) /\ UNCHANGED <<file, ledger>>
    /\ ReleaseBy({t})
    /\ job' = [job EXCEPT ![t] = Idle]
    /\ UNCHANGED <<now, override, weak>>

StoreStep(t) ==
    \/ TakeMutex(t) \/ MutexTimesOut(t) \/ TakeFlock(t) \/ FlockTimesOut(t)
    \/ Load(t) \/ WriteBack(t)

\* How long a cooldown can last.
Lengths == {Schedule[i] : i \in DOMAIN Schedule} \cup (Overrides \ {Unset})

\* The file, as long as no thread goes on without a lock or without what the file holds, is the store of the contract.
StoreKept ==
    INSTANCE CooldownContract WITH Longest <- Len(Schedule), store <- file
=============================================================================
