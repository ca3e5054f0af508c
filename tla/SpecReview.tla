------------------------------ MODULE SpecReview ------------------------------
(***************************************************************************)
(* The review of one spec in spec-web: the reviewer adds, edits, resolves, *)
(* reopens, deletes and submits notes through the server, the agent        *)
(* answers them from a process of its own (`review spec-web reply`), an    *)
(* import may replace the thread, and every submitted batch is handed to   *)
(* the agent.                                                              *)
(*                                                                         *)
(* All of them change one JSON file by load, modify and atomic replace     *)
(* under SpecStore._guard: a lock of the process's threads, then an flock  *)
(* between the processes that a filesystem may refuse.  The handoff has    *)
(* two forms.  The foreground server (run_specweb) queues a snapshot of    *)
(* each submit for its watcher thread; beside the daemon, a process of its *)
(* own (watch_submits) polls the file for a new last_submit.               *)
(*                                                                         *)
(* A batch is its timestamp, a tick of a clock of microseconds, and names  *)
(* the press of Submit review that took it.  Of the reviewer's page only   *)
(* what its Reopen buttons would write is kept.  Texts, quotes and drafts  *)
(* are left out (SpecDrafts has the drafts).                               *)
(***************************************************************************)
EXTENDS Naturals, Sequences

CONSTANTS Notes,        \* ids of notes
          MaxSubmits,   \* presses of Submit review
          MaxReplies,   \* answers to one note
          MaxRequests,  \* requests that change the thread, submits apart
          FlockWorks,   \* whether the filesystem grants advisory locks
          Handoffs,     \* the deployments to start in
          None

ASSUME ReviewAssumption ==
    /\ MaxSubmits \in Nat /\ MaxReplies \in Nat /\ MaxRequests \in Nat
    /\ FlockWorks \in BOOLEAN
    /\ Handoffs \subseteq [kind: {"foreground", "daemon"}, once: BOOLEAN]

Submits == 1..MaxSubmits
Batches == 0..MaxSubmits                \* 0: no batch yet, or never submitted
Open == {"pending", "submitted", "answered"}
Note == [status: Open \cup {"resolved"}, batch: Batches, replies: 0..MaxReplies]

ASSUME NoneAssumption == None \notin Note \cup Submits

VARIABLES
    store,      \* the file: its notes and last_submit
    guard,      \* by process: the critical section it is in, and what it will write
    used,       \* ids ever given to a note
    requests,   \* requests so far
    page,       \* by note: what the page's Reopen button would write, if it has one
    serving,    \* whether the server process runs
    clock,      \* the last timestamp taken
    submit,     \* by press of Submit review: where its handler stands
    snapshot,   \* by press: the review as it wrote it, until it is queued
    queue,      \* foreground: snapshots the watcher has yet to print
    handoff,    \* the deployment, and whether the watch ends after one review
    watcher,    \* beside the daemon: the polling process
    prints,     \* the batches whose snapshots the foreground has printed
    told,       \* the notes printed for the agent, with the batch they were in
    flips       \* history: what each submit flipped, and whether a watch was on

thread == <<store, guard, used, requests>>
handlers == <<serving, clock, submit, snapshot, queue>>
watching == <<handoff, watcher, prints, told>>
vars == <<thread, page, handlers, watching, flips>>

Processes == {"server", "agent"}
Live(data) == {n \in Notes : data.notes[n] # None}
InBatch(data, b) == {n \in Live(data) : data.notes[n].batch = b}
Pending(data) == {n \in Live(data) : data.notes[n].status = "pending"}

\* _review_payload: every note of the thread, labelled with a batch.
Payload(data, b) ==
    [label |-> b, notes |-> {<<n, data.notes[n].batch>> : n \in Live(data)}]

Empty == [notes |-> [n \in Notes |-> None], last |-> 0]

Init ==
    /\ store = Empty
    /\ guard = [p \in Processes |-> None]
    /\ used = {} /\ requests = 0
    /\ page = [n \in Notes |-> None]
    /\ serving = TRUE /\ clock = 0
    /\ submit = [s \in Submits |-> "idle"]
    /\ snapshot = [s \in Submits |-> None]
    /\ queue = << >>
    /\ handoff \in Handoffs
    /\ watcher = [pc |-> "off", seen |-> 0, current |-> 0]
    /\ prints = {} /\ told = {}
    /\ flips = [s \in Submits |-> [notes |-> {}, watched |-> FALSE]]

-----------------------------------------------------------------------------
(* What a request makes of the thread it loaded. *)

New(status) == [status |-> status, batch |-> 0, replies |-> 0]
SetNote(data, n, note) == [data EXCEPT !.notes[n] = note]

\* The Reopen button of a resolved note: the state it was in before.
Reopened(note) ==
    IF note.batch = 0 THEN "pending" ELSE IF note.replies > 0 THEN "answered" ELSE "submitted"

\* add_reply: an answer to a note that is not submitted does not change its status.
Replied(note) ==
    [note EXCEPT !.replies = @ + 1,
                 !.status = IF @ = "submitted" THEN "answered" ELSE @]

\* submit_pending: one batch for every pending note.
Flipped(data, b) ==
    [notes |-> [n \in Notes |-> IF n \in Pending(data)
                                THEN [data.notes[n] EXCEPT !.status = "submitted", !.batch = b]
                                ELSE data.notes[n]],
     last |-> b]

\* import_thread: a note with a new id, over an empty thread when it replaces.
Imported(data, n, status, wipe) ==
    SetNote(IF wipe THEN Empty ELSE data, n, New(status))

-----------------------------------------------------------------------------
(* The critical section: SpecStore._guard around load, modify and _write. *)

\* Mutant: only the lock of the process's own threads.
MutFree(p) == guard[p] = None

Free(p) ==
    /\ guard[p] = None
    /\ FlockWorks => \A q \in Processes : guard[q] = None

\* The lock is taken and the file read; what will be written follows from it.
Load(p, data, drops, by) ==
    /\ Free(p)
    /\ p = "server" => serving
    /\ guard' = [guard EXCEPT ![p] = [data |-> data, drops |-> drops, by |-> by]]
    /\ requests' = IF by = None THEN requests + 1 ELSE requests
    /\ requests' <= MaxRequests
    /\ UNCHANGED <<store, page, handlers, watching, flips>>

\* A change of one note that the file has (an unknown id is answered 404).
Change(p, n, note) ==
    /\ n \in Live(store)
    /\ Load(p, SetNote(store, n, note), {}, None)
    /\ UNCHANGED used

AddNote(n) ==
    /\ n \notin used /\ used' = used \cup {n}
    /\ Load("server", SetNote(store, n, New("pending")), {}, None)

EditNote(n) == Change("server", n, store.notes[n])

\* The reviewer's answer box, or `review spec-web reply` in the agent's process.
Reply(p, n) ==
    /\ n \in Live(store) /\ store.notes[n].replies < MaxReplies
    /\ Change(p, n, Replied(store.notes[n]))

\* set_status, with what the button of the page says.
Resolve(n) ==
    /\ page[n] = None /\ n \in Live(store)
    /\ Change("server", n, [store.notes[n] EXCEPT !.status = "resolved"])

Reopen(n) ==
    /\ page[n] # None /\ n \in Live(store)
    /\ Change("server", n, [store.notes[n] EXCEPT !.status = page[n]])

DeleteNote(n) ==
    /\ n \in Live(store)
    /\ Load("server", SetNote(store, n, None), {n}, None)
    /\ UNCHANGED used

\* POST /api/import, or --seed in the agent's process.
Import(p, n, status, wipe) ==
    /\ n \notin used /\ used' = used \cup {n}
    /\ Load(p, Imported(store, n, status, wipe), IF wipe THEN Live(store) ELSE {}, None)

EnterSubmit(s) ==
    /\ submit[s] = "stamped" /\ Pending(store) # {}
    /\ Load("server", Flipped(store, s), {}, s)
    /\ UNCHANGED used

Watched == handoff.kind = "foreground" \/ watcher.pc # "off"

\* os.replace; a submit keeps the snapshot of what it wrote.
Write(p) ==
    /\ guard[p] # None
    /\ store' = guard[p].data
    /\ guard' = [guard EXCEPT ![p] = None]
    /\ LET s == guard[p].by
       IN  IF s = None
           THEN UNCHANGED <<submit, snapshot, flips>>
           ELSE /\ submit' = [submit EXCEPT ![s] = "written"]
                /\ snapshot' = [snapshot EXCEPT ![s] = Payload(store', s)]
                /\ flips' = [flips EXCEPT ![s] = [notes |-> InBatch(store', s),
                                                  watched |-> Watched]]
    /\ UNCHANGED <<used, requests, page, serving, clock, queue, watching>>

-----------------------------------------------------------------------------
(* The handler of a press of Submit review. *)

Advance(s, from, to) ==
    /\ serving /\ submit[s] = from
    /\ submit' = [submit EXCEPT ![s] = to]
    /\ UNCHANGED <<thread, page, serving, watching, flips>>

\* submit_pending takes the batch's timestamp before it asks for the lock.
Press(s) ==
    /\ s = clock + 1 /\ clock' = s
    /\ Advance(s, "idle", "stamped")
    /\ UNCHANGED <<snapshot, queue>>

\* No pending note: nothing is written and nobody is told.
SubmitNothing(s) ==
    /\ Free("server") /\ Pending(store) = {}
    /\ Advance(s, "stamped", "done")
    /\ UNCHANGED <<clock, snapshot, queue>>

\* Mutant: the queue gets the review as it is when the handler comes to it.
MutNotify(s) ==
    /\ Advance(s, "written", "done")
    /\ queue' = IF handoff.kind = "foreground" THEN Append(queue, Payload(store, s)) ELSE queue
    /\ snapshot' = [snapshot EXCEPT ![s] = None]
    /\ UNCHANGED clock

\* _notify_submit, a queue only the foreground has, and _deliver_submit, which
\* injects the batch into the agent's tmux pane and at worst reports that it failed.
Notify(s) ==
    /\ Advance(s, "written", "done")
    /\ queue' = IF handoff.kind = "foreground" THEN Append(queue, snapshot[s]) ELSE queue
    /\ snapshot' = [snapshot EXCEPT ![s] = None]
    /\ UNCHANGED clock

-----------------------------------------------------------------------------
(* The reviewer's page, and the server's process. *)

\* GET /api/comments, on a poll or after a request, whenever it is answered.
LoadPage ==
    /\ serving
    /\ page' = [n \in Notes |-> IF n \in Live(store) /\ store.notes[n].status = "resolved"
                                THEN Reopened(store.notes[n]) ELSE None]
    /\ UNCHANGED <<thread, handlers, watching, flips>>

\* The server's process ends, its threads and its queue with it.
Exit ==
    /\ serving /\ serving' = FALSE
    /\ guard' = [guard EXCEPT !["server"] = None]
    /\ submit' = [s \in Submits |-> IF submit[s] = "idle" THEN "idle" ELSE "done"]
    /\ snapshot' = [s \in Submits |-> None]
    /\ queue' = << >>
    /\ UNCHANGED <<store, used, requests, page, clock, handoff, watcher, flips>>

\* Ctrl-C, or a kill.
StopServer == Exit /\ UNCHANGED <<prints, told>>

\* The daemon is started again; a foreground review is not.
StartDaemon ==
    /\ ~serving /\ handoff.kind = "daemon"
    /\ serving' = TRUE
    /\ UNCHANGED <<thread, page, clock, submit, snapshot, queue, watching, flips>>

-----------------------------------------------------------------------------
(* run_specweb's watcher thread. *)

Emit(review) == told' = told \cup review.notes

PrintQueued ==
    /\ queue # << >>
    /\ Emit(Head(queue))
    /\ prints' = prints \cup {Head(queue).label}
    /\ \/ handoff.once /\ Exit      \* --exit-on-submit: httpd.shutdown()
       \/ /\ ~handoff.once
          /\ queue' = Tail(queue)
          /\ UNCHANGED <<thread, page, serving, clock, submit, snapshot, handoff, watcher, flips>>

-----------------------------------------------------------------------------
(* watch_submits, beside the daemon.  It reads the file without a lock. *)

Watch(w) ==
    /\ handoff.kind = "daemon"
    /\ watcher' = w
    /\ UNCHANGED <<thread, page, handlers, handoff, prints, flips>>

\* `serve`, or `watch` with or without --emit-current: last_submit is the baseline.
StartWatch(emitCurrent) ==
    /\ watcher.pc = "off"
    /\ Watch([watcher EXCEPT !.pc = IF emitCurrent THEN "current" ELSE "asleep",
                             !.seen = store.last])
    /\ UNCHANGED told

ReadCurrent ==
    /\ watcher.pc = "current"
    /\ Watch([watcher EXCEPT !.pc = IF store.last = 0 THEN "asleep" ELSE "emit",
                             !.current = store.last])
    /\ UNCHANGED told

\* Mutant: a submit is fresh if its timestamp is later, not if it is another one.
MutPoll ==
    /\ watcher.pc = "asleep" /\ store.last > watcher.seen
    /\ Watch([watcher EXCEPT !.pc = "emit", !.current = store.last])
    /\ UNCHANGED told

Poll ==
    /\ watcher.pc = "asleep" /\ store.last \notin {0, watcher.seen}
    /\ Watch([watcher EXCEPT !.pc = "emit", !.current = store.last])
    /\ UNCHANGED told

\* The review is read after last_submit was, in a load of its own.
EmitReview ==
    /\ watcher.pc = "emit"
    /\ Emit(Payload(store, store.last))
    /\ Watch([watcher EXCEPT !.pc = IF handoff.once THEN "ended" ELSE "asleep",
                             !.seen = watcher.current])

-----------------------------------------------------------------------------
Request ==
    \/ \E n \in Notes :
          \/ AddNote(n) \/ EditNote(n) \/ Resolve(n) \/ Reopen(n) \/ DeleteNote(n)
          \/ \E p \in Processes : Reply(p, n)
          \/ \E p \in Processes, status \in {"pending", "submitted"}, wipe \in BOOLEAN :
                Import(p, n, status, wipe)
    \/ \E s \in Submits : EnterSubmit(s)

Handler == \E s \in Submits : Press(s) \/ SubmitNothing(s) \/ Notify(s)

Watching ==
    \/ PrintQueued \/ ReadCurrent \/ Poll \/ EmitReview
    \/ \E emitCurrent \in BOOLEAN : StartWatch(emitCurrent)

Next ==
    \/ Request \/ Handler \/ Watching
    \/ \E p \in Processes : Write(p)
    \/ LoadPage \/ StopServer \/ StartDaemon

\* The threads of a running process go on; nobody has to press, start or stop anything.
Fairness ==
    /\ \A s \in Submits : WF_vars(Notify(s))
    /\ WF_vars(PrintQueued) /\ WF_vars(ReadCurrent) /\ WF_vars(Poll) /\ WF_vars(EmitReview)

Spec == Init /\ [][Next]_vars /\ Fairness

-----------------------------------------------------------------------------
(* Properties. *)

Files == [notes: [Notes -> Note \cup {None}], last: Batches]
Payloads == [label: Submits, notes: SUBSET (Notes \X Batches)]

\* Every variable keeps its type: the shape of the file, of a handler and of a watch.
SRTypeOK ==
    /\ store \in Files /\ Live(store) \subseteq used /\ used \subseteq Notes
    /\ \A p \in Processes : guard[p] # None =>
          /\ guard[p].data \in Files /\ Live(guard[p].data) \subseteq used
          /\ guard[p].drops \subseteq Notes /\ guard[p].by \in Submits \cup {None}
    /\ requests \in 0..MaxRequests
    /\ page \in [Notes -> Open \cup {None}]
    /\ serving \in BOOLEAN /\ clock \in Batches
    /\ submit \in [Submits -> {"idle", "stamped", "written", "done"}]
    /\ \A s \in Submits : submit[s] = "written" => snapshot[s] \in Payloads
    /\ queue \in Seq(Payloads) /\ prints \subseteq Submits
    /\ handoff \in [kind: {"foreground", "daemon"}, once: BOOLEAN]
    /\ watcher \in [pc: {"off", "asleep", "current", "emit", "ended"},
                    seen: Batches, current: Batches]
    /\ told \subseteq Notes \X Batches
    /\ flips \in [Submits -> [notes: SUBSET Notes, watched: BOOLEAN]]

\* No update of the thread is lost between the server's threads and the agent's
\* process (SpecStore._guard): a note leaves the file only by its deletion or by a
\* replacing import that saw it, and its answers never become fewer.
NotesSurvive ==
    [][\A n \in Live(store) :
          \/ n \in Live(store') /\ store'.notes[n].replies >= store.notes[n].replies
          \/ \E p \in Processes : guard[p] # None /\ guard'[p] = None /\ n \in guard[p].drops]_vars

\* "Two rapid submits each emit a payload for their batch": what the foreground
\* prints for a batch is the state right after that submit, whatever was edited,
\* deleted, imported or submitted meanwhile; no batch is printed twice, and only
\* one when the review ends on submit.
EachSubmitSpeaksForItself ==
    /\ \A i \in 1..Len(queue) :
          /\ {n \in Notes : <<n, queue[i].label>> \in queue[i].notes}
                = flips[queue[i].label].notes
          /\ queue[i].label \notin prints
          /\ \A j \in 1..(i - 1) : queue[j].label # queue[i].label
    /\ handoff.once => \A a, b \in prints : a = b

\* The notes of a submit that the agent that watches has not been shown: none is left
\* when they are withdrawn or submitted again, when the one review that was asked for
\* has been printed, or when the foreground process that held the queue is gone.
Owed(s) ==
    IF watcher.pc = "ended" \/ (handoff.kind = "foreground" /\ ~serving) \/ ~flips[s].watched
    THEN {}
    ELSE {n \in flips[s].notes : <<n, s>> \notin told /\ n \in InBatch(store, s)}

\* Every submitted note reaches the agent that watches, through the queue or the
\* file, whatever becomes of the daemon meanwhile.
EverySubmitReachesTheWatch == \A s \in Submits : Owed(s) # {} ~> Owed(s) = {}
=============================================================================
