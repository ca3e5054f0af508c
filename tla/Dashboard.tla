----------------------------- MODULE Dashboard ------------------------------
(* The dashboard's server (dashboard/server.py, parser.py, call_log_cache.py): *)
(* logs grow while it reads them, and what it read is kept in three places,    *)
(* each with the stamp it trusts: a row per log in a database, the last parse  *)
(* shared by the event streams and the startup thread, and the sessions (with  *)
(* the totals derived from them) the pages ask for. What was read is kept as   *)
(* how many lines of each log it covers; CallLogs says what they come to.      *)
EXTENDS CallLogs

CONSTANTS
    Files,              \* 1..n: the logs, in the order they are begun
    Threads,            \* request handlers, event streams and the startup threads
    Refreshers,         \* the background refreshes there can be at once
    Gaps,               \* what separates two runs, as a request may say
    RetryLimit,         \* _LINEAGE_RETRY_LIMIT
    RecentRuns,         \* _SSE_RECENT_RUNS
    Works               \* the cases: what is logged, and who asks for what

VARIABLES
    work,       \* the case at hand
    logs,       \* when each line of each log was written
    outside,    \* the time, the logs removed, the parses that failed
    rows,       \* the database: a stamp, and how much of the log was read under it
    flight,     \* the shared parse of each gap: its signature, what it covers, whether one is under way
    cache,      \* the page's sessions
    threads,    \* what each thread is doing
    page        \* what each page was last answered, or its stream last told it

vars == <<work, logs, outside, rows, flight, cache, threads, page>>

ASSUME DashboardAssumption ==
    /\ IsFiniteSet(Files) /\ Files = 1..Cardinality(Files)
    /\ IsFiniteSet(Threads) /\ Threads \cap Refreshers = {} /\ Gaps \subseteq Nat
    /\ \A w \in Works :
        /\ w.written \in [Files -> Nat]
        /\ w.asks \in [Threads -> Seq([op : {"runs", "stats", "force", "watch", "warm"}, gap : Gaps])]

\* How a log ends: with the footer of how its call ended. A killed call left none, and
\* its last line is not one that reads as an exit with 0 (which would be taken for it).
EndsAs(lines, ends) ==
    /\ Len(Footers[ends]) <= Len(lines)
    /\ \A i \in DOMAIN Footers[ends] :
            lines[Len(lines) - Len(Footers[ends]) + i] = Footers[ends][i]
    /\ ends = "killed" => ExitOf(lines) # 0
ASSUME WrittenAssumption ==
    \A w \in Works, f \in Files :
        /\ w.logs[f].lines \in Seq([what : STRING, who : STRING])
        /\ w.written[f] <= Len(w.logs[f].lines)
        /\ w.logs[f].kind = "call" =>
            /\ w.logs[f].name = f /\ w.logs[f].ends \in DOMAIN Footers
            /\ EndsAs(w.logs[f].lines, w.logs[f].ends)

----------------------------------------------------------------------------
(* The log directory.                                                        *)

Absent == -1
Nothing == [f \in Files |-> Absent]
Gone(f) == f \in outside.gone
Present == {f \in Files : logs[f] # <<>> /\ ~Gone(f)}
Length(f) == IF Gone(f) THEN 0 ELSE Len(logs[f])
Current == [f \in Files |-> IF f \in Present THEN Len(logs[f]) ELSE Absent]

\* What a stat tells of a log, of the directory, and of the directory with sizes.
Stamp(f) == <<Last(logs[f]), Len(logs[f])>>
Newest(fs) == IF fs = {} THEN 0 ELSE Max({Last(logs[f]) : f \in fs})
Signature == <<Cardinality(Present), Newest(Present)>>
Fingerprint ==
    <<Cardinality(Present), Newest(Present),
      Cardinality(UNION {{f} \X DOMAIN logs[f] : f \in Present})>>

\* A run appends its next line; it may be killed before any of them. Each append is
\* at a later time than all before: what two appends within one tick of the file system's
\* clock, or a log dated in the future, do to a count and a newest time is not modelled.
Write(f) ==
    /\ Len(logs[f]) < Len(work.logs[f].lines) /\ ~Gone(f)
    /\ f > 1 => logs[f - 1] # <<>>
    /\ outside' = [outside EXCEPT !.now = @ + 1]
    /\ logs' = [logs EXCEPT ![f] = Append(@, outside.now + 1)]
    /\ UNCHANGED <<work, rows, flight, cache, threads, page>>

Delete(f) ==
    /\ f \in Present /\ f \in work.removable
    /\ outside' = [outside EXCEPT !.gone = @ \cup {f}]
    /\ UNCHANGED <<work, logs, rows, flight, cache, threads, page>>

----------------------------------------------------------------------------
(* Reading the directory.                                                    *)

NoRow == [stamp |-> <<0, 0>>, read |-> 0]
NoCover == [gap |-> 0, seen |-> Nothing]
NoThread ==
    [pc |-> "off", asks |-> <<>>, gap |-> 0, ret |-> "off", next |-> {},
     stamp |-> <<0, 0>>, read |-> 0, seen |-> Nothing, mark |-> <<>>, tries |-> 0,
     got |-> NoCover, gen |-> 0, last |-> Nothing]

At(t, pc) == threads[t].pc = pc
Step(t, th) == threads' = [threads EXCEPT ![t] = th]
Back(t, pc) ==
    [NoThread EXCEPT !.pc = pc, !.asks = threads[t].asks, !.tries = threads[t].tries]

\* The directory is listed first; a log begun later is not read this time.
LoadFor(th, gap, ret) ==
    [th EXCEPT !.pc = "look", !.gap = gap, !.ret = ret, !.seen = Nothing,
               !.next = Present]

First(fs) == CHOOSE f \in fs : \A g \in fs : f <= g
Covered(th, f, n) ==
    [th EXCEPT !.pc = "look", !.next = @ \ {f}, !.seen[f] = n, !.read = 0,
               !.stamp = <<0, 0>>]

\* The stat comes first. A row under the same stamp is used; a transcript, or a
\* directory whose database does not open, is read each time.
Look(t) ==
    /\ At(t, "look") /\ threads[t].next # {}
    /\ LET f == First(threads[t].next)
           th == threads[t]
       IN  IF Gone(f) THEN Step(t, Covered(th, f, Absent))
           ELSE IF ~work.db \/ work.logs[f].kind = "md" THEN Step(t, Covered(th, f, Length(f)))
           ELSE IF rows[f].stamp = Stamp(f) THEN Step(t, Covered(th, f, rows[f].read))
           ELSE Step(t, [th EXCEPT !.pc = "parse", !.stamp = Stamp(f)])
    /\ UNCHANGED <<work, logs, outside, rows, flight, cache, page>>

\* A log removed since is read as an empty one.
Parse(t) ==
    /\ At(t, "parse")
    /\ Step(t, [threads[t] EXCEPT !.pc = "store", !.read = Length(First(threads[t].next))])
    /\ UNCHANGED <<work, logs, outside, rows, flight, cache, page>>

\* Mutant: the stamp is taken when the row is stored.
MutRowOf(th, f) == [stamp |-> Stamp(f), read |-> th.read]

RowOf(th, f) == [stamp |-> th.stamp, read |-> th.read]

Store(t) ==
    /\ At(t, "store")
    /\ LET f == First(threads[t].next)
       IN  /\ rows' = [rows EXCEPT ![f] = RowOf(threads[t], f)]
           /\ Step(t, Covered(threads[t], f, threads[t].read))
    /\ UNCHANGED <<work, logs, outside, flight, cache, page>>

\* The whole directory has been read: rows of logs that are gone are dropped.
Loaded(t, ret) ==
    /\ At(t, "look") /\ threads[t].next = {} /\ threads[t].ret = ret
    /\ rows' = [f \in Files |-> IF f \in Present THEN rows[f] ELSE NoRow]
Found(t) == [gap |-> threads[t].gap, seen |-> threads[t].seen]

----------------------------------------------------------------------------
(* The sessions the pages ask for.                                           *)

EmptyCache ==
    [has |-> FALSE, lineage |-> 0, mark |-> <<>>, cover |-> NoCover, gen |-> 0,
     derived |-> [gen |-> 0, cover |-> NoCover], refreshing |-> FALSE, due |-> FALSE,
     missed |-> FALSE]

\* Generations are only compared, so a number nobody holds may be used again.
NextGeneration == Min((1..Cardinality(Threads) + 2) \ ({threads[t].gen : t \in Threads} \cup {cache.gen}))

\* A new generation of sessions; the totals of the one before are dropped.
Installed(c, gap, cover, mark) ==
    [c EXCEPT !.has = TRUE, !.lineage = gap, !.cover = cover, !.mark = mark,
              !.gen = NextGeneration, !.derived = EmptyCache.derived, !.due = FALSE,
              !.missed = FALSE]

\* The window between two refreshes has passed.
Window ==
    /\ cache.has /\ ~cache.due
    /\ cache' = [cache EXCEPT !.due = TRUE]
    /\ UNCHANGED <<work, logs, outside, rows, flight, threads, page>>

Ask(t) == Head(threads[t].asks)
Asks(t, ops) == threads[t].asks # <<>> /\ Ask(t).op \in ops

MustBlock(t) == Ask(t).op = "force" \/ (cache.has /\ cache.lineage # Ask(t).gap)

\* A forced request, or one for another gap than is kept, reads the logs itself.
EnsureBlocks(t) ==
    /\ At(t, "ask") /\ Asks(t, {"runs", "stats", "force"}) /\ MustBlock(t)
    /\ cache' = [cache EXCEPT !.refreshing = TRUE]
    /\ Step(t, LoadFor(threads[t], Ask(t).gap, "install"))
    /\ UNCHANGED <<work, logs, outside, rows, flight, page>>

\* Nothing was ever read: a page gets an empty answer while a refresh is under way.
Placeholder(c, gap) == Installed(c, gap, [gap |-> gap, seen |-> Nothing], <<>>)

\* Otherwise what is kept will do, and a refresh starts when one is due.
Ensures(t) ==
    /\ At(t, "ask") /\ Asks(t, {"runs", "stats"}) /\ ~MustBlock(t)
    /\ LET kept == IF cache.has THEN cache ELSE Placeholder(cache, Ask(t).gap)
           start == /\ ~cache.refreshing
                    /\ cache.has => cache.due /\ cache.mark # Fingerprint
       IN  \/ /\ ~start
              /\ cache' = kept
              /\ Step(t, [threads[t] EXCEPT !.pc = "read"])
           \/ /\ start
              /\ cache' = [kept EXCEPT !.refreshing = TRUE]
              /\ \E b \in Refreshers : At(b, "off")
              /\ LET b == CHOOSE b \in Refreshers : At(b, "off")
                 IN  threads' = [threads EXCEPT ![t].pc = "read", ![b].pc = "refresh",
                                                ![b].gap = Ask(t).gap]
    /\ UNCHANGED <<work, logs, outside, rows, flight, page>>

\* The sessions a forced or blocked request has read; the fingerprint is taken now.
\* missed says that the logs had changed since they were read.
Install(t) ==
    /\ Loaded(t, "install")
    /\ cache' = [Installed(cache, threads[t].gap, Found(t), Fingerprint)
                    EXCEPT !.refreshing = FALSE, !.missed = Found(t).seen # Current]
    /\ Step(t, Back(t, "read"))
    /\ UNCHANGED <<work, logs, outside, flight, page>>

\* Mutant: what is kept is taken whatever gap it was read for.
MutIsFor(c, gap) == c.has

IsFor(c, gap) == c.has /\ c.lineage = gap

\* A page that polls goes on asking its last question.
Done(t) ==
    LET asks == threads[t].asks
    IN  [NoThread EXCEPT !.pc = "ask",
                         !.asks = IF Len(asks) = 1 /\ t \in work.polls THEN asks ELSE Tail(asks)]

Answer(t, cover) ==
    /\ page' = [page EXCEPT ![t].op = Ask(t).op, ![t].gap = Ask(t).gap, ![t].shown = cover]
    /\ Step(t, Done(t))

\* The request has sessions of generation gen: the runs are the answer, the totals
\* are derived first.
GoesOn(t, cover, gen) ==
    IF Ask(t).op # "stats" THEN Answer(t, cover)
    ELSE /\ Step(t, [Back(t, "derive") EXCEPT !.got = cover, !.gen = gen])
         /\ UNCHANGED page

\* The kept sessions are another gap's by now: try again, and at the limit read
\* the logs for this answer alone.
ReadCache(t) ==
    /\ At(t, "read")
    /\ IF IsFor(cache, Ask(t).gap) THEN GoesOn(t, cache.cover, cache.gen)
       ELSE /\ Step(t, IF threads[t].tries + 1 < RetryLimit
                       THEN [Back(t, "ask") EXCEPT !.tries = @ + 1]
                       ELSE LoadFor(threads[t], Ask(t).gap, "direct"))
            /\ UNCHANGED page
    /\ UNCHANGED <<work, logs, outside, rows, flight, cache>>

Direct(t) ==
    /\ Loaded(t, "direct")
    /\ GoesOn(t, Found(t), Absent)
    /\ UNCHANGED <<work, logs, outside, flight, cache>>

\* The totals of this generation, if they are kept; else they are computed.
Derive(t) ==
    /\ At(t, "derive")
    /\ IF cache.derived.gen = threads[t].gen THEN Answer(t, cache.derived.cover)
       ELSE Step(t, [threads[t] EXCEPT !.pc = "memo"]) /\ UNCHANGED page
    /\ UNCHANGED <<work, logs, outside, rows, flight, cache>>

\* They are kept only while the sessions they were computed from are.
Memo(t) ==
    /\ At(t, "memo")
    /\ cache' = IF cache.gen = threads[t].gen
                THEN [cache EXCEPT !.derived = [gen |-> cache.gen, cover |-> threads[t].got]]
                ELSE cache
    /\ Answer(t, threads[t].got)
    /\ UNCHANGED <<work, logs, outside, rows, flight>>

\* A background refresh takes the fingerprint before it reads.
Refresh(b) ==
    /\ At(b, "refresh")
    /\ Step(b, [LoadFor(threads[b], threads[b].gap, "replace") EXCEPT !.mark = Fingerprint])
    /\ UNCHANGED <<work, logs, outside, rows, flight, cache, page>>

\* It does not replace the sessions of another gap that came in meanwhile.
Replace(b) ==
    /\ Loaded(b, "replace")
    /\ cache' = [IF cache.lineage = threads[b].gap
                 THEN Installed(cache, threads[b].gap, Found(b), threads[b].mark)
                 ELSE cache EXCEPT !.refreshing = FALSE]
    /\ Step(b, NoThread)
    /\ UNCHANGED <<work, logs, outside, flight, page>>

----------------------------------------------------------------------------
(* The shared parse and the startup thread.                                  *)

EmptyFlight == [has |-> FALSE, sig |-> <<>>, cover |-> NoCover, busy |-> FALSE]
Shared(t) == flight[Ask(t).gap]

\* The startup thread asks once.
Sign(t) ==
    /\ At(t, "sign") \/ (At(t, "ask") /\ Asks(t, {"warm"}))
    /\ Step(t, [threads[t] EXCEPT !.pc = "enter", !.mark = Signature])
    /\ UNCHANGED <<work, logs, outside, rows, flight, cache, page>>

\* A parse under the same signature serves; one under way is waited for.
Enter(t) ==
    /\ At(t, "enter")
    /\ IF Shared(t).has /\ Shared(t).sig = threads[t].mark
       THEN /\ Step(t, [threads[t] EXCEPT !.pc = "told", !.got = Shared(t).cover])
            /\ UNCHANGED <<flight, page>>
       ELSE IF Shared(t).busy
       THEN /\ Step(t, [threads[t] EXCEPT !.pc = "wait"])
            /\ page' = [page EXCEPT ![t].late = TRUE]
            /\ UNCHANGED flight
       ELSE /\ flight' = [flight EXCEPT ![Ask(t).gap].busy = TRUE]
            /\ Step(t, LoadFor(threads[t], Ask(t).gap, "publish"))
            /\ UNCHANGED page
    /\ UNCHANGED <<work, logs, outside, rows, cache>>

\* All gaps share one condition: whoever waits is woken.
Woken(ths) ==
    [t \in DOMAIN ths |-> IF ths[t].pc = "wait" THEN [ths[t] EXCEPT !.pc = "woken"] ELSE ths[t]]

Publish(t) ==
    /\ Loaded(t, "publish")
    /\ flight' = [flight EXCEPT ![Ask(t).gap] =
                    [has |-> TRUE, sig |-> threads[t].mark, cover |-> Found(t), busy |-> FALSE]]
    /\ threads' = Woken([threads EXCEPT ![t].pc = "told", ![t].got = Found(t)])
    /\ UNCHANGED <<work, logs, outside, cache, page>>

\* A waiter takes what the other found, whatever it was asked under, or what was kept
\* before if it was another gap's parse that ended.
Wake(t) ==
    /\ At(t, "woken")
    /\ Step(t, IF Shared(t).has THEN [threads[t] EXCEPT !.pc = "told", !.got = Shared(t).cover]
               ELSE [threads[t] EXCEPT !.pc = "enter"])
    /\ UNCHANGED <<work, logs, outside, rows, flight, cache, page>>

----------------------------------------------------------------------------
(* The event streams.                                                        *)

\* A stream begins with the logs as they are: a new baseline and nothing else. What
\* changed while it was down is told by nobody, for the page reads nothing again when
\* its stream opens.
Connect(t) ==
    /\ At(t, "ask") /\ Asks(t, {"watch"})
    /\ Step(t, [threads[t] EXCEPT !.pc = "poll", !.last = Current])
    /\ page' = [page EXCEPT
                    ![t].op = "watch", ![t].gap = Ask(t).gap, ![t].base = Current, ![t].mark = <<>>,
                    ![t].shown = IF @.gap = Ask(t).gap THEN @
                                 ELSE [gap |-> Ask(t).gap, seen |-> Nothing]]
    /\ UNCHANGED <<work, logs, outside, rows, flight, cache>>

\* Each poll compares the logs with the last poll that found a change.
Poll(t) ==
    /\ At(t, "poll") /\ threads[t].last # Current
    /\ Step(t, [threads[t] EXCEPT
                    !.pc = "tell", !.seen = Current,
                    !.next = {f \in Present : Current[f] # threads[t].last[f]}])
    /\ page' = [page EXCEPT ![t].mark = Signature]
    /\ UNCHANGED <<work, logs, outside, rows, flight, cache>>

\* An event for each changed log, as it is when its turn comes.
Tell(t) ==
    /\ At(t, "tell") /\ threads[t].next # {}
    /\ page' = [page EXCEPT ![t].told[First(threads[t].next)] = Length(First(threads[t].next))]
    /\ Step(t, [threads[t] EXCEPT !.next = @ \ {First(@)}])
    /\ UNCHANGED <<work, logs, outside, rows, flight, cache>>

\* Mutant: the logs are looked at again when the events are out.
MutBaseline(t) == Current

\* The next poll compares with what this one saw.
Baseline(t) == threads[t].seen

\* Then the runs, through the shared parse.
TellRuns(t) ==
    /\ At(t, "tell") /\ threads[t].next = {}
    /\ Step(t, [threads[t] EXCEPT !.pc = "sign", !.last = Baseline(t)])
    /\ page' = [page EXCEPT ![t].late = FALSE]
    /\ UNCHANGED <<work, logs, outside, rows, flight, cache>>

\* The stream sends the newest of the runs the parse came to (RunsSent) and polls on; the
\* startup thread ends.
Told(t) ==
    /\ At(t, "told")
    /\ IF Ask(t).op = "warm"
       THEN Step(t, Done(t)) /\ UNCHANGED page
       ELSE /\ page' = [page EXCEPT ![t].shown = threads[t].got]
            /\ Step(t, [NoThread EXCEPT !.pc = "poll", !.asks = threads[t].asks,
                                        !.last = threads[t].last])
    /\ UNCHANGED <<work, logs, outside, rows, flight, cache>>

----------------------------------------------------------------------------
(* A parse fails half way.                                                   *)

\* The page gets an error, the startup refresh gives up, a stream is closed and
\* the page connects again.
Refused(t) ==
    [Done(t) EXCEPT !.asks = IF Ask(t).op = "force" THEN <<>>
                                         ELSE IF Ask(t).op = "watch" THEN threads[t].asks
                                         ELSE @]

Fail(t) ==
    /\ At(t, "look") /\ outside.failed < work.failures
    /\ outside' = [outside EXCEPT !.failed = @ + 1]
    /\ CASE threads[t].ret = "install" ->
              /\ cache' = [cache EXCEPT !.refreshing = FALSE]
              /\ Step(t, Refused(t)) /\ UNCHANGED flight
         [] threads[t].ret = "replace" ->
              /\ cache' = [cache EXCEPT !.due = FALSE, !.refreshing = FALSE]
              /\ Step(t, NoThread) /\ UNCHANGED flight
         [] threads[t].ret = "publish" ->
              /\ flight' = [flight EXCEPT ![Ask(t).gap].busy = FALSE]
              /\ threads' = Woken([threads EXCEPT ![t] = Refused(t)]) /\ UNCHANGED cache
         [] threads[t].ret = "direct" ->
              /\ Step(t, Refused(t)) /\ UNCHANGED <<flight, cache>>
    /\ UNCHANGED <<work, logs, rows, page>>

----------------------------------------------------------------------------
(* The specification.                                                        *)

NoPage ==
    [op |-> "none", gap |-> 0, shown |-> NoCover, told |-> Nothing, base |-> Nothing,
     mark |-> <<>>, late |-> FALSE]

Init ==
    /\ work \in Works
    /\ logs = [f \in Files |-> [i \in 1..work.written[f] |-> 0]]
    /\ outside = [now |-> 0, gone |-> {}, failed |-> 0]
    /\ rows = [f \in Files |-> NoRow]
    /\ flight = [gap \in Gaps |-> EmptyFlight] /\ cache = EmptyCache
    /\ threads = [t \in Threads \cup Refreshers |->
                    IF t \in Threads THEN [NoThread EXCEPT !.pc = "ask", !.asks = work.asks[t]]
                    ELSE NoThread]
    /\ page = [t \in Threads |-> NoPage]

Loads(t) == Look(t) \/ Parse(t) \/ Store(t)
Requests(t) ==
    \/ EnsureBlocks(t) \/ Ensures(t) \/ Install(t) \/ ReadCache(t) \/ Direct(t)
    \/ Derive(t) \/ Memo(t)
Streams(t) ==
    \/ Sign(t) \/ Enter(t) \/ Publish(t) \/ Wake(t) \/ Connect(t) \/ Poll(t)
    \/ Tell(t) \/ TellRuns(t) \/ Told(t)
Refreshes(b) == Refresh(b) \/ Replace(b)
Runs(t) ==
    \/ Loads(t)
    \/ t \in Threads /\ (Requests(t) \/ Streams(t))
    \/ t \in Refreshers /\ Refreshes(t)

Next ==
    \/ \E f \in Files : Write(f) \/ Delete(f)
    \/ Window
    \/ \E t \in Threads \cup Refreshers : Runs(t) \/ Fail(t)

\* The server's threads are scheduled and time passes; a run may stop writing.
Fairness ==
    /\ WF_vars(Window)
    /\ \A t \in Threads \cup Refreshers : WF_vars(Runs(t))

Spec == Init /\ [][Next]_vars /\ Fairness

----------------------------------------------------------------------------
(* Properties.                                                               *)

\* A log that was begun after the mark was taken and that is gone by now leaves the
\* directory as the mark saw it, though it may have been read in between.
CameAndWent(f, mark) == Gone(f) /\ Last(logs[f]) > mark[2]
SaysWhatLogsSay(cover, mark) ==
    \A f \in Files : cover.seen[f] = Current[f] \/ CameAndWent(f, mark)

\* Nothing stale looks fresh: whatever is kept under the stamp the logs have now is
\* what the logs say now, in the database, in the shared parse and in the page's
\* sessions (but for the parse a forced or other-gap request stamps when it is over).
NothingStaleLooksFresh ==
    /\ \A f \in Present : rows[f].stamp = Stamp(f) => rows[f].read = Len(logs[f])
    /\ \A gap \in Gaps :
            flight[gap].has /\ flight[gap].sig = Signature
                => SaysWhatLogsSay(flight[gap].cover, flight[gap].sig)
    /\ cache.has /\ cache.mark = Fingerprint /\ ~cache.missed
            => SaysWhatLogsSay(cache.cover, cache.mark)

\* A page that asked for runs or totals under one gap is never answered with the
\* grouping of another, however requests, refreshes and retries interleave; and the
\* totals that are kept are those of the sessions that are kept.
AnswersAreTheirOwn ==
    /\ \A t \in Threads : page[t].shown.gap = page[t].gap
    /\ cache.derived.gen # 0 =>
            cache.derived.gen = cache.gen /\ cache.derived.cover = cache.cover

\* The rows behind an answer, and the runs they are shown as.
Seen(cover, kind) ==
    InOrder({f \in Files : cover.seen[f] # Absent /\ work.logs[f].kind = kind},
            {p \in Files \X Files : p[1] < p[2]})
CallsOf(cover) ==
    LET fs == Seen(cover, "call")
        mtime(f) == IF cover.seen[f] = 0 THEN 0 ELSE logs[f][cover.seen[f]]
    IN  [i \in DOMAIN fs |->
            CallRow(work.logs[fs[i]], SubSeq(work.logs[fs[i]].lines, 1, cover.seen[fs[i]]),
                    logs[fs[i]][1], mtime(fs[i]))]
TranscriptsOf(cover) ==
    LET fs == Seen(cover, "md")
        mtime(f) == IF cover.seen[f] = 0 THEN logs[f][1] ELSE logs[f][cover.seen[f]]
    IN  [i \in DOMAIN fs |->
            BrainstormRow(work.logs[fs[i]], SubSeq(work.logs[fs[i]].lines, 1, cover.seen[fs[i]]),
                          logs[fs[i]][1], mtime(fs[i]))]
SessionsOf(cover) == ClusterSessions(CallsOf(cover), TranscriptsOf(cover), cover.gap)

\* A stream sends the newest runs of a parse only.
RunsSent(cover) ==
    LET sessions == SessionsOf(cover)
    IN  SubSeq(sessions, 1, Min({RecentRuns, Len(sessions)}))

\* A call whose log was read to its end is shown as it ended, whatever its answer
\* quotes; and the totals count every call of the answer once.
TellsOutcome(c) ==
    LET log == work.logs[c.name]
        shown == ClassifyCall(c.says)
    IN  CASE log.ends = "ok" -> c.says.completed /\ ~c.says.hasError
                                /\ shown \notin {"error", "timeout"}
          [] log.ends = "failed" -> c.says.hasError /\ shown \notin {"ok", "empty", "timeout"}
          [] log.ends = "denied" -> c.says.hasError /\ shown \notin {"ok", "empty", "error", "timeout"}
          [] log.ends = "timeout" -> c.says.timedOut /\ c.says.hasError /\ shown # "ok"
          [] log.ends = "silence" -> c.says.silenced /\ c.says.hasError /\ shown # "ok"
          [] log.ends = "killed" -> ~CleanOk(c)

PageTellsOutcomes ==
    \A t \in Threads : At(t, "ask") /\ page[t].op # "none" =>
        LET cover == page[t].shown
            sessions == SessionsOf(cover)
            stats == ComputeStats(sessions)
            calls == CallsOf(cover)
        IN  /\ \A s \in Range(sessions) : \A c \in Calls(s) :
                    cover.seen[c.name] = Len(work.logs[c.name].lines) => TellsOutcome(c)
            /\ stats.calls = Len(calls) /\ stats.ok + stats.errors + stats.running = stats.calls
            /\ \A s \in Range(sessions) : ToSummary(s).running => stats.running > 0

\* What a stream owes once no log changes any more: the last state of each log, unless
\* the log has been like that since before the stream last connected; and its newest
\* runs as the logs are, unless it took another's parse, or was sent a run of a log that
\* came and went, or has seen no change since it connected and there was none.
StreamTold(t) ==
    /\ \A f \in Present : Len(logs[f]) \in {page[t].told[f], page[t].base[f]}
    /\ \/ page[t].mark = <<>> /\ page[t].base = Current
       \/ page[t].mark # <<>> /\
            \/ page[t].late
            \/ \E f \in Files : page[t].shown.seen[f] # Absent /\ CameAndWent(f, page[t].mark)
            \/ RunsSent(page[t].shown) = RunsSent([gap |-> page[t].gap, seen |-> Current])

\* Once no log changes any more, a page that polls is shown the logs as they are (or
\* the parse that was stamped when it was over, or a log that came and went since the
\* fingerprint), a stream has told what it owes, and nobody who waited for another's
\* parse, or was sent to try again, is left behind.
Settled(t) ==
    /\ threads[t].asks # <<>> => Asks(t, {"watch"}) \/ t \in work.polls
    /\ t \in work.polls => cache.missed \/ SaysWhatLogsSay(page[t].shown, cache.mark)
    /\ Asks(t, {"watch"}) => StreamTold(t)

PageCatchesUp == <>[](\A t \in Threads : Settled(t))
=============================================================================
