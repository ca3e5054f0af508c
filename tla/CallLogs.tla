------------------------------ MODULE CallLogs ------------------------------
(* What the dashboard reads out of the logs (dashboard/parser.py): one log per *)
(* model call, written line by line while the call runs and ended by a footer, *)
(* and one transcript per brainstorm. Calls are told apart by how they ended   *)
(* and grouped into runs. A line is what kind of line it is and, in a          *)
(* transcript, who speaks; a row is what was read of one log.                  *)
EXTENDS Integers, Sequences, FiniteSets, SequencesExt

CONSTANTS
    Board,              \* models of the default board, in order
    MaxCallWall,        \* a last write later than this after the start is not the end
    RecentN             \* this many failures in a row make a model problematic

ASSUME LogsAssumption ==
    /\ MaxCallWall \in Nat /\ RecentN \in Nat \ {0}
    /\ Board \in Seq(STRING \X STRING)

Line(what) == [what |-> what, who |-> ""]
Persona(who) == [what |-> "persona", who |-> who]

----------------------------------------------------------------------------
(* One call.                                                                 *)

NoExit == -1
ExitCodes == [exit0 |-> 0, exit1 |-> 1, exit124 |-> 124, exit125 |-> 125, exit401 |-> 401]

\* What the runner appends when the call is over; a killed run appends nothing.
Footers ==
    [ok      |-> <<Line("exit0")>>,
     failed  |-> <<Line("exit1")>>,
     denied  |-> <<Line("exit401")>>,
     timeout |-> <<Line("timeout"), Line("exit124")>>,
     silence |-> <<Line("silence"), Line("exit125")>>,
     killed  |-> <<>>]

LastIs(lines, what) == lines # <<>> /\ lines[Len(lines)].what = what

ExitOf(lines) ==
    IF lines # <<>> /\ lines[Len(lines)].what \in DOMAIN ExitCodes
    THEN ExitCodes[lines[Len(lines)].what] ELSE NoExit

BeforeExit(lines) == IF ExitOf(lines) = NoExit THEN lines ELSE Front(lines)

\* Mutant: the marker counts whatever the exit code is.
MutMarkedBy(lines, what, code) == LastIs(BeforeExit(lines), what)

\* A marker counts just before the footer, and only with the code that goes with it.
MarkedBy(lines, what, code) ==
    ExitOf(lines) \in {code, NoExit} /\ LastIs(BeforeExit(lines), what)

\* The kinds of line the answer is made of: neither header, nor footer, nor marker.
Body(lines) ==
    LET rest == BeforeExit(lines)
        marked == MarkedBy(lines, "timeout", 124) \/ MarkedBy(lines, "silence", 125)
        kept == IF marked THEN Front(rest) ELSE rest
    IN  {kept[i].what : i \in DOMAIN kept} \ {"waiting", "header"}

OwnLines == {"timeout", "silence"} \cup DOMAIN ExitCodes

\* An answer of the tool's own lines and of token counts alone is an empty one.
HasRealContent(body) == body \ (OwnLines \cup {"tokens"}) # {}

\* Without a footer a line of stderr, or a text that reads like an error, says failed.
LooksLikeFailure(body) == body \cap {"stderr", "badkey", "error"} # {}

\* What the full text says of a call: footer first, the text only without one.
Classified(lines) ==
    LET body == Body(lines)
        exit == ExitOf(lines)
        timedOut == MarkedBy(lines, "timeout", 124)
        silenced == MarkedBy(lines, "silence", 125)
        failing == LooksLikeFailure(body)
    IN  [exit |-> exit, timedOut |-> timedOut, silenced |-> silenced,
         completed |-> exit # NoExit \/ timedOut \/ silenced \/ failing,
         hasError |-> \/ timedOut \/ silenced
                      \/ IF exit # NoExit THEN exit # 0 ELSE failing,
         paywall |-> "paywall" \in body, blocked |-> "blocked" \in body,
         badKey |-> "badkey" \in body, skip |-> body = {"notice"},
         real |-> HasRealContent(body), headed |-> \E i \in DOMAIN lines : lines[i].what = "header"]

\* A log as read: its name says when the call began, its last write when it ended.
CallRow(log, lines, started, mtime) ==
    [name |-> log.name, backend |-> log.backend, round |-> log.round, started |-> started, mtime |-> mtime,
     task |-> IF Classified(lines).headed THEN log.task ELSE "",
     model |-> IF Classified(lines).headed THEN log.model ELSE "",
     says |-> Classified(lines)]

EndedAt(call) ==
    IF call.mtime < call.started \/ call.mtime - call.started > MaxCallWall
    THEN call.started ELSE call.mtime

\* How the call ended, the most telling sign first.
ClassifyCall(says) ==
    IF says.skip THEN "true_silence"
    ELSE IF says.paywall THEN "paywall"
    ELSE IF says.timedOut \/ says.exit = 124 THEN "timeout"
    ELSE IF says.silenced THEN "true_silence"
    ELSE IF says.exit = 403 \/ says.blocked THEN "blocked"
    ELSE IF says.exit = 401 \/ says.badKey THEN "auth"
    ELSE IF says.hasError THEN "error"
    ELSE IF ~says.real THEN "empty" ELSE "ok"

CleanOk(call) ==
    /\ call.says.completed /\ ~call.says.hasError
    /\ ClassifyCall(call.says) = "ok"

\* The seat of the board a log belongs to; the command line in its header tells.
ModelId(call) ==
    IF call.backend = "claude" /\ call.model = ""
    THEN <<"claude", IF call.says.paywall THEN "fable" ELSE "opus">>
    ELSE <<call.backend, call.model>>

\* The seat that would have been asked next.
FallbackSeat(model) ==
    LET after == {i \in 2..Len(Board) : Board[i - 1] = model}
    IN  IF after = {} THEN <<"", "">> ELSE Board[CHOOSE i \in after : \A j \in after : i <= j]

----------------------------------------------------------------------------
(* A brainstorm's transcript.                                                *)

\* Whose turns were read: a heading counts inside a round, outside the moderator's
\* and the synthesis' sections, and when it names a model of the panel.
Turns(log, lines) ==
    LET headed == \E i \in DOMAIN lines : lines[i].what = "panel"
        Counts(s, line) == /\ line.what = "persona" /\ s.round /\ ~s.control
                           /\ headed => line.who \in log.panel
        read[k \in 0..Len(lines)] ==
            IF k = 0 THEN [round |-> FALSE, control |-> FALSE, turns |-> <<>>]
            ELSE LET s == read[k - 1]
                     line == lines[k]
                 IN  CASE line.what = "round" -> [s EXCEPT !.round = TRUE, !.control = FALSE]
                       [] line.what = "section" -> [s EXCEPT !.control = TRUE]
                       [] Counts(s, line) -> [s EXCEPT !.turns = Append(@, line.who)]
                       [] OTHER -> s
    IN  read[Len(lines)].turns

BrainstormRow(log, lines, started, mtime) ==
    LET headed == \E i \in DOMAIN lines : lines[i].what = "panel"
    IN  [started |-> started, mtime |-> mtime, turns |-> Turns(log, lines),
         task |-> IF headed THEN log.task ELSE "",
         panel |-> IF headed THEN log.panel ELSE {}]

NoBrainstorm == [started |-> 0, mtime |-> 0, turns |-> <<>>, task |-> "", panel |-> {}]

----------------------------------------------------------------------------
(* Runs: calls of one task that follow each other closely, and a transcript.  *)

NewSession(call) ==
    [id |-> call.started, started |-> call.started, ended |-> EndedAt(call),
     calls |-> <<call>>, brainstorm |-> NoBrainstorm]

Belongs(s, call, gap) ==
    s.calls[1].task = call.task /\ call.started - s.ended <= gap

Join(s, call) ==
    [s EXCEPT !.calls = Append(@, call),
              !.ended = IF EndedAt(call) > @ THEN EndedAt(call) ELSE @]

\* Calls come in the order they were started in.
Grouped(calls, gap) ==
    LET after[k \in 0..Len(calls)] ==
            IF k = 0 THEN <<>>
            ELSE LET done == after[k - 1]
                 IN  IF done # <<>> /\ Belongs(Last(done), calls[k], gap)
                     THEN [done EXCEPT ![Len(done)] = Join(@, calls[k])]
                     ELSE Append(done, NewSession(calls[k]))
    IN  after[Len(calls)]

\* The last run within reach takes the transcript and its name; else it stands alone.
Attached(sessions, bs, gap) ==
    LET near == {i \in DOMAIN sessions :
                    /\ sessions[i].started - gap <= bs.started
                    /\ bs.started <= sessions[i].ended + gap}
        alone == [id |-> bs.started, started |-> bs.started, ended |-> bs.mtime,
                  calls |-> <<>>, brainstorm |-> bs]
        best == CHOOSE i \in near : \A j \in near : j <= i
    IN  IF near = {} THEN Append(sessions, alone)
        ELSE [sessions EXCEPT ![best].brainstorm = bs, ![best].id = bs.started]

\* The members of a finite set as a sequence, in a strict order.
InOrder(S, before) ==
    [k \in 1..Cardinality(S) |->
        CHOOSE x \in S : Cardinality({y \in S : <<y, x>> \in before}) = k - 1]

\* Newest first; of two that began together the one that was there first.
NewestFirst(sessions) ==
    LET all == DOMAIN sessions
        Newer(i, j) == sessions[i].started > sessions[j].started
        order == InOrder(all, {p \in all \X all : \/ Newer(p[1], p[2])
                                                  \/ ~Newer(p[2], p[1]) /\ p[1] < p[2]})
    IN  [k \in all |-> sessions[order[k]]]

ClusterSessions(calls, brainstorms, gap) ==
    LET with[k \in 0..Len(brainstorms)] ==
            IF k = 0 THEN Grouped(calls, gap)
            ELSE Attached(with[k - 1], brainstorms[k], gap)
    IN  NewestFirst(with[Len(brainstorms)])

Calls(s) == {s.calls[i] : i \in DOMAIN s.calls}

TaskCode(s) ==
    IF s.brainstorm.task # "" \/ s.calls = <<>> THEN s.brainstorm.task ELSE s.calls[1].task

SessionModels(s) ==
    IF s.brainstorm.panel # {} THEN s.brainstorm.panel ELSE {c.backend : c \in Calls(s)}

Mode(s) ==
    IF s.brainstorm # NoBrainstorm \/ \E c \in Calls(s) : c.round >= 1 THEN "brainstorm"
    ELSE IF Len(s.calls) > 1 THEN "panel" ELSE "review"

HasError(s) == \E c \in Calls(s) : c.says.hasError
Running(s) == ~HasError(s) /\ \E c \in Calls(s) : ~c.says.completed

\* Another call of the round, or a later one, came back with a clean answer.
Recovered(s, c) ==
    \E other \in Calls(s) \ {c} :
        CleanOk(other) /\ (other.round = c.round \/ other.started >= c.started)

Errors(s) ==
    {[call |-> c,
      class |-> IF c.says.completed THEN ClassifyCall(c.says) ELSE "error",
      fallback |-> FallbackSeat(ModelId(c)), recovered |-> Recovered(s, c)] :
        c \in {c \in Calls(s) : c.says.hasError}}

Roles(s) ==
    [who \in Range(s.brainstorm.turns) |->
        Cardinality({i \in DOMAIN s.brainstorm.turns : s.brainstorm.turns[i] = who})]

ToSummary(s) ==
    [id |-> s.id, started |-> s.started, ended |-> s.ended, mode |-> Mode(s),
     task |-> TaskCode(s), models |-> SessionModels(s), calls |-> Len(s.calls),
     errors |-> Errors(s), running |-> Running(s), roles |-> Roles(s)]

----------------------------------------------------------------------------
(* Totals and the health of each model.                                      *)

\* Ties go to the class that cannot be waited out, then by name.
FailureClasses == <<"paywall", "auth", "blocked", "empty", "error", "timeout", "true_silence">>
HardUnavailable == {"paywall", "auth", "blocked"}

Count(seq, Is(_)) == Cardinality({i \in DOMAIN seq : Is(seq[i])})

DominantClass(classes) ==
    LET times(k) == Count(classes, LAMBDA c : c = FailureClasses[k])
        worst == {k \in DOMAIN FailureClasses :
                    times(k) > 0 /\ \A j \in DOMAIN FailureClasses : times(j) <= times(k)}
    IN  IF worst = {} THEN "none" ELSE FailureClasses[CHOOSE k \in worst : \A j \in worst : k <= j]

\* Classes are given newest first.
IsProblematic(classes) ==
    LET failed == Count(classes, LAMBDA c : c # "ok")
    IN  classes # <<>> /\
        \/ classes[1] \in HardUnavailable
        \/ 2 * failed >= Len(classes)
        \/ Len(classes) >= RecentN /\ \A i \in 1..RecentN : classes[i] # "ok"

AllCalls(sessions) == FlattenSeq([i \in DOMAIN sessions |-> Reverse(sessions[i].calls)])

ModelHealth(sessions) ==
    LET all == AllCalls(sessions)
        Mine(model) == SelectSeq(all, LAMBDA c : ModelId(c) = model)
        classes(model) == [i \in DOMAIN Mine(model) |-> ClassifyCall(Mine(model)[i].says)]
        Status(cs) == IF cs = <<>> THEN "no_data"
                      ELSE IF ~IsProblematic(cs) THEN "ok"
                      ELSE IF DominantClass(cs) = "none" THEN "error" ELSE DominantClass(cs)
    IN  [model \in Range(Board) \cup {ModelId(c) : c \in Range(all)} |->
            [calls |-> Len(Mine(model)), status |-> Status(classes(model)),
             onBoard |-> model \in Range(Board)]]

\* Where the calls of the runs are: which run, and which of its calls.
Positions(sessions) == UNION {{i} \X DOMAIN sessions[i].calls : i \in DOMAIN sessions}
SaysAt(sessions, p) == sessions[p[1]].calls[p[2]].says

ComputeStats(sessions) ==
    LET all == Positions(sessions)
        completed == {p \in all : SaysAt(sessions, p).completed}
        failed == {p \in all : SaysAt(sessions, p).hasError}
    IN  [sessions |-> Len(sessions), calls |-> Cardinality(all),
         running |-> Cardinality(all \ completed),
         errors |-> Cardinality(completed \cap failed),
         ok |-> Cardinality(completed \ failed),
         timeouts |-> Cardinality({p \in all : SaysAt(sessions, p).timedOut}),
         silences |-> Cardinality({p \in all : SaysAt(sessions, p).silenced}),
         byMode |-> [m \in {"brainstorm", "panel", "review"} |->
                        Count(sessions, LAMBDA s : Mode(s) = m)],
         byTask |-> [t \in {TaskCode(s) : s \in Range(sessions)} \ {""} |->
                        Count(sessions, LAMBDA s : TaskCode(s) = t)],
         health |-> ModelHealth(sessions)]
=============================================================================
