----------------------------- MODULE Discussion -----------------------------
(* just-ask, quorum and brainstorm, and `review sessions -s`, which takes a    *)
(* brainstorm up again from its log (modes/just_ask.py, modes/quorum.py,       *)
(* modes/brainstorm.py, sessions.py, cli.py). Run 1 is the first invocation;   *)
(* the others resume its log, when it died and also -- nothing stops it --     *)
(* while it is still at work.                                                  *)
EXTENDS Moderation, Sessions

CONSTANTS
    Requests,      \* the requests explored: a subset of Request
    Turnouts,      \* what a panel of a given number of seats may come to
    MaxRuns        \* the largest `runs` of them

Request ==
    [mode: {"just-ask", "quorum", "brainstorm"}, panel: Seq(STRING),
     moderator: Seq(STRING), available: Seq(STRING),     \* the one asked for, if any
     rounds: Nat, maxRounds: Nat, adversarial: BOOLEAN, writable: BOOLEAN,
     answers: SUBSET {"panel", "moderator"},  \* the backends that ever answer
     meanwhile: Nat,          \* the round from which an impatient user resumes the
                              \* session of a run at work; 0: never (bound)
     odd: Nat,                \* answers out of the ordinary (bound)
     dies: Nat,               \* runs that are killed, or meet a full disk (bound)
     runs: Nat]               \* invocations over the log (bound)

ASSUME RequestsAssumption == Requests \subseteq Request
ASSUME BoundsAssumption == MaxRuns \in Nat \ {0}
ASSUME TurnoutsAssumption == Turnouts \subseteq Turnout

Runs == 1..MaxRuns

VARIABLES
    c,           \* the request
    made,        \* the log file is there
    log,         \* what was appended to it
    run,         \* each invocation's state
    kills,       \* runs killed so far
    odd,         \* answers out of the ordinary so far
    overlapped   \* history: a run was resumed while another was at work

vars == <<c, made, log, run, kills, odd, overlapped>>

NotStarted ==
    [pc |-> "idle", stage |-> "round", round |-> 0, last |-> 0, min |-> 0,
     talk |-> <<>>, file |-> FALSE, nonce |-> FALSE, candidates |-> <<>>,
     tally |-> NoTally, expert |-> FALSE, exit |-> "none",
     called |-> NoTally]          \* history: calls by whether their answer counts

Alive(p) == run[p].pc \notin {"idle", "done"}

Init ==
    /\ c \in Requests
    /\ made = FALSE /\ log = <<>>
    /\ run = [p \in Runs |-> NotStarted]
    /\ kills = 0 /\ odd = 0 /\ overlapped = FALSE

Step(p, locals) == run' = [run EXCEPT ![p] = locals]
End(p, exit) == Step(p, [run[p] EXCEPT !.pc = "done", !.exit = exit])

\* The bound on what is out of the ordinary.
Oddly(is) == odd' = (IF is THEN odd + 1 ELSE odd) /\ odd' <= c.odd

\* Writing is skipped when the log could not be opened.
Write(p, e) == log' = IF run[p].file THEN Append(log, e) ELSE log

-----------------------------------------------------------------------------
(* Bounds                                                                     *)

Larger(a, b) == IF a < b THEN b ELSE a
MinRounds(rounds) == Larger(rounds, 3)
MaxRounds(rounds, max) == Larger(max, MinRounds(rounds))

StartRound(s) == Len(s.rounds) + 1

SynthesizeOnly(s, min) == s.completed \/ Stopped(s, min)

(* Starting                                                                   *)

\* The handler of the mode; the statistics of the run begin with it.
Start ==
    /\ run[1].pc = "idle"
    /\ LET min == MinRounds(c.rounds)
       IN  Step(1, [run[1] EXCEPT
                      !.pc = IF c.mode = "brainstorm" THEN "open" ELSE "panel",
                      !.round = 1, !.min = min, !.last = MaxRounds(c.rounds, c.maxRounds),
                      !.candidates = PickModerators(c.moderator, c.available, c.panel)])
    /\ UNCHANGED <<c, made, log, kills, odd, overlapped>>

\* The first moderator of the saved label, when the header is whole.
SavedModerator ==
    IF SavedBound(log, 1) = 0 THEN <<>>
    ELSE <<PickModerators(c.moderator, c.available, c.panel)[1]>>

\* `review sessions -s`: a completed session is refused unless forced.
Resume(p, force) ==
    /\ p \in 2..c.runs /\ run[p].pc = "idle" /\ run[p - 1].pc # "idle" /\ made
    /\ \A q \in Runs : Alive(q) => c.meanwhile \in 1..run[q].round
    /\ LET s == ReadLog(log)
           savedMin == SavedBound(log, MinRounds(c.rounds))
           savedMax == SavedBound(log, MaxRounds(c.rounds, c.maxRounds))
           max == MaxRounds(Larger(savedMin, 1), Larger(savedMax, 1))
       IN  IF s.completed /\ ~force
           THEN End(p, "refused")
           ELSE Step(p, [run[p] EXCEPT
                           !.pc = "open", !.round = StartRound(s),
                           !.min = MinRounds(Larger(savedMin, 1)),
                           !.last = IF SynthesizeOnly(s, savedMin)
                                    THEN StartRound(s) - 1 ELSE max,
                           !.talk = TranscriptBlocks(s),
                           !.candidates =
                               PickModerators(SavedModerator, c.available, c.panel)])
    /\ overlapped' = (overlapped \/ \E q \in Runs : Alive(q))
    /\ UNCHANGED <<c, made, log, kills, odd>>

Opening(p, nonce) ==
    IF p = 1 THEN Entries("header", 0, p, "whole", nonce)
    ELSE Entries("resumed", run[p].round, p, "plain", FALSE)

\* A new log is created, an old one opened for appending and its nonce read; a run
\* that cannot open its log goes on without.
OpenLog(p) ==
    /\ run[p].pc = "open"
    /\ \E file \in IF c.writable THEN {TRUE} ELSE BOOLEAN :
         LET nonce == IF p = 1 THEN TRUE ELSE TrustedNonce(log)
             discuss == run[p].round <= run[p].last
         IN  /\ Step(p, [run[p] EXCEPT
                           !.file = file, !.nonce = nonce,
                           !.pc = IF discuss THEN "panel" ELSE "moderate",
                           !.stage = IF discuss THEN "round" ELSE "final"])
             /\ made' = (made \/ file)
             /\ log' = IF file THEN Append(log, Opening(p, nonce)) ELSE log
    /\ UNCHANGED <<c, kills, odd, overlapped>>

-----------------------------------------------------------------------------
(* The panel                                                                  *)

Seats == IF c.mode = "brainstorm" THEN SlotCount(Len(c.panel)) ELSE Len(c.panel)

\* The tally is of the run the command line counts: a resumed one is not counted.
TallyOf(p, t) ==
    IF p = 1 THEN RecountByUsability(TickPanel(run[p].tally, t), t) ELSE run[p].tally
CalledBy(p, t) ==
    IF p # 1 THEN run[p].called
    ELSE [ok |-> run[1].called.ok + t.usable,
          fail |-> run[1].called.fail + t.hollow + t.failed]

Counted(p, t) ==
    [run[p] EXCEPT !.tally = TallyOf(p, t), !.called = CalledBy(p, t)]

\* just-ask: the answers are printed; 0 when every one of them is usable.
JustAsk(p, t) ==
    /\ c.mode = "just-ask"
    /\ Step(p, [Counted(p, t) EXCEPT
                  !.pc = "done", !.exit = IF AllUsable(t) THEN "ok" ELSE "failed"])
    /\ UNCHANGED <<log, odd>>

\* quorum: the experts' answers go to a moderator.
AskExperts(p, t) ==
    /\ c.mode = "quorum"
    /\ Step(p, [Counted(p, t) EXCEPT
                  !.pc = "moderate", !.stage = "summary", !.expert = AllUsable(t)])
    /\ UNCHANGED <<log, odd>>

Aborted(p, says) == Entries("aborted", run[p].round, p, says, FALSE)
RoundSays == {"plain", "forged", "moderated", "decided"}
RoundText(p, says) == Entries("round", run[p].round, p, says, run[p].nonce)

\* brainstorm, a dead round: nothing of it is used. With no round before it there
\* is nothing to synthesize.
DeadRound(p, t) ==
    /\ c.mode = "brainstorm" /\ RoundIsDead(t)
    /\ \E says \in {"plain"} \cup (IF t.usable > 0 THEN {"stop"} ELSE {}) :
         Write(p, Aborted(p, says))
    /\ Oddly("panel" \in c.answers)
    /\ Step(p, IF run[p].talk = <<>>
               THEN [Counted(p, t) EXCEPT !.pc = "done", !.exit = "dead panel"]
               ELSE [Counted(p, t) EXCEPT !.pc = "moderate", !.stage = "final"])

\* brainstorm, a live round: its text joins the transcript and the log.
LiveRound(p, t) ==
    /\ c.mode = "brainstorm" /\ ~RoundIsDead(t)
    /\ \E says \in RoundSays :
         /\ Write(p, RoundText(p, says))
         /\ Oddly(~AllUsable(t) \/ says # "plain")
    /\ Step(p, [Counted(p, t) EXCEPT
                  !.pc = "moderate", !.stage = "round",
                  !.talk = Append(@, [n |-> run[p].round, by |-> p, cut |-> FALSE])])

Panel(p) ==
    /\ run[p].pc = "panel"
    /\ \E t \in {u \in Turnouts : SeatsIn(u) = Seats
                                     /\ (u.usable > 0 => "panel" \in c.answers)} :
         JustAsk(p, t) \/ AskExperts(p, t) \/ DeadRound(p, t) \/ LiveRound(p, t)
    /\ UNCHANGED <<c, made, kills, overlapped>>

-----------------------------------------------------------------------------
(* The moderator                                                              *)

Moderated(p, r) ==
    [run[p] EXCEPT !.tally = IF p = 1 THEN TickModerator(@, r.usable) ELSE @,
                   !.called = IF p = 1 THEN TickModerator(@, r.usable) ELSE @]

\* After a round: the moderator's text goes to the log, and the discussion goes on
\* below the minimum, ends on its STOP, and ends at the maximum.
Decide(p, r) ==
    LET m == run[p]
        goesOn == /\ m.round < m.min \/ ~DecidesStop(r)
                  /\ m.round < m.last
    IN  /\ m.stage = "round"
        /\ Write(p, Entries("moderator", m.round, p, r.says, FALSE))
        /\ Step(p, [Moderated(p, r) EXCEPT
                      !.candidates = StickTo(r, @),
                      !.pc = IF goesOn THEN "panel" ELSE "moderate",
                      !.stage = IF goesOn THEN "round" ELSE "final",
                      !.round = IF goesOn THEN @ + 1 ELSE @])

\* Mutant: the synthesis is asked for until there is one.
MutSynthesize(p, r) ==
    /\ run[p].stage = "final"
    /\ IF r.usable
       THEN /\ Write(p, Entries("final", 0, p, "plain", run[p].nonce))
            /\ Step(p, [Moderated(p, r) EXCEPT !.pc = "done", !.exit = "ok"])
       ELSE UNCHANGED <<log, run>>

\* The final synthesis: written whatever it is; the exit code says whether it counts.
Synthesize(p, r) ==
    /\ run[p].stage = "final"
    /\ Write(p, Entries("final", 0, p, "plain", run[p].nonce))
    /\ Step(p, [Moderated(p, r) EXCEPT
                  !.pc = "done", !.exit = IF r.usable THEN "ok" ELSE "failed"])

QuorumExit(experts, summary, verdict) == experts /\ summary /\ verdict # "found"

\* quorum: a clean verdict is put to one more call that tries to refute it.
Summarize(p, r) ==
    LET refute == c.adversarial /\ r.usable /\ QuorumVerdictIsClean(r.says)
        ok == QuorumExit(run[p].expert, r.usable, "none")
    IN  /\ run[p].stage = "summary"
        /\ Step(p, IF refute THEN [Moderated(p, r) EXCEPT !.stage = "refute"]
                   ELSE [Moderated(p, r) EXCEPT !.pc = "done",
                                                !.exit = IF ok THEN "ok" ELSE "failed"])
        /\ UNCHANGED log

Refute(p, r) ==
    LET ok == QuorumExit(run[p].expert, TRUE, RefutationVerdict(r))
    IN  /\ run[p].stage = "refute"
        /\ Step(p, [Moderated(p, r) EXCEPT
                      !.pc = "done", !.stage = RefutationVerdict(r),
                      !.exit = IF ok THEN "ok" ELSE "failed"])
        /\ UNCHANGED log

Moderate(p) ==
    /\ run[p].pc = "moderate"
    /\ \E r \in ModeratorResults(run[p].candidates, run[p].stage) :
         /\ r.usable => "moderator" \in c.answers
         /\ Decide(p, r) \/ Synthesize(p, r) \/ Summarize(p, r) \/ Refute(p, r)
         /\ Oddly(\/ r.says \in {"forged", "echo"}
                  \/ "moderator" \in c.answers
                       /\ (~r.usable \/ r.model # run[p].candidates[1]))
    /\ UNCHANGED <<c, made, kills, overlapped>>

-----------------------------------------------------------------------------
(* A run that dies                                                            *)

\* The append a run at this place is about to make.
Due(p) ==
    CASE run[p].pc = "open" /\ p = 1 -> {Opening(p, TRUE)}
      [] run[p].pc = "panel" /\ run[p].file -> {RoundText(p, says) : says \in RoundSays}
      [] run[p].pc = "moderate" /\ run[p].file /\ run[p].stage = "round" ->
           {Entries("moderator", run[p].round, p, "go", FALSE)}
      [] run[p].pc = "moderate" /\ run[p].file /\ run[p].stage = "final" ->
           {Entries("final", 0, p, "plain", run[p].nonce)}
      [] OTHER -> {}

\* Killed between two appends, or within one -- the disk may also be full, which
\* ends the run at that append. A new log may be there with nothing in it.
Die(p) ==
    /\ c.mode = "brainstorm" /\ Alive(p) /\ kills < c.dies
    /\ kills' = kills + 1
    /\ End(p, "killed")
    /\ \/ UNCHANGED <<made, log>>
       \/ p = 1 /\ run[p].pc = "open" /\ made' = TRUE /\ UNCHANGED log
       \/ \E e \in Due(p) : \E t \in Torn(e) : made' = TRUE /\ log' = Append(log, t)
    /\ UNCHANGED <<c, odd, overlapped>>

-----------------------------------------------------------------------------
RunStep(p) == OpenLog(p) \/ Panel(p) \/ Moderate(p)

Next ==
    \/ Start
    \/ \E p \in Runs :
         \/ RunStep(p) \/ Die(p)
         \/ \E force \in BOOLEAN : Resume(p, force)

\* A call to a model ends, with an answer or by its timeout. Nobody has to resume.
Spec == Init /\ [][Next]_vars /\ WF_vars(Start) /\ \A p \in Runs : WF_vars(RunStep(p))

Exits == {"none", "ok", "failed", "dead panel", "refused", "killed"}

TypeOK ==
    /\ c \in Requests /\ made \in BOOLEAN /\ overlapped \in BOOLEAN
    /\ \A i \in DOMAIN log : log[i] \in Entry
    /\ \A p \in Runs : run[p].tally \in Tally /\ run[p].exit \in Exits
                       /\ run[p].pc \in {"idle", "open", "panel", "moderate", "done"}

-----------------------------------------------------------------------------
WholeRounds == {i \in DOMAIN log : log[i].kind = "round" /\ log[i].by # 0}

\* The text of round n quotes the heading of its own moderator.
QuotedIn(n) == \E i \in DOMAIN log : log[i].kind = "round" /\ log[i].n = n /\ Quotes(log[i].says)

\* However often it was killed, and wherever in an append, a session is one
\* discussion: its log reads back to rounds numbered from 1 without a gap, the rounds
\* that were written whole are in it, each once, in the order they were written and
\* under their own number, nothing a model quoted is taken for one -- and what a run
\* has in hand is what a resume of its log would start from, but for the rest of a text
\* that quotes the heading of its own moderator, which is cut there (sessions.py:372).
\* (Not while two runs write to one log, and not without the nonce.)
ResumeContinues ==
    ~overlapped /\ TrustedNonce(log) =>
      LET s == ReadLog(log)
          read == s.rounds
      IN  /\ \A i \in DOMAIN read : read[i].n = i
          /\ {<<r.n, r.by>> : r \in {read[i] : i \in {j \in DOMAIN read : read[j].by # 0}}}
               = {<<log[i].n, log[i].by>> : i \in WholeRounds}
          /\ \A i, j \in WholeRounds : i < j => log[i].n < log[j].n
          /\ \A p \in Runs : Alive(p) /\ run[p].file =>
               /\ DOMAIN run[p].talk = DOMAIN read
               /\ \A i \in DOMAIN read :
                    /\ run[p].talk[i].n = read[i].n /\ run[p].talk[i].by = read[i].by
                    /\ run[p].talk[i].cut # read[i].cut => QuotedIn(i)

\* A STOP that a resume finds in the log: a moderator's own; or, by name, one that a
\* moderator's failure printed, that a text quotes below the heading of its own
\* moderator, or that stands in the text of a dead round.
StopIn(e) ==
    \/ e.kind = "moderator" /\ e.says \in {"stop", "echo"}
    \/ e.kind = "round" /\ e.says = "decided"
    \/ e.kind = "aborted" /\ e.says = "stop"

\* The last round of the log is at the minimum or past it, with a STOP in or after it.
StoppedInTime ==
    \E i \in DOMAIN log :
      /\ log[i].kind = "round" /\ log[i].nonce /\ log[i].n >= MinRounds(c.rounds)
      /\ \A j \in DOMAIN log : j > i => ~(log[j].kind = "round" /\ log[j].nonce)
      /\ \E j \in DOMAIN log : j >= i /\ StopIn(log[j])

\* No run synthesizes out of nothing, early or on the word of a dead panel: there is
\* a round to go on; and the entries of the log show the maximum of rounds, a STOP at
\* or past the minimum that was asked for, a round that came back dead, or an earlier
\* synthesis. An exit code 0 of quorum stands for experts who all answered and a
\* verdict nobody refuted.
EndsForAReason ==
    /\ \A p \in Runs : Alive(p) /\ c.mode = "brainstorm" /\ run[p].stage = "final" =>
         /\ run[p].talk # <<>>
         /\ \/ overlapped \/ ~run[p].file \/ log[1].says # "whole"
            \/ StoppedInTime
            \/ \E i \in DOMAIN log :
                 \/ log[i].kind = "final"
                 \/ log[i].kind = "aborted" /\ log[i].by = p
                 \/ log[i].kind = "round" /\ log[i].n >= MaxRounds(c.rounds, c.maxRounds)
    /\ \A p \in Runs : run[p].exit = "dead panel" => run[p].talk = <<>>
    /\ run[1].exit = "ok" /\ c.mode = "quorum"
         => run[1].expert /\ run[1].stage # "found"

\* What the statistics of a run say of its calls: the answers that count, one tick
\* for each seat and one for each chain of moderators, however many were tried.
TallyAddsUp == run[1].tally = run[1].called

\* A run that was begun ends: a panel that keeps failing does not keep it going.
DiscussionEnds == \A p \in Runs : run[p].pc # "idle" ~> run[p].pc = "done"
=============================================================================
