------------------------------- MODULE QaPages ------------------------------
(* The page tiers: a browser page called directly (qa/web_driver.py,           *)
(* qa/web_harness.py) and a VS Code window behind a runner process             *)
(* (qa/ext_driver.py, qa/ext_harness.py), with a line of JSON per request on   *)
(* its stdin, a line per reply on its stdout, and a thread that reads them.    *)
EXTENDS QaCases

VARIABLES
    runner,    \* the runner process: "up", "gone"
    wire,      \* requests written and not yet handled, oldest first
    pipe,      \* replies written and not yet read by the thread
    queue,     \* replies the thread has put in the reader's queue
    eof,       \* _StdoutLineReader._eof
    request,   \* id of the request under way, or of the last one
    left,      \* requests this case has still to make
    answers,   \* of this case: [of, during, text], the request and its reply
    wrote,     \* history: ids the runner has answered
    shot       \* a failed case takes its screenshot

pageVars == <<runner, wire, pipe, queue, eof, request, left, answers, wrote, shot>>

Ext == tier = "ext"
Web == tier = "web"
CaseNow == suite[k]

PageInit ==
    /\ runner = "up" /\ wire = <<>> /\ pipe = <<>> /\ queue = <<>> /\ eof = FALSE
    /\ request = 0 /\ left = 0 /\ answers = {} /\ wrote = {} /\ shot = FALSE

PageTypeOK ==
    /\ runner \in {"up", "gone"} /\ eof \in BOOLEAN /\ shot \in BOOLEAN
    /\ request \in Nat /\ left \in Nat /\ wrote \subseteq 1..request
    /\ answers \subseteq Evidence

outsideVars == <<runner, wire, pipe, queue, eof, wrote>>

-----------------------------------------------------------------------------
\* The session opens, or the run is blocked (ready, error, exit or timeout).
Open(ok) ==
    /\ Ext \/ Web
    /\ place = "start"
    /\ IF ok THEN NextCase(<<>>) ELSE Blocked
    /\ UNCHANGED pageVars

PageProseCase ==
    /\ Ext \/ Web
    /\ place = "case" /\ CaseNow.kind = "prose"
    /\ Judged("BLOCKED", {})
    /\ UNCHANGED pageVars

\* A case is its actions, then a read of each surface: so many requests.
BeginCase ==
    /\ Ext /\ place = "case" /\ CaseNow.kind # "prose"
    /\ left' \in Sizes
    /\ answers' = {} /\ shot' = FALSE
    /\ Goto("request")
    /\ UNCHANGED <<outsideVars, request>>

\* A failed case asks for a screenshot, whose own failure is ignored.
CaseFails ==
    IF shot THEN Judged("FAIL", answers) /\ UNCHANGED <<left, shot>>
    ELSE left' = 1 /\ shot' = TRUE /\ Goto("request")

\* The assertions hold or not on what the surfaces said.
Assertions(hold) ==
    /\ Ext /\ place = "request" /\ left = 0
    /\ IF shot THEN Judged("FAIL", answers) /\ UNCHANGED <<left, shot>>
       ELSE IF hold THEN Judged("PASS", answers) /\ UNCHANGED <<left, shot>>
       ELSE CaseFails
    /\ UNCHANGED <<outsideVars, request, answers>>

\* _request takes the next id.
SendRequest ==
    /\ Ext /\ place = "request" /\ left > 0
    /\ request' = request + 1
    /\ Goto("write")
    /\ UNCHANGED <<outsideVars, left, answers, shot>>

\* The line is written, once the runner reads what is before it, or stdin is closed.
WriteLine ==
    /\ Ext /\ place = "write"
    /\ IF runner = "up"
       THEN wire' = Append(wire, request) /\ Goto("reply") /\ UNCHANGED <<left, shot>>
       ELSE wire' = wire /\ CaseFails
    /\ UNCHANGED <<runner, pipe, queue, eof, request, answers, wrote>>

IsReply(id) == id = request

\* _read_reply takes a line of the queue; one that answers another request, a late
\* one, is dropped.
TakeLine ==
    /\ Ext /\ place = "reply" /\ queue # <<>>
    /\ queue' = Tail(queue)
    /\ IF IsReply(Head(queue))
       THEN /\ answers' = answers \cup
                 {[of |-> Head(queue), during |-> request, text |-> "other"]}
            /\ left' = left - 1 /\ Goto("request")
       ELSE UNCHANGED <<answers, left, suiteVars>>
    /\ UNCHANGED <<runner, wire, pipe, eof, request, wrote, shot>>

\* The runner may also refuse: its reply says so.
Refused ==
    /\ Ext /\ place = "reply" /\ queue # <<>> /\ IsReply(Head(queue))
    /\ queue' = Tail(queue)
    /\ CaseFails
    /\ UNCHANGED <<runner, wire, pipe, eof, request, answers, wrote>>

Exited == runner = "gone" /\ eof /\ queue = <<>>

ReportExit ==
    /\ Ext /\ place = "reply" /\ Exited
    /\ CaseFails
    /\ UNCHANGED <<outsideVars, request, answers>>

ReplyTimesOut ==
    /\ Ext /\ place = "reply" /\ ~Exited
    /\ CaseFails
    /\ UNCHANGED <<outsideVars, request, answers>>

ClosePage ==
    /\ Ext \/ Web
    /\ place = "close"
    /\ runner' = "gone"
    /\ Goto("done")
    /\ UNCHANGED <<wire, pipe, queue, eof, request, left, answers, wrote, shot>>

\* The web driver calls the page itself: an action or a read that fails, a dead
\* browser included, fails the case.
DriveWebCase(acts, holds) ==
    /\ Web /\ place = "case" /\ CaseNow.kind # "prose"
    /\ Judged(IF acts /\ holds THEN "PASS" ELSE "FAIL", {})
    /\ UNCHANGED pageVars

-----------------------------------------------------------------------------
(* The runner process and the thread that reads its stdout                    *)

\* It handles requests in order, and may hang on one for as long as it likes.
RunnerReplies ==
    /\ Ext /\ runner = "up" /\ wire # <<>>
    /\ wire' = Tail(wire)
    /\ pipe' = Append(pipe, Head(wire)) /\ wrote' = wrote \cup {Head(wire)}
    /\ UNCHANGED <<suiteVars, runner, queue, eof, request, left, answers, shot>>

RunnerExits ==
    /\ Ext /\ runner = "up" /\ place \notin {"start", "done"}
    /\ runner' = "gone"
    /\ UNCHANGED <<suiteVars, wire, pipe, queue, eof, request, left, answers, wrote, shot>>

\* The thread puts a line in the queue, or sets the flag at the end of the stream.
Drain ==
    /\ Ext /\ place # "done"
    /\ IF pipe # <<>>
       THEN queue' = Append(queue, Head(pipe)) /\ pipe' = Tail(pipe) /\ eof' = eof
       ELSE runner = "gone" /\ ~eof /\ eof' = TRUE /\ UNCHANGED <<queue, pipe>>
    /\ UNCHANGED <<suiteVars, runner, wire, request, left, answers, wrote, shot>>

PageDriver ==
    \/ PageProseCase \/ BeginCase \/ SendRequest \/ WriteLine \/ TakeLine \/ Refused
    \/ ReportExit \/ ReplyTimesOut \/ ClosePage
    \/ \E a, b \in BOOLEAN : Open(a) \/ Assertions(a) \/ DriveWebCase(a, b)

PageOutside == RunnerReplies \/ RunnerExits \/ Drain
=============================================================================
