---------------------------- MODULE MCDashboard -----------------------------
(* Two or three logs that grow while pages with two gaps, a stream, and the    *)
(* two startup threads read them.                                              *)
EXTENDS Dashboard, TLC

CONSTANTS p1, p2, st, wm, b1, b2

MCThreads == {p1, p2, st, wm}
MCRefreshers == {b1, b2}
MCBoard == <<<<"codex", "x">>, <<"claude", "opus">>>>

L(what) == Line(what)
Log(name, backend, round, body, ends) ==
    [kind |-> "call", name |-> name, backend |-> backend, round |-> round, task |-> "T",
     model |-> IF backend = "codex" THEN "x" ELSE "", ends |-> ends, panel |-> {},
     lines |-> <<Line("header")>> \o body \o Footers[ends]]
Transcript(name, lines) ==
    [kind |-> "md", name |-> name, backend |-> "", round |-> 0, task |-> "T", model |-> "",
     ends |-> "ok", panel |-> {"x"}, lines |-> lines]

Plain == <<L("text")>>
Short(name) == [Log(name, "codex", 0, <<>>, "ok") EXCEPT !.lines = <<L("text"), L("exit0")>>]

Ask1(op, gap) == [op |-> op, gap |-> gap]
Case(ls, written, a1, a2, a3, a4, polls, removable, failures, db) ==
    [logs |-> ls, written |-> written, asks |-> (p1 :> a1) @@ (p2 :> a2) @@ (st :> a3) @@ (wm :> a4),
     polls |-> polls, removable |-> removable, failures |-> failures, db |-> db]

Two == <<Short(1), Short(2)>>
One == <<Short(1), [Short(2) EXCEPT !.lines = <<>>, !.ends = "killed"]>>
Brief == <<Short(1), [Short(2) EXCEPT !.lines = <<L("text")>>, !.ends = "killed"]>>

Runs9 == <<Ask1("runs", 9)>>
Stats9 == <<Ask1("stats", 9)>>
Runs1 == <<Ask1("runs", 1)>>
Start == <<Ask1("force", 9), Ask1("stats", 9)>>
Watch == <<Ask1("watch", 9)>>
Watch1 == <<Ask1("watch", 1)>>
Warm == <<Ask1("warm", 9)>>

\* What is read of a log, however it is written.
Bodies ==
    {<<>>, Plain, <<L("tokens")>>, <<L("stderr")>>, <<L("text"), L("timeout")>>,
     <<L("exit0"), L("silence"), L("text")>>,
     <<L("error")>>, <<L("paywall")>>, <<L("badkey")>>, <<L("blocked")>>, <<L("notice")>>}
Read1 ==
    {Case(<<Log(1, "codex", 0, body, ends), Log(2, "claude", 0, Plain, "ok")>>, <<1, 3>>,
          <<Ask1("force", gap)>>, <<>>, <<>>, <<>>, {}, {}, 0, FALSE) :
        body \in Bodies, ends \in DOMAIN Footers, gap \in {1, 9}}
Read2 ==
    {Case(<<Log(1, "codex", 1, Plain, ends),
            Transcript(2, <<L("panel"), L("round"), Persona("x"), L("section"), Persona("x")>>)>>,
          <<2, 2>>, <<Ask1("force", 9), Ask1("stats", gap)>>, <<>>, <<>>, <<>>, {}, {}, 0, FALSE) :
        ends \in {"ok", "failed"}, gap \in {1, 9}}

MCWorks ==
    {Case(One, <<1, 0>>, Stats9, Runs1, <<>>, <<>>, {p1}, {}, 0, FALSE),
     Case(One, <<1, 0>>, Runs9, <<>>, <<>>, Start, {p1}, {}, 1, FALSE),
     Case(Two, <<2, 1>>, <<>>, <<>>, Watch, Warm, {}, {1}, 1, TRUE),
     Case(Two, <<2, 1>>, Runs9, <<>>, <<>>, <<>>, {p1}, {1, 2}, 0, TRUE),
     Case(Brief, <<1, 0>>, Runs9, <<>>, <<>>, <<>>, {p1}, {2}, 0, FALSE),
     Case(Brief, <<1, 0>>, <<>>, Watch1, Watch, <<>>, {}, {2}, 0, FALSE)}
    \cup Read1 \cup Read2
=============================================================================
