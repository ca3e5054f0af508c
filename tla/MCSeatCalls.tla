---------------------------- MODULE MCSeatCalls -----------------------------
(* Two processes, one of them with two threads, on a claude seat called with   *)
(* and without images, an opencode seat that stalls and a keyed seat whose     *)
(* account may be denied.                                                      *)
EXTENDS SeatCalls, TLC

CONSTANTS t1, t2, t3

MCThreads == {t1, t2, t3}
MCProcess(t) == IF t = t3 THEN "p2" ELSE "p1"

Seat(model, named, provider) ==
    [model |-> model, named |-> named, provider |-> provider, unpaid |-> FALSE,
     ready |-> TRUE, watch |-> "none", images |-> FALSE]
ClaudeSeat == Seat("m", "claude", "anthropic")
Pictured == [ClaudeSeat EXCEPT !.images = TRUE]
Unpaid == [ClaudeSeat EXCEPT !.unpaid = TRUE]
Unready == [Seat("c", "commandcode", "commandcode") EXCEPT !.ready = FALSE]
Watched(how) == [Seat("g", "fireworks", "fireworks") EXCEPT !.watch = how]
Keyed == Seat("c", "commandcode", "commandcode")
MCSeats == {ClaudeSeat, Pictured, Unpaid, Unready, Keyed} \cup {Watched(h) : h \in {"stall", "silence"}}

MCKeys == {<<"m", "cli">>, <<"m", "api">>, <<"g", "opencode">>}
MCSchedule == <<1, 2>>
MCOverrides == {Unset}

Env(mode, cli) == [mode |-> mode, cli |-> cli, key |-> TRUE]
Work(env, a, b, c) == [env |-> env, calls |-> (t1 :> a) @@ (t2 :> b) @@ (t3 :> c)]
MCWorks ==
    LET cli == Env("unset", "claude")
    IN  {Work(cli, <<ClaudeSeat, ClaudeSeat>>, <<>>, <<ClaudeSeat, ClaudeSeat>>),
         Work(cli, <<ClaudeSeat>>, <<Pictured>>, <<>>),
         Work(Env("api", "claude"), <<Pictured, ClaudeSeat>>, <<>>, <<Pictured>>),
         Work(Env("unset", "claude-p"), <<Pictured, ClaudeSeat>>, <<>>, <<Unpaid>>),
         Work(Env("unset", "none"), <<ClaudeSeat, Pictured, ClaudeSeat>>, <<>>, <<>>),
         Work(cli, <<Keyed, Keyed>>, <<Keyed>>, <<Unready>>),
         Work(cli, <<Watched("stall")>>, <<>>, <<Watched("silence")>>)}
=============================================================================
