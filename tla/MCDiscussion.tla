---------------------------- MODULE MCDiscussion ----------------------------
(* Three seats, two moderators, three to five rounds and up to three invocations.      *)
EXTENDS Discussion

Base == [mode |-> "brainstorm", panel |-> <<"m1", "m3">>, moderator |-> <<>>,
         available |-> <<"m1", "m2">>, rounds |-> 3, maxRounds |-> 4,
         adversarial |-> FALSE, writable |-> TRUE,
         answers |-> {"panel", "moderator"},
         meanwhile |-> 0, odd |-> 1, dies |-> 1, runs |-> 2]

AllRequests ==
    {Base, [Base EXCEPT !.maxRounds = 3, !.odd = 0, !.dies = 2, !.runs = 3],
     [Base EXCEPT !.maxRounds = 1, !.writable = FALSE, !.odd = 2],
     [Base EXCEPT !.maxRounds = 3, !.meanwhile = 3, !.odd = 0],
     [Base EXCEPT !.rounds = 4, !.maxRounds = 5, !.odd = 0]}
    \cup {[Base EXCEPT !.mode = m, !.adversarial = a] :
            m \in {"just-ask", "quorum"}, a \in BOOLEAN}
    \cup {[Base EXCEPT !.mode = m, !.answers = a, !.odd = 0] :
            m \in {"quorum", "brainstorm"}, a \in {{"panel"}, {}}}

Came(u, h, f) == [usable |-> u, hollow |-> h, failed |-> f]

AllTurnouts ==
    {Came(3, 0, 0), Came(2, 1, 0), Came(1, 1, 1), Came(0, 3, 0)}
    \cup {Came(2, 0, 0), Came(1, 1, 0), Came(0, 1, 1)}
=============================================================================
