----------------------------- MODULE MCQaDrivers ----------------------------
(* Suites of two cases for each driver.                                        *)
EXTENDS QaDrivers

Prose == [kind |-> "prose", tap |-> FALSE, cards |-> 0]
Reply == [Prose EXCEPT !.kind = "reply"]
Silent == [Prose EXCEPT !.kind = "silent"]
Tapped == [Reply EXCEPT !.tap = TRUE]
Card(n, t) == [Reply EXCEPT !.cards = n, !.tap = t]
Posted == [Silent EXCEPT !.cards = 1]

RunsOf(t, suites) == {[tier |-> t, suite |-> s] : s \in suites}

AllRuns ==
    RunsOf("bot", {<<Reply, Silent>>, <<Silent, Reply>>, <<Prose>>, <<>>})
    \cup RunsOf("agent", {<<Card(1, TRUE), Card(0, FALSE)>>, <<Posted, Card(2, TRUE)>>,
                          <<Card(1, FALSE), Card(1, TRUE)>>, <<Card(0, TRUE)>>})
    \cup RunsOf("live", {<<Reply, Silent>>, <<Tapped, Reply>>, <<Prose>>})
    \cup RunsOf("ext", {<<Reply, Reply>>})
    \cup RunsOf("web", {<<Prose, Reply>>})
=============================================================================
