------------------------------- MODULE MCQaRun ------------------------------
(* Requests that take each route: the three drivers, the bare tester and the  *)
(* tester in an environment, with the flags each route looks at.              *)
EXTENDS QaRun

Plain ==
    [suites |-> TRUE, parses |-> TRUE, argKind |-> "auto", cfgKind |-> "none",
     looks |-> {}, blocks |-> {}, live |-> FALSE, available |-> TRUE,
     negative |-> FALSE, supported |-> TRUE, server |-> TRUE, stage |-> "none",
     hook |-> FALSE, compose |-> FALSE, file |-> TRUE, check |-> "url", keep |-> FALSE, inPlace |-> FALSE,
     strict |-> FALSE, tree |-> "clean-git"]

Trees == {"clean-git", "dirty", "unknown", "clean-nongit"}

\* Refused before anything is brought up, and the ways a kind is resolved.
Refused ==
    {[Plain EXCEPT !.suites = FALSE], [Plain EXCEPT !.parses = FALSE],
     [Plain EXCEPT !.supported = FALSE]}
    \cup {[Plain EXCEPT !.negative = TRUE, !.hook = h] : h \in BOOLEAN}
    \cup {[Plain EXCEPT !.argKind = k, !.blocks = {k}, !.negative = TRUE] : k \in Drivers}

Driven ==
    {[Plain EXCEPT !.looks = {"web", "bot"}, !.blocks = {"web"}, !.server = s,
        !.inPlace = ~s] : s \in BOOLEAN}
    \cup {[Plain EXCEPT !.cfgKind = k, !.blocks = {k}, !.live = l, !.available = a,
        !.strict = TRUE] : k \in Drivers, l, a \in BOOLEAN}

Tested ==
    {[Plain EXCEPT !.argKind = "backend", !.looks = {"ext"}, !.inPlace = (t # "clean-nongit"), !.tree = t,
        !.strict = TRUE] : t \in Trees}
    \cup {Plain}

WithEnv ==
    {[Plain EXCEPT !.inPlace = h, !.stage = s, !.hook = h, !.compose = ~h, !.keep = k] :
       s \in {"none", "flag"}, h, k \in BOOLEAN}
    \cup {[Plain EXCEPT !.stage = "ambient"], [Plain EXCEPT !.stage = "config"],
          [Plain EXCEPT !.compose = TRUE, !.file = FALSE],
          [Plain EXCEPT !.compose = TRUE, !.check = "none"],
          [Plain EXCEPT !.hook = TRUE, !.check = "service"]}

\* A transcript without counts, and every count of at most one case of a kind.
EveryTranscript ==
    {t \in Transcript : /\ t.by = "tester"
                        /\ t.passed + t.failed + t.blocked <= 1
                        /\ ~t.tally => t.run + t.passed + t.failed + t.blocked = 0}

\* The runs of the tester alone try every transcript, the others four.
SaidFor(r) ==
    IF r.hook \/ r.compose \/ r.stage # "none"
    THEN {t \in EveryTranscript : t.tally /\ t.rc = 0 /\ t.findings = 0 /\ t.run = 1
                                  /\ t.passed = 1}
    ELSE EveryTranscript

AllRequests == Refused \cup Driven \cup Tested \cup WithEnv
=============================================================================
