------------------------------ MODULE QaCases -------------------------------
(* What every deterministic driver of `review qa` shares (qa/bot_driver.py,    *)
(* qa/live_bot_runner.py, qa/web_driver.py, qa/ext_driver.py): the parsed      *)
(* cases, driven one after the other, and what a result rests on.              *)
EXTENDS Naturals, Sequences, FiniteSets

CONSTANTS
    Runs,          \* the runs explored: a driver and the suite it parses
    Sizes          \* how many requests a page case makes to read the window

\* A case as the parsers leave it: "prose" holds no directive to drive; "reply"
\* and "silent" are what it waits for (of an ask client: an answer, or none unless it
\* taps or expects no card); an agent case expects `cards` new cards.
Case == [kind: {"prose", "reply", "silent"}, tap: BOOLEAN, cards: 0..2]

Tiers == {"bot", "agent", "live", "web", "ext"}

ASSUME RunsAssumption ==
    /\ \A r \in Runs : r.tier \in Tiers /\ r.suite \in Seq(Case)
    /\ Sizes \subseteq Nat

\* Of a text a case asks one thing only: it holds what Expect: names, what
\* Expect-no: forbids, or neither.
Texts == {"want", "ban", "other"}

VARIABLES
    tier,      \* which driver runs
    suite,     \* the parsed suite
    place,     \* where the driver is
    k,         \* the case it is at; 0 before the first
    results,   \* one record per judged case: status, and what it was judged on
    verdict    \* of the suite, once it has one

suiteVars == <<tier, suite, place, k, results, verdict>>

Status == {"PASS", "FAIL", "BLOCKED"}

\* A piece of evidence: a text, the case it answers and the case at whose time it
\* came (0: the probe, or nothing of ours). For a page: the request it answers.
Evidence == [of: Nat, during: Nat, text: Texts]

SuitesTypeOK ==
    /\ [tier |-> tier, suite |-> suite] \in Runs /\ k \in 0..Len(suite)
    /\ verdict \in Status \cup {"none"}
    /\ \A r \in 1..Len(results) :
         results[r].status \in Status /\ results[r].read \subseteq Evidence

\* _classify: a silent case passes on no reply at all, another one on replies that
\* hold every expected and no forbidden text between them.
Classify(case, texts) ==
    IF case.kind = "silent" THEN IF texts = {} THEN "PASS" ELSE "FAIL"
    ELSE IF "want" \in texts /\ "ban" \notin texts THEN "PASS" ELSE "FAIL"

TextsOf(read) == {e.text : e \in read}

SuiteVerdictOf(rs) ==
    IF rs = <<>> THEN "BLOCKED"
    ELSE IF \E i \in 1..Len(rs) : rs[i].status = "FAIL" THEN "FAIL"
    ELSE IF \E i \in 1..Len(rs) : rs[i].status = "BLOCKED" THEN "BLOCKED" ELSE "PASS"

\* The driver leaves the suite: with a verdict over its results, or blocked.
Finish(rs) ==
    /\ verdict' = SuiteVerdictOf(rs) /\ results' = rs
    /\ place' = "close"
    /\ UNCHANGED <<tier, suite, k>>

Blocked ==
    /\ verdict' = "BLOCKED"
    /\ place' = "close"
    /\ UNCHANGED <<tier, suite, k, results>>

\* The next case, or the end of the suite after the last.
NextCase(rs) ==
    IF k = Len(suite) THEN Finish(rs)
    ELSE /\ k' = k + 1 /\ place' = "case" /\ results' = rs
         /\ UNCHANGED <<tier, suite, verdict>>

Judged(status, read) == NextCase(Append(results, [status |-> status, read |-> read]))

Goto(where) ==
    /\ place' = where
    /\ UNCHANGED <<tier, suite, k, results, verdict>>

SuiteInit ==
    /\ \E r \in Runs : tier = r.tier /\ suite = r.suite
    /\ place = "start" /\ k = 0
    /\ results = <<>> /\ verdict = "none"
=============================================================================
