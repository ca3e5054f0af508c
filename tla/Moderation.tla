----------------------------- MODULE Moderation -----------------------------
(* What the question modes share: which answers count, the call tally behind   *)
(* the run's statistics, the moderator with its fallbacks, and how quorum      *)
(* reads what a moderator wrote (panel.py, modes/quorum.py, modes/brainstorm.py). *)
EXTENDS Integers, Sequences, FiniteSets

\* What the seats of one panel came to: an answer, exit 0 with nothing in it (no
\* output, or a notice that the service is unavailable), or a failure.
Turnout == [usable: Nat, hollow: Nat, failed: Nat]
SeatsIn(t) == t.usable + t.hollow + t.failed
AllUsable(t) == t.hollow + t.failed = 0

Tally == [ok: Nat, fail: Nat]
NoTally == [ok |-> 0, fail |-> 0]

\* Each seat ticks by its exit code; then the hollow ones are moved over.
TickPanel(n, t) == [ok |-> n.ok + t.usable + t.hollow, fail |-> n.fail + t.failed]

\* Mutant: the hollow answers stay successes.
MutRecount(n, t) == n

RecountByUsability(n, t) ==
    LET moved == IF t.hollow < n.ok THEN t.hollow ELSE n.ok
    IN  [ok |-> n.ok - moved, fail |-> n.fail + moved]

\* The whole chain of candidates ticks once, by whether its answer is usable.
TickModerator(n, usable) ==
    IF usable THEN [n EXCEPT !.ok = @ + 1] ELSE [n EXCEPT !.fail = @ + 1]

RoundIsDead(t) == SeatsIn(t) = 0 \/ t.usable * 2 < SeatsIn(t)

\* A round has a seat for each model, and three at least.
SlotCount(models) == IF models < 3 THEN 3 ELSE models

(* Moderators                                                                 *)

\* The candidates: the explicit one, those available, the first of the panel.
PickModerators(explicit, available, panel) ==
    LET ordered == explicit \o available \o (IF panel = <<>> THEN <<>> ELSE <<panel[1]>>)
        First(i) == \A j \in 1..(i - 1) : ordered[j] # ordered[i]
        kept == {i \in DOMAIN ordered : First(i)}
        Place(i) == Cardinality({j \in kept : j <= i})
    IN  IF kept = {} THEN <<"codex">>
        ELSE [k \in 1..Cardinality(kept) |->
                 ordered[CHOOSE i \in kept : Place(i) = k]]

\* What a moderator may say, by what it is asked, when its answer is usable and when
\* the last of the candidates failed: what a failure printed is kept as its text.
Says(stage, usable) ==
    CASE stage = "round" -> IF usable THEN {"go", "stop", "forged"}
                            ELSE {"go", "stop", "echo"}
      [] stage = "summary" -> IF usable THEN {"missing", "empty", "trivial", "real"}
                              ELSE {"missing"}
      [] stage = "refute" -> IF usable THEN {"found", "both", "null", "neither"}
                             ELSE {"found"}
      [] OTHER -> {"plain"}

\* The first candidate with a usable answer, or the last one's failure.
ModeratorResults(candidates, stage) ==
    [model: {candidates[i] : i \in DOMAIN candidates}, usable: {TRUE}, says: Says(stage, TRUE)]
    \cup [model: {candidates[Len(candidates)]}, usable: {FALSE}, says: Says(stage, FALSE)]

\* The moderator that answered is asked first from then on.
StickTo(r, candidates) ==
    IF r.usable
    THEN LET Others(m) == m # r.model IN <<r.model>> \o SelectSeq(candidates, Others)
    ELSE candidates

\* The decision is looked for on stdout only, whatever the exit code.
DecidesStop(r) == r.says = "stop"

(* Quorum                                                                     *)

\* Clean: the section of disagreements is there, and empty or a phrase for nothing.
QuorumVerdictIsClean(says) == says \in {"empty", "trivial"}

\* A claim that is not part of a denial wins over any denial beside it.
RefutationVerdict(r) ==
    IF ~r.usable THEN "inconclusive"
    ELSE IF r.says \in {"found", "both"} THEN "found"
    ELSE IF r.says = "null" THEN "not_found" ELSE "inconclusive"
=============================================================================
