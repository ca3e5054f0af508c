------------------------------ MODULE Sessions ------------------------------
(* The log of a brainstorm and how it is read back (sessions.py). A log is the *)
(* sequence of what was appended; the last append of a run that was killed, or *)
(* that met a full disk, may be there in part.                                 *)
EXTENDS Integers, Sequences

\* An append: kind, round number, whose text (the run's number, 0 when it was cut
\* off), what the text says, and whether the line of the session's nonce is there.
Entry ==
    [kind: {"header", "resumed", "round", "aborted", "moderator", "final"},
     n: Nat, by: Nat, nonce: BOOLEAN,
     says: {"whole", "topic", "plain", "go", "stop", "forged", "echo",
            "moderated", "decided"}]

\* A round whose text quotes the heading of its own moderator, and below it, if it is
\* "decided", the line of a STOP.
Quotes(says) == says \in {"moderated", "decided"}

Entries(kind, n, by, says, nonce) ==
    [kind |-> kind, n |-> n, by |-> by, says |-> says, nonce |-> nonce]

\* What may be left of an append that was cut short, besides nothing at all.
Torn(e) ==
    CASE e.kind = "header" -> {[e EXCEPT !.says = "topic", !.nonce = FALSE],
                               [e EXCEPT !.says = "topic"]}
      [] e.kind = "round" -> {[e EXCEPT !.by = 0, !.says = "plain", !.nonce = FALSE],
                              [e EXCEPT !.by = 0]}
      [] e.kind = "moderator" -> {[e EXCEPT !.by = 0, !.says = "go"]}
      [] e.kind = "final" -> {[e EXCEPT !.by = 0, !.nonce = FALSE],
                              [e EXCEPT !.by = 0]}
      [] OTHER -> {}

\* The nonce is trusted only in the second line of the file.
TrustedNonce(log) ==
    Len(log) > 0 /\ log[1].kind = "header" /\ log[1].nonce

\* The bounds and panel stand in the header's last line.
SavedBound(log, bound) ==
    IF Len(log) > 0 /\ log[1].kind = "header" /\ log[1].says # "topic" THEN bound ELSE 0

NoReading == [rounds |-> <<>>, open |-> FALSE, said |-> FALSE, stop |-> FALSE,
              expected |-> 1, completed |-> FALSE]

\* The round under way ends where the next begins, and at the end.
Flush(s) ==
    IF ~s.open THEN s
    ELSE LET last == Len(s.rounds)
         IN  [s EXCEPT !.rounds[last].stop = s.stop, !.open = FALSE, !.said = FALSE,
                       !.stop = FALSE]

\* A quoted heading of its moderator cuts a round's text short, and what follows is
\* searched for the decision.
OpenRound(s, n, by, says) ==
    [Flush(s) EXCEPT
       !.rounds = Append(@, [n |-> n, by |-> by, stop |-> FALSE, cut |-> Quotes(says)]),
       !.open = TRUE, !.expected = n + 1, !.said = Quotes(says), !.stop = says = "decided"]

\* Mutant: a heading begins a round whether or not the nonce stands below it.
MutStructural(s, nonced, n, stamped) == n = s.expected

\* A heading begins a round when the next line stamps it; in a log without a nonce,
\* when it is the number that is due.
Structural(s, nonced, n, stamped) ==
    IF nonced THEN stamped ELSE n = s.expected

\* Lines of an append that quote the next round's heading.
ReadQuoted(s, e, nonced) ==
    IF e.says = "forged" /\ Structural(s, nonced, e.n + 1, FALSE)
    THEN OpenRound(s, e.n + 1, 0, "plain") ELSE s

\* Text below a moderator's heading may hold a STOP, whosever it is.
ReadText(s, e) ==
    IF s.said /\ e.says \in {"stop", "decided"} THEN [s EXCEPT !.stop = TRUE] ELSE s

ReadRound(s, e, nonced) ==
    IF Structural(s, nonced, e.n, e.nonce)
    THEN ReadQuoted(OpenRound(s, e.n, e.by, e.says), e, nonced)
    ELSE ReadQuoted(ReadText(s, e), e, nonced)

\* A moderator's part is found by its heading, once; all lines after it are searched
\* for the decision, whosever they are, and in a log without a nonce a quoted
\* heading of the synthesis ends the session.
ReadModerator(s, e, nonced) ==
    LET mine == s.open /\ ~s.said /\ s.rounds[Len(s.rounds)].n = e.n
        t == IF mine THEN [s EXCEPT !.said = TRUE] ELSE s
        u == IF t.said /\ e.says \in {"stop", "echo"} THEN [t EXCEPT !.stop = TRUE] ELSE t
    IN  IF u.said /\ ~nonced /\ e.says = "forged"
        THEN [Flush(u) EXCEPT !.completed = TRUE] ELSE u

ReadFinal(s, e, nonced) ==
    IF (nonced /\ e.nonce) \/ (~nonced /\ s.said)
    THEN [Flush(s) EXCEPT !.completed = TRUE] ELSE s

\* One append more; what follows a synthesis is not read.
ReadEntry(s, e, nonced) ==
    IF s.completed THEN s
    ELSE CASE e.kind = "round" -> ReadRound(s, e, nonced)
           [] e.kind = "moderator" -> ReadModerator(s, e, nonced)
           [] e.kind = "aborted" -> ReadText(s, e)
           [] e.kind = "final" -> ReadFinal(s, e, nonced)
           [] OTHER -> s

Reading(log, nonced) ==
    LET upTo[i \in 0..Len(log)] ==
            IF i = 0 THEN NoReading ELSE ReadEntry(upTo[i - 1], log[i], nonced)
    IN  upTo[Len(log)]

\* parse_log
ReadLog(log) == Flush(Reading(log, TrustedNonce(log)))

\* Mutant: the minimum of rounds is forgotten when a session is taken up again.
MutStopped(s, min) == s.rounds # <<>> /\ s.rounds[Len(s.rounds)].stop

\* Session.stopped: the last round's moderator decided it, at the minimum or past it.
Stopped(s, min) ==
    /\ s.rounds # <<>>
    /\ s.rounds[Len(s.rounds)].stop
    /\ Len(s.rounds) >= (IF min < 1 THEN 1 ELSE min)

\* transcript_blocks
TranscriptBlocks(s) ==
    [i \in DOMAIN s.rounds |->
       [n |-> s.rounds[i].n, by |-> s.rounds[i].by, cut |-> s.rounds[i].cut]]
=============================================================================
