--------------------------- MODULE DiscussionProofs ---------------------------
(***************************************************************************)
(* What TLAPS proves about Discussion for any requests, any panels, any    *)
(* turnouts and any number of invocations over one log: what the tally of  *)
(* a run says, why a discussion ends, and that a log reads back to one     *)
(* discussion.                                                             *)
(***************************************************************************)
EXTENDS Discussion, WellFoundedInduction, TLAPS

-----------------------------------------------------------------------------
(* Reading a log: one append more is one step more of the reader.          *)

(* The reader's states for the first n appends of a log.                   *)
States(l, nonced, n, f) ==
    f = [i \in 0..n |-> IF i = 0 THEN NoReading ELSE ReadEntry(f[i - 1], l[i], nonced)]

LEMMA LeastOf ==
    ASSUME NEW T \in SUBSET Nat, T # {}
    PROVE  \E i \in T : \A j \in Nat : j < i => j \notin T
<1>1. PICK i \in T : \A j \in T : ~ (<<j, i>> \in OpToRel(<, Nat))
  BY NatLessThanWellFounded, WFMin, Zenon
<1> QED
  BY <1>1 DEF OpToRel

LEMMA ReaderHasStates ==
    ASSUME NEW l, NEW nonced, NEW n \in Nat
    PROVE  \E f : States(l, nonced, n, f)
<1> DEFINE Without == {k \in Nat : ~ \E f : States(l, nonced, k, f)}
<1> SUFFICES ASSUME Without # {} PROVE FALSE
  OBVIOUS
<1>1. PICK k \in Without : \A j \in Nat : j < k => j \notin Without
  BY LeastOf
<1>2. CASE k = 0
  <2>1. States(l, nonced, 0, [i \in 0..0 |-> NoReading])
    BY DEF States
  <2> QED
    BY <1>1, <1>2, <2>1
<1>3. CASE k # 0
  <2>1. PICK f : States(l, nonced, k - 1, f)
    BY <1>1, <1>3
  <2> DEFINE g == [i \in 0..k |-> IF i = k THEN ReadEntry(f[k - 1], l[k], nonced) ELSE f[i]]
  <2>2. \A i \in 0..(k - 1) :
          f[i] = IF i = 0 THEN NoReading ELSE ReadEntry(f[i - 1], l[i], nonced)
    BY <2>1 DEF States
  <2>3. \A i \in 0..k :
          g[i] = IF i = 0 THEN NoReading ELSE ReadEntry(g[i - 1], l[i], nonced)
    BY <1>3, <2>2
  <2>4. States(l, nonced, k, g)
    BY <2>3 DEF States
  <2> QED
    BY <2>4
<1> QED
  BY <1>2, <1>3

(* The states of a log and of a longer one agree as far as the first goes. *)
LEMMA StatesAgree ==
    ASSUME NEW l, NEW m, NEW nonced, NEW f, NEW g, NEW n \in Nat, NEW k \in Nat, n <= k,
           States(l, nonced, n, f), States(m, nonced, k, g),
           \A i \in 1..n : l[i] = m[i]
    PROVE  \A i \in 0..n : f[i] = g[i]
<1> DEFINE Differ == {i \in Nat : i <= n /\ f[i] # g[i]}
<1> SUFFICES ASSUME Differ # {} PROVE FALSE
  OBVIOUS
<1>1. PICK d \in Differ : \A j \in Nat : j < d => j \notin Differ
  BY LeastOf
<1>2. /\ \A i \in 0..n : f[i] = IF i = 0 THEN NoReading ELSE ReadEntry(f[i - 1], l[i], nonced)
      /\ \A i \in 0..k : g[i] = IF i = 0 THEN NoReading ELSE ReadEntry(g[i - 1], m[i], nonced)
  BY DEF States
<1>3. CASE d = 0
  BY <1>1, <1>2, <1>3
<1>4. CASE d # 0
  <2>1. f[d - 1] = g[d - 1] /\ l[d] = m[d] /\ d \in 0..n /\ d \in 0..k
    BY <1>1, <1>4
  <2> QED
    BY <1>1, <1>2, <1>4, <2>1
<1> QED
  BY <1>3, <1>4

LEMMA ReadingByStates ==
    ASSUME NEW l, NEW nonced, Len(l) \in Nat
    PROVE  \E f : States(l, nonced, Len(l), f) /\ Reading(l, nonced) = f[Len(l)]
<1> DEFINE up == CHOOSE f : States(l, nonced, Len(l), f)
<1>1. Reading(l, nonced) = up[Len(l)]
  BY DEF Reading, States
<1>2. States(l, nonced, Len(l), up)
  BY ReaderHasStates
<1> HIDE DEF up
<1> QED
  BY <1>1, <1>2

LEMMA ReadingOfAppend ==
    ASSUME NEW l \in Seq(Entry), NEW e \in Entry, NEW nonced
    PROVE  Reading(Append(l, e), nonced) = ReadEntry(Reading(l, nonced), e, nonced)
<1> DEFINE n == Len(l)
           longer == Append(l, e)
<1>1. /\ n \in Nat /\ Len(longer) = n + 1 /\ longer[n + 1] = e
      /\ \A i \in 1..n : l[i] = longer[i]
  OBVIOUS
<1>2. PICK f : States(l, nonced, n, f) /\ Reading(l, nonced) = f[n]
  BY <1>1, ReadingByStates
<1>3. PICK g : States(longer, nonced, n + 1, g) /\ Reading(longer, nonced) = g[n + 1]
  <2>1. \E g : States(longer, nonced, Len(longer), g) /\ Reading(longer, nonced) = g[Len(longer)]
    <3>1. Len(longer) \in Nat
      BY <1>1
    <3> HIDE DEF longer, n
    <3> QED
      BY <3>1, ReadingByStates, Zenon
  <2> QED
    BY <1>1, <2>1
<1> HIDE DEF longer, n
<1>4. f[n] = g[n]
  BY <1>1, <1>2, <1>3, StatesAgree
<1>5. g[n + 1] = ReadEntry(g[n], longer[n + 1], nonced)
  BY <1>1, <1>3 DEF States
<1> QED
  BY <1>1, <1>2, <1>3, <1>4, <1>5 DEF longer

LEMMA ReadingOfNothing ==
    ASSUME NEW nonced
    PROVE  Reading(<<>>, nonced) = NoReading
<1>1. PICK f : States(<<>>, nonced, 0, f) /\ Reading(<<>>, nonced) = f[0]
  BY ReadingByStates
<1> QED
  BY <1>1 DEF States

-----------------------------------------------------------------------------
(* What one append does to what has been read.                             *)

RoundsRead == [n: Nat, by: Nat, stop: BOOLEAN, cut: BOOLEAN]
Readers == [rounds: Seq(RoundsRead), open: BOOLEAN, said: BOOLEAN, stop: BOOLEAN,
            expected: Nat, completed: BOOLEAN]

(* A round is under way, or a discussion completed, only when there is one. *)
Sound(s) ==
    /\ s \in Readers
    /\ s.open => s.rounds # <<>>
    /\ s.said => s.open
    /\ s.completed => s.rounds # <<>>

(* The same rounds, whoever decided to stop after them.                    *)
SameRounds(s, t) ==
    /\ Len(t.rounds) = Len(s.rounds)
    /\ \A i \in 1..Len(s.rounds) :
         /\ t.rounds[i].n = s.rounds[i].n /\ t.rounds[i].by = s.rounds[i].by
         /\ t.rounds[i].cut = s.rounds[i].cut

OneMore(s, t, n, by, says) ==
    /\ Len(t.rounds) = Len(s.rounds) + 1
    /\ \A i \in 1..Len(s.rounds) :
         /\ t.rounds[i].n = s.rounds[i].n /\ t.rounds[i].by = s.rounds[i].by
         /\ t.rounds[i].cut = s.rounds[i].cut
    /\ t.rounds[Len(t.rounds)].n = n /\ t.rounds[Len(t.rounds)].by = by
    /\ t.rounds[Len(t.rounds)].cut = Quotes(says)
    /\ t.open

LEMMA FlushEndsTheRound ==
    ASSUME NEW s, Sound(s)
    PROVE  /\ Sound(Flush(s)) /\ SameRounds(s, Flush(s)) /\ ~Flush(s).open
           /\ Flush(s).completed = s.completed /\ Flush(s).expected = s.expected
           /\ s.open => Flush(s).rounds[Len(s.rounds)].stop = s.stop
           /\ ~s.open => Flush(s) = s
<1>1. CASE ~s.open
  BY <1>1 DEF Flush, Sound, SameRounds
<1>2. CASE s.open
  <2> DEFINE last == Len(s.rounds)
             rounds == [s.rounds EXCEPT ![last].stop = s.stop]
             t == [s EXCEPT !.rounds = rounds, !.open = FALSE, !.said = FALSE, !.stop = FALSE]
  <2>1. Flush(s) = [s EXCEPT !.rounds[last].stop = s.stop, !.open = FALSE, !.said = FALSE,
                             !.stop = FALSE]
    BY <1>2 DEF Flush
  <2>2. last \in 1..Len(s.rounds) /\ s.rounds \in Seq(RoundsRead) /\ s.stop \in BOOLEAN
    BY <1>2 DEF Sound, Readers
  <2>3. s.rounds[last] \in RoundsRead
    BY <2>2
  <2>4. /\ rounds \in Seq(RoundsRead) /\ Len(rounds) = Len(s.rounds)
        /\ \A i \in 1..Len(s.rounds) :
             /\ rounds[i].n = s.rounds[i].n /\ rounds[i].by = s.rounds[i].by
             /\ rounds[i].cut = s.rounds[i].cut
        /\ rounds[last].stop = s.stop
    BY <2>2, <2>3 DEF RoundsRead
  <2>5. Flush(s) = t
    BY <2>1 DEF Sound, Readers
  <2> HIDE DEF rounds, last
  <2>6. /\ t \in Readers /\ t.rounds = rounds /\ t.open = FALSE /\ t.said = FALSE
        /\ t.completed = s.completed /\ t.expected = s.expected
    BY <2>4 DEF Sound, Readers
  <2> HIDE DEF t
  <2>7. rounds # <<>>
    BY <1>2, <2>2, <2>4 DEF last
  <2> QED
    BY <1>2, <2>4, <2>5, <2>6, <2>7 DEF Sound, SameRounds, last
<1> QED
  BY <1>1, <1>2

LEMMA OpenRoundAddsOne ==
    ASSUME NEW s, Sound(s), NEW n \in Nat, NEW by \in Nat, NEW says
    PROVE  /\ Sound(OpenRound(s, n, by, says)) /\ OneMore(s, OpenRound(s, n, by, says), n, by, says)
           /\ OpenRound(s, n, by, says).completed = s.completed
           /\ OpenRound(s, n, by, says).stop => says = "decided"
<1> DEFINE f == Flush(s)
           quotes == Quotes(says)
           stops == says = "decided"
           new == [n |-> n, by |-> by, stop |-> FALSE, cut |-> quotes]
           rounds == Append(f.rounds, new)
           next == n + 1
           t == [f EXCEPT !.rounds = rounds, !.open = TRUE, !.expected = next,
                             !.said = quotes, !.stop = stops]
<1>1. Sound(f) /\ SameRounds(s, f) /\ f.completed = s.completed /\ ~f.open
  BY FlushEndsTheRound
<1>2. OpenRound(s, n, by, says) = t
  BY <1>1 DEF OpenRound, Sound, Readers
<1>9. quotes \in BOOLEAN /\ stops \in BOOLEAN
  BY DEF Quotes
<1> HIDE DEF quotes, stops
<1>3. new \in RoundsRead /\ new.n = n /\ new.by = by /\ new.cut = quotes
  BY <1>9 DEF RoundsRead
<1> HIDE DEF f
<1>4. f \in Readers /\ f.rounds \in Seq(RoundsRead)
  BY <1>1 DEF Sound, Readers
<1>5. /\ rounds \in Seq(RoundsRead) /\ Len(rounds) = Len(f.rounds) + 1
      /\ \A i \in 1..Len(f.rounds) : rounds[i] = f.rounds[i]
      /\ rounds[Len(rounds)] = new
  BY <1>3, <1>4
<1>8. next \in Nat
  OBVIOUS
<1> HIDE DEF rounds, next, new
<1>6. /\ t \in Readers /\ t.rounds = rounds /\ t.open = TRUE /\ t.stop = stops
      /\ t.completed = f.completed
  BY <1>4, <1>5, <1>8, <1>9 DEF Readers
<1> HIDE DEF t
<1>7. rounds # <<>> /\ Len(s.rounds) \in Nat
  BY <1>4, <1>5 DEF Sound, Readers
<1>10. Sound(t)
  BY <1>6, <1>7 DEF Sound
<1>11. Len(f.rounds) = Len(s.rounds) /\ \A i \in 1..Len(s.rounds) :
         f.rounds[i].n = s.rounds[i].n /\ f.rounds[i].by = s.rounds[i].by
           /\ f.rounds[i].cut = s.rounds[i].cut
  BY <1>1 DEF SameRounds
<1>12. \A i \in 1..Len(s.rounds) :
         rounds[i].n = s.rounds[i].n /\ rounds[i].by = s.rounds[i].by
           /\ rounds[i].cut = s.rounds[i].cut
  BY <1>5, <1>11
<1>13. /\ Len(rounds) = Len(s.rounds) + 1
       /\ rounds[Len(rounds)].n = n /\ rounds[Len(rounds)].by = by
       /\ rounds[Len(rounds)].cut = quotes
  BY <1>3, <1>5, <1>11
<1>14. OneMore(s, t, n, by, says)
  BY <1>6, <1>12, <1>13 DEF OneMore, quotes
<1> QED
  BY <1>1, <1>2, <1>6, <1>10, <1>14 DEF stops

LEMMA ReadEntryKeepsSound ==
    ASSUME NEW s, Sound(s), NEW e \in Entry, NEW nonced \in BOOLEAN,
           e.kind = "final" /\ nonced /\ e.nonce => s.rounds # <<>>
    PROVE  Sound(ReadEntry(s, e, nonced)) /\ (s.rounds # <<>> => ReadEntry(s, e, nonced).rounds # <<>>)
<1> DEFINE Kept(t) == Sound(t) /\ (s.rounds # <<>> => t.rounds # <<>>)
<1>1. Kept(s)
  OBVIOUS
<1>2. /\ e.n \in Nat /\ e.by \in Nat /\ e.nonce \in BOOLEAN /\ e.n + 1 \in Nat
      /\ e.kind \in {"header", "resumed", "round", "aborted", "moderator", "final"}
  BY DEF Entry
<1>3. ASSUME NEW t, Kept(t), NEW n \in Nat, NEW by \in Nat, NEW says
      PROVE  Kept(OpenRound(t, n, by, says))
  <2>1. /\ Sound(OpenRound(t, n, by, says))
        /\ OneMore(t, OpenRound(t, n, by, says), n, by, says)
    BY <1>3, OpenRoundAddsOne
  <2> QED
    BY <2>1 DEF OneMore, Sound
<1>4. ASSUME NEW t, Kept(t) PROVE Kept(ReadQuoted(t, e, nonced))
  BY <1>2, <1>3, <1>4 DEF ReadQuoted
<1>5. ASSUME NEW t, Kept(t), t.rounds # <<>> PROVE Kept([Flush(t) EXCEPT !.completed = TRUE])
  <2>1. Sound(Flush(t)) /\ SameRounds(t, Flush(t))
    BY <1>5, FlushEndsTheRound
  <2>2. Flush(t).rounds # <<>>
    BY <1>5, <2>1 DEF Sound, Readers, SameRounds
  <2> QED
    BY <2>1, <2>2 DEF Sound, Readers
<1>8. Kept(ReadText(s, e))
  BY DEF ReadText, Sound, Readers
<1>6. Kept(ReadRound(s, e, nonced))
  BY <1>1, <1>2, <1>3, <1>4, <1>8 DEF ReadRound
<1>7. Kept(ReadModerator(s, e, nonced))
  <2> DEFINE mine == s.open /\ ~s.said /\ s.rounds[Len(s.rounds)].n = e.n
             t == IF mine THEN [s EXCEPT !.said = TRUE] ELSE s
             u == IF t.said /\ e.says \in {"stop", "echo"} THEN [t EXCEPT !.stop = TRUE] ELSE t
  <2>1. Kept(t)
    BY DEF Sound, Readers
  <2> HIDE DEF t
  <2>2. Kept(u)
    BY <2>1 DEF Sound, Readers
  <2>3. ReadModerator(s, e, nonced) =
          IF u.said /\ ~nonced /\ e.says = "forged"
          THEN [Flush(u) EXCEPT !.completed = TRUE] ELSE u
    BY DEF ReadModerator, t
  <2> HIDE DEF u
  <2> QED
    BY <1>5, <2>2, <2>3 DEF Sound
<1>9. ASSUME e.kind = "final" PROVE Kept(ReadFinal(s, e, nonced))
  <2>1. CASE (nonced /\ e.nonce) \/ (~nonced /\ s.said)
    BY <1>1, <1>5, <1>9, <2>1 DEF ReadFinal, Sound
  <2>2. CASE ~((nonced /\ e.nonce) \/ (~nonced /\ s.said))
    BY <1>1, <2>2 DEF ReadFinal
  <2> QED
    BY <2>1, <2>2
<1> QED
  BY <1>1, <1>2, <1>6, <1>7, <1>8, <1>9 DEF ReadEntry

-----------------------------------------------------------------------------
(* With the nonce, only a stamped heading begins a round, and only the     *)
(* stamped synthesis completes the discussion.                             *)

LEMMA StampedRoundIsRead ==
    ASSUME NEW s, ~s.completed, NEW e \in Entry, e.kind = "round", e.nonce
    PROVE  ReadEntry(s, e, TRUE) = OpenRound(s, e.n, e.by, e.says)
BY DEF ReadEntry, ReadRound, ReadQuoted, Structural

LEMMA UnstampedIsPassedOver ==
    ASSUME NEW s, NEW e \in Entry,
           \/ e.kind \in {"header", "resumed"}
           \/ e.kind = "round" /\ ~e.nonce /\ e.says = "plain"
           \/ e.kind = "final" /\ ~e.nonce
    PROVE  ReadEntry(s, e, TRUE) = s
BY DEF ReadEntry, ReadRound, ReadText, ReadQuoted, ReadFinal, Structural, Entry

LEMMA TextAddsNoRound ==
    ASSUME NEW s, Sound(s), NEW e \in Entry, e.kind \in {"moderator", "aborted"}
    PROVE  LET t == ReadEntry(s, e, TRUE)
           IN  /\ t.rounds = s.rounds /\ t.completed = s.completed /\ t.open = s.open
               /\ s.said => t.said
               /\ s.stop => t.stop
               /\ t.stop /\ (e.kind = "aborted" => e.says # "decided") => s.stop \/ StopIn(e)
               /\ e.kind = "moderator" /\ e.says = "stop" /\ ~s.completed /\ s.open
                    /\ s.rounds[Len(s.rounds)].n = e.n => t.stop
BY DEF ReadEntry, ReadModerator, ReadText, Sound, Readers, StopIn

LEMMA StampedSynthesisCompletes ==
    ASSUME NEW s, Sound(s), NEW e \in Entry, e.kind = "final", e.nonce
    PROVE  LET t == ReadEntry(s, e, TRUE)
           IN  t.completed /\ SameRounds(s, t) /\ (t.stop => s.stop)
<1>1. CASE s.completed
  BY <1>1 DEF ReadEntry, SameRounds
<1>2. CASE ~s.completed
  <2>1. Flush(s) \in Readers /\ SameRounds(s, Flush(s)) /\ (Flush(s).stop => s.stop)
    BY FlushEndsTheRound DEF Sound, Flush, Readers
  <2>2. ReadEntry(s, e, TRUE) = [Flush(s) EXCEPT !.completed = TRUE]
    BY <1>2 DEF ReadEntry, ReadFinal
  <2> QED
    BY <2>1, <2>2 DEF SameRounds, Readers
<1> QED
  BY <1>1, <1>2

-----------------------------------------------------------------------------
(* The rounds of a log are its discussion.                                 *)

Whole(e) == e.kind = "round" /\ e.by # 0

QuotedOf(l, n) ==
    \E i \in 1..Len(l) : l[i].kind = "round" /\ l[i].n = n /\ Quotes(l[i].says)

LEMMA QuotedStays ==
    ASSUME NEW l \in Seq(Entry), NEW e, NEW n, QuotedOf(l, n)
    PROVE  QuotedOf(Append(l, e), n)
<1>1. \A i \in 1..Len(l) : i \in 1..Len(Append(l, e)) /\ Append(l, e)[i] = l[i]
  OBVIOUS
<1> QED
  BY <1>1 DEF QuotedOf

(* Numbered from 1, and the whole ones each once, in order, under their    *)
(* own number; one is cut short only when its text quotes its moderator.   *)
Faithful(u, l) ==
    /\ \A i \in 1..Len(u.rounds) : u.rounds[i].n = i
    /\ \A i \in 1..Len(l) :
         Whole(l[i]) => l[i].n \in 1..Len(u.rounds) /\ u.rounds[l[i].n].by = l[i].by
    /\ \A i \in 1..Len(u.rounds) : u.rounds[i].by # 0 =>
         \E j \in 1..Len(l) : Whole(l[j]) /\ l[j].n = i /\ l[j].by = u.rounds[i].by
    /\ \A i, j \in 1..Len(l) : Whole(l[i]) /\ Whole(l[j]) /\ i < j => l[i].n < l[j].n
    /\ \A i \in 1..Len(u.rounds) : u.rounds[i].cut => QuotedOf(l, i)

LEMMA NoRoundStaysFaithful ==
    ASSUME NEW u, Sound(u), NEW t, SameRounds(u, t), NEW l \in Seq(Entry),
           Faithful(u, l), NEW e \in Entry, ~Whole(e)
    PROVE  Faithful(t, Append(l, e))
<1> DEFINE longer == Append(l, e)
           n == Len(l)
<1>1. /\ n \in Nat /\ Len(longer) = n + 1 /\ longer[n + 1] = e
      /\ \A i \in 1..n : longer[i] = l[i]
  OBVIOUS
<1> HIDE DEF longer, n
<1>2. \A i \in 1..(n + 1) : Whole(longer[i]) => i \in 1..n /\ longer[i] = l[i]
  BY <1>1
<1>3. \A i \in 1..n : l[i] = longer[i]
  BY <1>1
<1>7. \A i \in 1..Len(t.rounds) : t.rounds[i].n = i
  BY DEF Faithful, SameRounds
<1>4. ASSUME NEW i \in 1..Len(longer), Whole(longer[i])
      PROVE  longer[i].n \in 1..Len(t.rounds) /\ t.rounds[longer[i].n].by = longer[i].by
  <2>1. i \in 1..n /\ longer[i] = l[i]
    BY <1>1, <1>2, <1>4
  <2>2. l[i].n \in 1..Len(u.rounds) /\ u.rounds[l[i].n].by = l[i].by
    BY <1>4, <2>1 DEF Faithful, n
  <2> QED
    BY <2>1, <2>2 DEF SameRounds
<1>5. \A i \in 1..Len(t.rounds) : t.rounds[i].by # 0 =>
        \E j \in 1..Len(longer) :
           Whole(longer[j]) /\ longer[j].n = i /\ longer[j].by = t.rounds[i].by
  <2> SUFFICES ASSUME NEW i \in 1..Len(t.rounds), t.rounds[i].by # 0
               PROVE  \E j \in 1..Len(longer) :
                         Whole(longer[j]) /\ longer[j].n = i /\ longer[j].by = t.rounds[i].by
    OBVIOUS
  <2>1. i \in 1..Len(u.rounds) /\ u.rounds[i].by = t.rounds[i].by
    BY DEF SameRounds
  <2>2. PICK j \in 1..n : Whole(l[j]) /\ l[j].n = i /\ l[j].by = u.rounds[i].by
    BY <2>1 DEF Faithful, n
  <2>3. j \in 1..Len(longer) /\ longer[j] = l[j]
    BY <1>1
  <2> QED
    BY <2>1, <2>2, <2>3
<1>6. \A i, j \in 1..Len(longer) :
         Whole(longer[i]) /\ Whole(longer[j]) /\ i < j => longer[i].n < longer[j].n
  BY <1>1, <1>2 DEF Faithful, n
<1>8. \A i \in 1..Len(t.rounds) : t.rounds[i].cut => QuotedOf(longer, i)
  <2>1. \A i \in 1..Len(t.rounds) : t.rounds[i].cut => QuotedOf(l, i)
    BY DEF Faithful, SameRounds
  <2> QED
    BY <2>1, QuotedStays DEF longer
<1> QED
  BY <1>4, <1>5, <1>6, <1>7, <1>8 DEF Faithful, longer

LEMMA NextRoundStaysFaithful ==
    ASSUME NEW u, Sound(u), NEW l \in Seq(Entry), Faithful(u, l), NEW e \in Entry,
           e.kind = "round", e.n = Len(u.rounds) + 1, NEW t, OneMore(u, t, e.n, e.by, e.says)
    PROVE  Faithful(t, Append(l, e))
<1> DEFINE longer == Append(l, e)
           n == Len(l)
           m == Len(u.rounds)
<1>1. /\ n \in Nat /\ Len(longer) = n + 1 /\ longer[n + 1] = e
      /\ \A i \in 1..n : longer[i] = l[i]
  OBVIOUS
<1>2. /\ m \in Nat /\ Len(t.rounds) = m + 1 /\ e.n = m + 1
      /\ \A i \in 1..m : t.rounds[i].n = u.rounds[i].n /\ t.rounds[i].by = u.rounds[i].by
      /\ t.rounds[m + 1].n = e.n /\ t.rounds[m + 1].by = e.by
  BY DEF Sound, Readers, OneMore
<1>3. /\ \A i \in 1..m : u.rounds[i].n = i
      /\ \A i \in 1..n :
           Whole(l[i]) => l[i].n \in 1..m /\ u.rounds[l[i].n].by = l[i].by
      /\ \A i \in 1..m : u.rounds[i].by # 0 =>
           \E j \in 1..n : Whole(l[j]) /\ l[j].n = i /\ l[j].by = u.rounds[i].by
      /\ \A i, j \in 1..n : Whole(l[i]) /\ Whole(l[j]) /\ i < j => l[i].n < l[j].n
  BY DEF Faithful
<1> HIDE DEF longer, n, m
<1>4. \A i \in 1..Len(t.rounds) : t.rounds[i].n = i
  BY <1>2, <1>3
<1>5. ASSUME NEW i \in 1..Len(longer), Whole(longer[i])
      PROVE  longer[i].n \in 1..Len(t.rounds) /\ t.rounds[longer[i].n].by = longer[i].by
  <2>1. CASE i = n + 1
    BY <1>1, <1>2, <2>1
  <2>2. CASE i \in 1..n
    <3>1. longer[i] = l[i] /\ l[i].n \in 1..m /\ u.rounds[l[i].n].by = l[i].by
      BY <1>1, <1>3, <1>5, <2>2
    <3>2. PICK k \in 1..m : k = l[i].n
      BY <3>1
    <3>3. k \in 1..Len(t.rounds) /\ t.rounds[k].by = u.rounds[k].by
      BY <1>2
    <3> QED
      BY <3>1, <3>2, <3>3
  <2> QED
    BY <1>1, <2>1, <2>2
<1>6. ASSUME NEW i \in 1..Len(t.rounds), t.rounds[i].by # 0
      PROVE  \E j \in 1..Len(longer) :
                Whole(longer[j]) /\ longer[j].n = i /\ longer[j].by = t.rounds[i].by
  <2>1. CASE i = m + 1
    <3>1. Whole(longer[n + 1]) /\ n + 1 \in 1..Len(longer)
      BY <1>1, <1>2, <1>6, <2>1 DEF Whole
    <3> QED
      BY <1>1, <1>2, <2>1, <3>1
  <2>2. CASE i \in 1..m
    <3>1. PICK j \in 1..n : Whole(l[j]) /\ l[j].n = i /\ l[j].by = u.rounds[i].by
      BY <1>2, <1>3, <1>6, <2>2
    <3>2. j \in 1..Len(longer) /\ longer[j] = l[j]
      BY <1>1
    <3> QED
      BY <1>2, <2>2, <3>1, <3>2
  <2> QED
    BY <1>2, <2>1, <2>2
<1>7. \A i, j \in 1..Len(longer) :
         Whole(longer[i]) /\ Whole(longer[j]) /\ i < j => longer[i].n < longer[j].n
  <2> SUFFICES ASSUME NEW i \in 1..Len(longer), NEW j \in 1..Len(longer),
                      Whole(longer[i]), Whole(longer[j]), i < j
               PROVE  longer[i].n < longer[j].n
    OBVIOUS
  <2>1. i \in 1..n /\ longer[i] = l[i] /\ l[i].n \in 1..m
    BY <1>1, <1>3
  <2>2. CASE j = n + 1
    BY <1>1, <1>2, <2>1, <2>2
  <2>3. CASE j \in 1..n
    BY <1>1, <1>3, <2>1, <2>3
  <2> QED
    BY <1>1, <2>2, <2>3
<1>8. ASSUME NEW i \in 1..Len(t.rounds), t.rounds[i].cut PROVE QuotedOf(longer, i)
  <2>1. CASE i = m + 1
    <3>1. t.rounds[m + 1].cut = Quotes(e.says)
      BY <1>2 DEF OneMore
    <3> QED
      BY <1>1, <1>2, <1>8, <2>1, <3>1 DEF QuotedOf
  <2>2. CASE i \in 1..m
    <3>1. u.rounds[i].cut
      BY <1>8, <2>2 DEF OneMore, m
    <3>2. QuotedOf(l, i)
      BY <2>2, <3>1 DEF Faithful, m
    <3> QED
      BY <3>2, QuotedStays DEF longer
  <2> QED
    BY <1>2, <2>1, <2>2
<1> QED
  BY <1>4, <1>5, <1>6, <1>7, <1>8 DEF Faithful, longer

(* What the reader took from a log stands in it: the round it is in is the *)
(* last stamped one, with the STOP that follows, and a discussion is       *)
(* complete when there is a synthesis.                                     *)
Stamped(e) == e.kind = "round" /\ e.nonce

LastStamped(l, i) == Stamped(l[i]) /\ \A j \in 1..Len(l) : j > i => ~Stamped(l[j])

Traced(u, l) ==
    /\ u.completed => \E i \in 1..Len(l) : l[i].kind = "final"
    /\ u.rounds # <<>> =>
         /\ u.open \/ u.completed
         /\ \E i \in 1..Len(l) :
              /\ LastStamped(l, i) /\ l[i].n = Len(u.rounds)
              /\ u.stop => \E j \in i..Len(l) : StopIn(l[j])

LEMMA NoRoundStaysTraced ==
    ASSUME NEW u, Sound(u), NEW t, SameRounds(u, t), Sound(t), NEW l \in Seq(Entry),
           Traced(u, l), NEW e \in Entry, ~Stamped(e),
           t.completed => u.completed \/ e.kind = "final",
           u.open \/ u.completed => t.open \/ t.completed,
           t.stop => u.stop \/ StopIn(e)
    PROVE  Traced(t, Append(l, e))
<1> DEFINE longer == Append(l, e)
           n == Len(l)
<1>1. /\ n \in Nat /\ Len(longer) = n + 1 /\ longer[n + 1] = e
      /\ \A i \in 1..n : longer[i] = l[i]
  OBVIOUS
<1>2. Len(t.rounds) = Len(u.rounds) /\ (t.rounds # <<>> => u.rounds # <<>>)
  BY DEF SameRounds, Sound, Readers
<1> HIDE DEF longer
<1>3. t.completed => \E i \in 1..Len(longer) : longer[i].kind = "final"
  <2>1. CASE u.completed
    <3>1. PICK i \in 1..n : l[i].kind = "final"
      BY <2>1 DEF Traced
    <3> QED
      BY <1>1, <3>1
  <2>2. CASE e.kind = "final"
    BY <1>1, <2>2
  <2> QED
    BY <2>1, <2>2
<1>4. ASSUME t.rounds # <<>>
      PROVE  \E i \in 1..Len(longer) :
                /\ LastStamped(longer, i) /\ longer[i].n = Len(t.rounds)
                /\ t.stop => \E j \in i..Len(longer) : StopIn(longer[j])
  <2>1. PICK i \in 1..n :
          /\ LastStamped(l, i) /\ l[i].n = Len(u.rounds)
          /\ u.stop => \E j \in i..n : StopIn(l[j])
    BY <1>2, <1>4 DEF Traced
  <2>2. LastStamped(longer, i)
    BY <1>1, <2>1 DEF LastStamped
  <2>3. ASSUME u.stop PROVE \E j \in i..Len(longer) : StopIn(longer[j])
    <3>1. PICK j \in i..n : StopIn(l[j])
      BY <2>1, <2>3
    <3> QED
      BY <1>1, <3>1
  <2>4. ASSUME StopIn(e) PROVE \E j \in i..Len(longer) : StopIn(longer[j])
    BY <1>1, <2>4
  <2> QED
    BY <1>1, <1>2, <2>1, <2>2, <2>3, <2>4
<1>5. t.rounds # <<>> => t.open \/ t.completed
  BY <1>2 DEF Traced
<1> QED
  BY <1>3, <1>4, <1>5 DEF Traced, longer

LEMMA NextRoundStaysTraced ==
    ASSUME NEW u, Sound(u), ~u.completed, NEW l \in Seq(Entry), NEW e \in Entry,
           Stamped(e), e.n = Len(u.rounds) + 1,
           NEW t, OneMore(u, t, e.n, e.by, e.says), ~t.completed,
           t.stop => e.says = "decided"
    PROVE  Traced(t, Append(l, e))
<1> DEFINE longer == Append(l, e)
           n == Len(l)
<1>1. n \in Nat /\ Len(longer) = n + 1 /\ longer[n + 1] = e
  OBVIOUS
<1> HIDE DEF longer, n
<1>2. LastStamped(longer, n + 1)
  BY <1>1 DEF LastStamped
<1>3. longer[n + 1].n = Len(t.rounds) /\ t.open
  BY <1>1 DEF OneMore
<1>4. t.stop => StopIn(longer[n + 1])
  BY <1>1 DEF StopIn, Stamped
<1> QED
  BY <1>1, <1>2, <1>3, <1>4 DEF Traced, longer

-----------------------------------------------------------------------------
(* The inductive invariant.                                                *)

SoFar == Reading(log, TrustedNonce(log))
Longest == MaxRounds(c.rounds, c.maxRounds)
Brainstorm == c.mode = "brainstorm"

Blocks == [n: Nat, by: Nat, cut: BOOLEAN]

Locals(r) ==
    /\ DOMAIN r = DOMAIN NotStarted
    /\ r.pc \in {"idle", "open", "panel", "moderate", "done"}
    /\ r.stage \in {"round", "final", "summary", "refute", "found", "not_found",
                    "inconclusive"}
    /\ r.round \in Nat /\ r.last \in Nat /\ r.min \in Nat
    /\ r.talk \in Seq(Blocks)
    /\ r.file \in BOOLEAN /\ r.nonce \in BOOLEAN /\ r.expert \in BOOLEAN
    /\ r.tally \in Tally /\ r.called \in Tally /\ r.exit \in Exits

TypesInv ==
    /\ c \in Requests /\ made \in BOOLEAN /\ overlapped \in BOOLEAN
    /\ log \in Seq(Entry)
    /\ DOMAIN run = Runs
    /\ \A p \in Runs : Locals(run[p]) /\ (run[p].pc = "idle" => run[p] = NotStarted)

(* Nobody resumes a session before its first run has opened the log, and   *)
(* only a brainstorm has one.                                              *)
BeginInv ==
    /\ run[1].pc \in {"idle", "open"} =>
         log = <<>> /\ ~made /\ \A p \in Runs : p # 1 => run[p].pc = "idle"
    /\ run[1].pc = "open" =>
         run[1].round = 1 /\ run[1].last = Longest /\ run[1].min = MinRounds(c.rounds)
    /\ ~Brainstorm =>
         /\ log = <<>> /\ ~made /\ run[1].pc # "open"
         /\ \A p \in Runs : ~run[p].file /\ (p # 1 => run[p].pc = "idle")
         /\ run[1].pc = "moderate" =>
              c.mode = "quorum" /\ run[1].stage \in {"summary", "refute"}

(* A header that is whole carries the nonce.                               *)
HeaderInv ==
    log # <<>> /\ log[1].says = "whole" => TrustedNonce(log)

(* What holds of a run at work even while another writes to its log.       *)
TalkInv(p) ==
    LET r == run[p]
    IN  Brainstorm /\ Alive(p) =>
          /\ r.min >= 3
          /\ r.pc = "moderate" => r.talk # <<>> /\ r.stage \in {"round", "final"}
          /\ r.pc # "moderate" => r.stage = "round"
          /\ r.pc = "open" =>
               /\ ~r.file
               /\ r.round > r.last => r.talk # <<>>
               /\ r.talk # <<>> => SoFar.rounds # <<>>
          /\ r.file =>
               /\ log # <<>>
               /\ TrustedNonce(log) =>
                    r.nonce /\ (r.talk # <<>> => SoFar.rounds # <<>>)

TalkIs(u, talk) ==
    /\ Len(talk) = Len(u.rounds)
    /\ \A i \in 1..Len(talk) : talk[i].n = u.rounds[i].n /\ talk[i].by = u.rounds[i].by

CutsAreQuotes(l, talk) == \A i \in 1..Len(talk) : talk[i].cut => QuotedOf(l, i)

Closing(r) ==
    (r.pc = "open" /\ r.round > r.last) \/ (r.pc = "moderate" /\ r.stage = "final")

Reason(p) ==
    LET s == Flush(SoFar)
    IN  \/ s.completed \/ Stopped(s, MinRounds(c.rounds))
        \/ Len(s.rounds) >= Longest
        \/ \E i \in 1..Len(log) : log[i].kind = "aborted" /\ log[i].by = p

(* What holds of the run at work when it has the log to itself.            *)
ContinueInv(p) ==
    LET r == run[p]
    IN  ~overlapped /\ TrustedNonce(log) /\ Brainstorm /\ Alive(p)
          /\ (r.file \/ r.pc = "open") =>
          /\ TalkIs(SoFar, r.talk) /\ CutsAreQuotes(log, r.talk)
          /\ r.pc = "open" =>
               /\ r.round = Len(SoFar.rounds) + 1
               /\ SoFar.completed => r.round > r.last
          /\ r.pc = "panel" => ~SoFar.completed /\ r.round = Len(SoFar.rounds) + 1
          /\ r.pc = "moderate" /\ r.stage = "round" =>
               ~SoFar.completed /\ SoFar.open /\ r.round = Len(SoFar.rounds)
          /\ log[1].says = "whole" =>
               /\ r.min = MinRounds(c.rounds)
               /\ IF Closing(r) THEN Reason(p) ELSE r.last = Longest

LogInv ==
    /\ Sound(SoFar)
    /\ ~overlapped /\ TrustedNonce(log) => Faithful(SoFar, log) /\ Traced(SoFar, log)

AloneInv == ~overlapped => \A p, q \in Runs : Alive(p) /\ Alive(q) => p = q

ExitInv(p) ==
    /\ run[p].exit = "dead panel" => run[p].pc = "done" /\ run[p].talk = <<>>
    /\ p = 1 /\ c.mode = "quorum" /\ run[p].exit = "ok" =>
         run[p].pc = "done" /\ run[p].expert /\ run[p].stage # "found"

DiscussionInv ==
    /\ TypesInv /\ BeginInv /\ HeaderInv /\ LogInv /\ AloneInv
    /\ \A p \in Runs : TalkInv(p) /\ ContinueInv(p) /\ ExitInv(p)

-----------------------------------------------------------------------------
(* The log grows by what a run at work may append.                         *)

May(p, e) ==
    /\ e \in Entry /\ Alive(p) /\ Brainstorm
    /\ e.kind \in {"header", "resumed"} \/ run[p].file
    /\ e.says = "whole" => e.kind = "header" /\ e.nonce
    /\ e.kind = "round" =>
         /\ run[p].pc = "panel" /\ e.n = run[p].round
         /\ e.by # 0 => e.nonce = run[p].nonce
         /\ e.by = 0 /\ ~e.nonce /\ run[p].nonce => e.says = "plain"
    /\ e.kind = "aborted" => e.says # "decided"
    /\ e.kind = "final" => run[p].pc = "moderate" /\ run[p].stage = "final"

LEMMA NothingIsSound ==
    /\ Sound(NoReading)
    /\ \A e \in Entry : ~Whole(e) => Faithful(NoReading, <<e>>) /\ Traced(NoReading, <<e>>)
<1>1. Sound(NoReading)
  BY DEF Sound, Readers, NoReading
<1>2. ASSUME NEW e \in Entry, ~Whole(e)
      PROVE  Faithful(NoReading, <<e>>) /\ Traced(NoReading, <<e>>)
  BY <1>2 DEF Faithful, Traced, NoReading
<1> QED
  BY <1>1, <1>2

LEMMA LogGrows ==
    ASSUME DiscussionInv, NEW p \in Runs, NEW e, May(p, e), log' = Append(log, e),
           UNCHANGED overlapped
    PROVE  /\ log' \in Seq(Entry) /\ log' # <<>> /\ HeaderInv' /\ LogInv'
           /\ SoFar.rounds # <<>> => SoFar'.rounds # <<>>
           /\ log # <<>> => TrustedNonce(log') = TrustedNonce(log) /\ log'[1] = log[1]
           /\ SoFar' = ReadEntry(SoFar, e, TrustedNonce(log'))
           /\ log = <<>> => e.kind \in {"header", "resumed"} /\ SoFar = NoReading
<1>1. e \in Entry /\ log \in Seq(Entry) /\ Sound(SoFar) /\ TalkInv(p) /\ ContinueInv(p)
      /\ HeaderInv /\ Brainstorm /\ Alive(p) /\ Locals(run[p])
  BY DEF May, DiscussionInv, TypesInv, LogInv
<1>2. log' \in Seq(Entry) /\ log' # <<>> /\ Len(log') = Len(log) + 1
  BY <1>1
<1>3. log # <<>> => log'[1] = log[1] /\ TrustedNonce(log') = TrustedNonce(log)
  BY <1>1 DEF TrustedNonce
<1>4. log = <<>> => e.kind \in {"header", "resumed"} /\ SoFar = NoReading
                    /\ log' = <<e>> /\ log'[1] = e
  BY <1>1, ReadingOfNothing DEF TalkInv, May, SoFar
<1>5. SoFar' = ReadEntry(SoFar, e, TrustedNonce(log'))
  <2>1. SoFar' = ReadEntry(Reading(log, TrustedNonce(log')), e, TrustedNonce(log'))
    BY <1>1, ReadingOfAppend DEF SoFar
  <2>2. Reading(log, TrustedNonce(log')) = SoFar
    BY <1>3, <1>4, ReadingOfNothing DEF SoFar
  <2> QED
    BY <2>1, <2>2
<1>6. HeaderInv'
  BY <1>1, <1>3, <1>4 DEF HeaderInv, May, TrustedNonce
<1>7. TrustedNonce(log') \in BOOLEAN
  BY DEF TrustedNonce
<1>8. e.kind = "final" => log # <<>> /\ (TrustedNonce(log') => SoFar.rounds # <<>>)
  BY <1>1, <1>3, <1>4 DEF May, TalkInv
<1>9. Sound(SoFar') /\ (SoFar.rounds # <<>> => SoFar'.rounds # <<>>)
  BY <1>1, <1>5, <1>7, <1>8, ReadEntryKeepsSound
<1>10. ASSUME ~overlapped, TrustedNonce(log')
       PROVE  Faithful(SoFar', log') /\ Traced(SoFar', log')
  <2>1. CASE log = <<>>
    <3>1. SoFar' = NoReading
      BY <1>1, <1>4, <1>5, <1>10, <2>1, UnstampedIsPassedOver
    <3>2. ~Whole(e)
      BY <1>4, <2>1 DEF Whole
    <3> QED
      BY <1>1, <1>4, <2>1, <3>1, <3>2, NothingIsSound
  <2>2. CASE log # <<>>
    <3>1. /\ TrustedNonce(log) /\ SoFar' = ReadEntry(SoFar, e, TRUE)
          /\ Faithful(SoFar, log) /\ Traced(SoFar, log)
      BY <1>3, <1>5, <1>7, <1>10, <2>2 DEF DiscussionInv, LogInv
    <3>2. CASE e.kind = "round" /\ e.nonce
      <4>1. ~SoFar.completed /\ e.n = Len(SoFar.rounds) + 1 /\ e.n \in Nat /\ e.by \in Nat
        BY <1>1, <1>10, <3>1, <3>2 DEF May, ContinueInv, Entry
      <4>2. SoFar' = OpenRound(SoFar, e.n, e.by, e.says)
        BY <1>1, <3>1, <3>2, <4>1, StampedRoundIsRead
      <4>3. /\ OneMore(SoFar, SoFar', e.n, e.by, e.says)
            /\ ~SoFar'.completed /\ (SoFar'.stop => e.says = "decided")
        BY <1>1, <4>1, <4>2, OpenRoundAddsOne
      <4>4. Faithful(SoFar', log')
        BY <1>1, <3>1, <3>2, <4>1, <4>3, NextRoundStaysFaithful
      <4>5. Traced(SoFar', log')
        BY <1>1, <3>1, <3>2, <4>1, <4>3, NextRoundStaysTraced DEF Stamped
      <4> QED
        BY <4>4, <4>5
    <3>3. CASE ~(e.kind = "round" /\ e.nonce)
      <4>1. ~Whole(e)
        BY <1>1, <1>3, <2>2, <3>1, <3>3 DEF May, TalkInv, Whole
      <4>2. e.kind = "round" => ~e.nonce /\ e.says = "plain"
        BY <1>1, <3>1, <3>3, <2>2 DEF May, TalkInv
      <4>3. /\ SameRounds(SoFar, SoFar')
            /\ SoFar'.completed => SoFar.completed \/ e.kind = "final"
            /\ SoFar.open \/ SoFar.completed => SoFar'.open \/ SoFar'.completed
            /\ SoFar'.stop => SoFar.stop \/ StopIn(e)
        <5>1. CASE e.kind \in {"moderator", "aborted"}
          <6>1. /\ SoFar'.rounds = SoFar.rounds /\ SoFar'.completed = SoFar.completed
                /\ SoFar'.open = SoFar.open
                /\ SoFar'.stop /\ (e.kind = "aborted" => e.says # "decided")
                     => SoFar.stop \/ StopIn(e)
            BY <1>1, <3>1, <5>1, TextAddsNoRound
          <6>2. e.kind = "aborted" => e.says # "decided"
            BY DEF May
          <6> QED
            BY <6>1, <6>2 DEF SameRounds
        <5>2. CASE e.kind = "final" /\ e.nonce
          BY <1>1, <3>1, <5>2, StampedSynthesisCompletes
        <5>3. CASE \/ e.kind \in {"header", "resumed"} \/ e.kind = "round"
                   \/ e.kind = "final" /\ ~e.nonce
          <6>1. SoFar' = SoFar
            BY <1>1, <3>1, <4>2, <5>3, UnstampedIsPassedOver
          <6> QED
            BY <6>1 DEF SameRounds
        <5> QED
          BY <1>1, <5>1, <5>2, <5>3 DEF Entry
      <4>4. Faithful(SoFar', log')
        BY <1>1, <3>1, <4>1, <4>3, NoRoundStaysFaithful
      <4>5. Traced(SoFar', log')
        BY <1>1, <1>9, <3>1, <3>3, <4>3, NoRoundStaysTraced DEF Stamped
      <4> QED
        BY <4>4, <4>5
    <3> QED
      BY <3>2, <3>3
  <2> QED
    BY <2>1, <2>2
<1>11. LogInv'
  BY <1>9, <1>10 DEF LogInv
<1> QED
  BY <1>2, <1>3, <1>4, <1>5, <1>6, <1>9, <1>11

LEMMA StepDoes ==
    ASSUME TypesInv, NEW p \in Runs, NEW r, Step(p, r)
    PROVE  DOMAIN run' = Runs /\ run'[p] = r /\ \A q \in Runs : q # p => run'[q] = run[q]
BY DEF TypesInv, Step

(* A step is judged by what it does to its own run and to the log: the     *)
(* other runs keep what they had in hand, or no longer have the log alone. *)
LEMMA StepConcludes ==
    ASSUME DiscussionInv, NEW p \in Runs, NEW r, Step(p, r), Locals(r),
           r.pc # "idle", c' = c, made' \in BOOLEAN, overlapped' \in BOOLEAN,
           ~overlapped' => ~overlapped /\ \A q \in Runs : q # p => ~Alive(q),
           \/ log' = log
           \/ \E e : May(p, e) /\ log' = Append(log, e) /\ UNCHANGED overlapped,
           BeginInv', TalkInv(p)', ContinueInv(p)', ExitInv(p)'
    PROVE  DiscussionInv'
<1>1. DOMAIN run' = Runs /\ run'[p] = r /\ \A q \in Runs : q # p => run'[q] = run[q]
  BY StepDoes DEF DiscussionInv
<1>2. /\ log' \in Seq(Entry) /\ HeaderInv' /\ LogInv'
      /\ SoFar.rounds # <<>> => SoFar'.rounds # <<>>
      /\ log # <<>> => log' # <<>> /\ TrustedNonce(log') = TrustedNonce(log)
  <2>1. CASE log' = log
    <3>1. SoFar' = SoFar
      BY <2>1 DEF SoFar
    <3>2. TrustedNonce(log') = TrustedNonce(log)
      BY <2>1
    <3>3. HeaderInv'
      BY <2>1, <3>2 DEF DiscussionInv, HeaderInv
    <3>4. LogInv'
      BY <2>1, <3>1, <3>2 DEF DiscussionInv, LogInv
    <3> QED
      BY <2>1, <3>1, <3>3, <3>4 DEF DiscussionInv, TypesInv
  <2>2. ASSUME NEW e, May(p, e), log' = Append(log, e), UNCHANGED overlapped
        PROVE  /\ log' \in Seq(Entry) /\ HeaderInv' /\ LogInv'
               /\ SoFar.rounds # <<>> => SoFar'.rounds # <<>>
               /\ log # <<>> => log' # <<>> /\ TrustedNonce(log') = TrustedNonce(log)
    BY <2>2, LogGrows
  <2> QED
    BY <2>1, <2>2
<1>3. TypesInv'
  BY <1>1, <1>2 DEF DiscussionInv, TypesInv
<1>4. AloneInv'
  BY <1>1 DEF AloneInv, Alive
<1>5. ASSUME NEW q \in Runs, q # p PROVE TalkInv(q)' /\ ContinueInv(q)' /\ ExitInv(q)'
  <2>1. run'[q] = run[q] /\ TalkInv(q) /\ ContinueInv(q) /\ ExitInv(q)
    BY <1>1, <1>5 DEF DiscussionInv
  <2>2. TalkInv(q)'
    BY <1>2, <2>1 DEF TalkInv, Alive, Brainstorm
  <2>3. ContinueInv(q)'
    BY <1>5, <2>1 DEF ContinueInv, Alive
  <2>4. ExitInv(q)'
    BY <2>1 DEF ExitInv
  <2> QED
    BY <2>2, <2>3, <2>4
<1>6. \A q \in Runs : TalkInv(q)' /\ ContinueInv(q)' /\ ExitInv(q)'
  BY <1>5
<1> QED
  BY <1>2, <1>3, <1>4, <1>6 DEF DiscussionInv

LEMMA InitEstablishesDiscussionInv == Init => DiscussionInv
<1> SUFFICES ASSUME Init PROVE DiscussionInv
  OBVIOUS
<1>1. /\ c \in Requests /\ made = FALSE /\ log = <<>> /\ overlapped = FALSE
      /\ DOMAIN run = Runs /\ \A p \in Runs : run[p] = NotStarted
  BY DEF Init
<1>2. SoFar = NoReading /\ ~TrustedNonce(log)
  BY <1>1, ReadingOfNothing DEF SoFar, TrustedNonce
<1>3. Locals(NotStarted) /\ NotStarted.pc = "idle" /\ NotStarted.exit = "none"
      /\ ~NotStarted.file
  BY DEF Locals, NotStarted, Tally, NoTally, Exits
<1>4. \A p \in Runs : run[p].pc = "idle" /\ run[p].exit = "none" /\ ~run[p].file /\ ~Alive(p)
  BY <1>1, <1>3 DEF Alive
<1>5. TypesInv
  <2>1. log \in Seq(Entry)
    BY <1>1
  <2> QED
    BY <1>1, <1>3, <2>1 DEF TypesInv
<1>6. 1 \in Runs
  BY BoundsAssumption DEF Runs
<1>7. BeginInv
  BY <1>1, <1>4, <1>6 DEF BeginInv
<1>8. HeaderInv /\ LogInv /\ AloneInv
  BY <1>1, <1>2, <1>4, NothingIsSound DEF HeaderInv, LogInv, AloneInv
<1>9. \A p \in Runs : TalkInv(p) /\ ContinueInv(p) /\ ExitInv(p)
  BY <1>4 DEF TalkInv, ContinueInv, ExitInv
<1> QED
  BY <1>5, <1>7, <1>8, <1>9 DEF DiscussionInv

LEMMA OneIsARun == 1 \in Runs /\ Runs \subseteq Nat
BY BoundsAssumption DEF Runs

LEMMA BoundsAreCounts ==
    ASSUME TypesInv
    PROVE  /\ c.rounds \in Nat /\ c.maxRounds \in Nat
           /\ \A n, m \in Nat : /\ MinRounds(n) \in Nat /\ MinRounds(n) >= 3
                                /\ MaxRounds(n, m) \in Nat /\ MaxRounds(n, m) >= 3
                                /\ MaxRounds(n, m) >= MinRounds(n) /\ MaxRounds(n, m) >= m
<1>1. c \in Request
  BY RequestsAssumption DEF TypesInv
<1>2. c.rounds \in Nat /\ c.maxRounds \in Nat
  BY <1>1 DEF Request
<1> QED
  BY <1>2 DEF MinRounds, MaxRounds, Larger

LEMMA AppendsAreEntries ==
    ASSUME NEW kind \in {"header", "resumed", "round", "aborted", "moderator", "final"},
           NEW n \in Nat, NEW by \in Nat, NEW nonce \in BOOLEAN,
           NEW says \in {"whole", "topic", "plain", "go", "stop", "forged", "echo",
                         "moderated", "decided"}
    PROVE  Entries(kind, n, by, says, nonce) \in Entry
BY DEF Entries, Entry

LEMMA OpeningIsAnEntry ==
    ASSUME NEW p \in Nat, NEW nonce \in BOOLEAN, p = 1 => nonce, run[p].round \in Nat
    PROVE  /\ Opening(p, nonce) \in Entry
           /\ Opening(p, nonce).kind = (IF p = 1 THEN "header" ELSE "resumed")
           /\ Opening(p, nonce).says = (IF p = 1 THEN "whole" ELSE "plain")
           /\ (p = 1 => Opening(p, nonce).nonce)
<1>1. CASE p = 1
  <2>1. Opening(p, nonce) = Entries("header", 0, 1, "whole", TRUE)
    BY <1>1 DEF Opening
  <2>2. Entries("header", 0, 1, "whole", TRUE) \in Entry
    BY AppendsAreEntries
  <2>3. Opening(p, nonce).nonce = TRUE
    BY <2>1 DEF Entries
  <2>4. Opening(p, nonce).kind = "header" /\ Opening(p, nonce).says = "whole"
    BY <2>1 DEF Entries
  <2> QED
    BY <1>1, <2>1, <2>2, <2>3, <2>4
<1>2. CASE p # 1
  <2>1. Opening(p, nonce) = Entries("resumed", run[p].round, p, "plain", FALSE)
    BY <1>2 DEF Opening
  <2>2. Entries("resumed", run[p].round, p, "plain", FALSE) \in Entry
    BY AppendsAreEntries
  <2> QED
    BY <1>2, <2>1, <2>2 DEF Entries
<1> QED
  BY <1>1, <1>2

(* The first invocation begins.                                            *)
LEMMA StartKeepsInv == DiscussionInv /\ Start => DiscussionInv'
<1> SUFFICES ASSUME DiscussionInv, Start PROVE DiscussionInv'
  OBVIOUS
<1>1. /\ 1 \in Runs /\ Locals(run[1]) /\ TypesInv /\ BeginInv /\ run[1].pc = "idle"
      /\ run[1] = NotStarted /\ UNCHANGED <<c, made, log, overlapped>>
  BY OneIsARun DEF DiscussionInv, TypesInv, Start
<1> DEFINE new == [run[1] EXCEPT
                      !.pc = IF c.mode = "brainstorm" THEN "open" ELSE "panel",
                      !.round = 1, !.min = MinRounds(c.rounds),
                      !.last = MaxRounds(c.rounds, c.maxRounds),
                      !.candidates = PickModerators(c.moderator, c.available, c.panel)]
<1>2. Step(1, new)
  BY DEF Start
<1>3. /\ MinRounds(c.rounds) \in Nat /\ MinRounds(c.rounds) >= 3
      /\ Longest \in Nat /\ Longest >= 3
  BY <1>1, BoundsAreCounts DEF Longest
<1>4. /\ Locals(new) /\ new.pc = (IF Brainstorm THEN "open" ELSE "panel")
      /\ new.round = 1 /\ new.min = MinRounds(c.rounds) /\ new.last = Longest
      /\ ~new.file /\ new.talk = <<>> /\ new.exit = "none" /\ new.stage = "round"
  BY <1>1, <1>3 DEF Locals, NotStarted, Brainstorm, Longest
<1> HIDE DEF new
<1>5. /\ DOMAIN run' = Runs /\ run'[1] = new
      /\ \A q \in Runs : q # 1 => run'[q] = run[q] /\ run[q].pc = "idle" /\ ~run[q].file
      /\ log = <<>> /\ ~made
  BY <1>1, <1>2, StepDoes DEF BeginInv, TypesInv, NotStarted
<1>6. BeginInv'
  BY <1>1, <1>4, <1>5 DEF BeginInv, Brainstorm, Longest
<1>7. TalkInv(1)' /\ ContinueInv(1)' /\ ExitInv(1)'
  <2>1. ~TrustedNonce(log')
    BY <1>1, <1>5 DEF TrustedNonce
  <2>2. TalkInv(1)'
    BY <1>3, <1>4, <1>5 DEF TalkInv, Alive, Brainstorm
  <2>3. ContinueInv(1)'
    BY <2>1 DEF ContinueInv
  <2>4. ExitInv(1)'
    BY <1>4, <1>5 DEF ExitInv
  <2> QED
    BY <2>2, <2>3, <2>4
<1>8. ~overlapped' => ~overlapped /\ \A q \in Runs : q # 1 => ~Alive(q)
  BY <1>1, <1>5 DEF Alive
<1>9. new.pc # "idle" /\ made' \in BOOLEAN /\ overlapped' \in BOOLEAN
  BY <1>1, <1>4 DEF TypesInv
<1> QED
  BY <1>1, <1>2, <1>4, <1>6, <1>7, <1>8, <1>9, StepConcludes

(* A step of a run at work keeps the beginning as it was.                  *)
LEMMA BrainstormKeepsBegin ==
    ASSUME DiscussionInv, Brainstorm, NEW p \in Runs, NEW r, Step(p, r), UNCHANGED c,
           run[p].pc # "idle" \/ (p # 1 /\ run[1].pc \notin {"idle", "open"}),
           r.pc \notin {"idle", "open"} \/ p # 1
    PROVE  BeginInv'
<1>1. 1 \in Runs /\ BeginInv /\ run'[p] = r /\ \A q \in Runs : q # p => run'[q] = run[q]
  BY OneIsARun, StepDoes DEF DiscussionInv
<1>2. run'[1].pc \notin {"idle", "open"}
  BY <1>1 DEF BeginInv
<1> QED
  BY <1>2 DEF BeginInv, Brainstorm

(* A reason to end stays one while the log grows by what is passed over.   *)
LEMMA ReasonStays ==
    ASSUME TypesInv, NEW p \in Runs, NEW e \in Entry, log' = Append(log, e),
           SoFar' = SoFar, UNCHANGED c, Reason(p)
    PROVE  Reason(p)'
<1>1. \A i \in 1..Len(log) : i \in 1..Len(log') /\ log'[i] = log[i]
  BY DEF TypesInv
<1> QED
  BY <1>1 DEF Reason, Longest

(* A new log is opened, or an old one for appending.                       *)
LEMMA OpenLogKeepsInv ==
    ASSUME DiscussionInv, NEW p \in Runs, OpenLog(p)
    PROVE  DiscussionInv'
<1> DEFINE nonce == IF p = 1 THEN TRUE ELSE TrustedNonce(log)
           discuss == run[p].round <= run[p].last
           e == Opening(p, nonce)
<1>1. /\ Locals(run[p]) /\ TypesInv /\ BeginInv /\ run[p].pc = "open"
      /\ TalkInv(p) /\ ContinueInv(p) /\ ExitInv(p) /\ p \in Nat /\ Alive(p)
      /\ UNCHANGED <<c, overlapped>>
  BY OneIsARun DEF DiscussionInv, TypesInv, OpenLog, Alive
<1>2. Brainstorm
  BY <1>1, OneIsARun DEF BeginInv
<1>3. PICK file \in BOOLEAN :
        /\ Step(p, [run[p] EXCEPT
                      !.file = file, !.nonce = nonce,
                      !.pc = IF discuss THEN "panel" ELSE "moderate",
                      !.stage = IF discuss THEN "round" ELSE "final"])
        /\ made' = (made \/ file)
        /\ log' = IF file THEN Append(log, e) ELSE log
  BY DEF OpenLog
<1> DEFINE new == [run[p] EXCEPT
                      !.file = file, !.nonce = nonce,
                      !.pc = IF discuss THEN "panel" ELSE "moderate",
                      !.stage = IF discuss THEN "round" ELSE "final"]
<1>4. /\ Locals(new) /\ new.pc = (IF discuss THEN "panel" ELSE "moderate")
      /\ new.stage = (IF discuss THEN "round" ELSE "final")
      /\ new.file = file /\ new.nonce = nonce /\ new.talk = run[p].talk
      /\ new.round = run[p].round /\ new.last = run[p].last /\ new.min = run[p].min
      /\ new.exit = run[p].exit
  BY <1>1 DEF Locals, NotStarted, TrustedNonce
<1>5. /\ e \in Entry /\ e.kind = (IF p = 1 THEN "header" ELSE "resumed")
      /\ e.says = (IF p = 1 THEN "whole" ELSE "plain") /\ (p = 1 => e.nonce)
  <2>1. nonce \in BOOLEAN /\ (p = 1 => nonce) /\ run[p].round \in Nat
    BY <1>1 DEF TrustedNonce, Locals
  <2> QED
    BY <1>1, <2>1, OpeningIsAnEntry
<1>6. May(p, e)
  BY <1>1, <1>2, <1>5 DEF May
<1>7. Step(p, new)
  BY <1>3
<1> HIDE DEF new, e, nonce
<1>8. run'[p] = new /\ \A q \in Runs : q # p => run'[q] = run[q]
  BY <1>1, <1>7, StepDoes
<1>9. BeginInv'
  BY <1>1, <1>2, <1>4, <1>7, BrainstormKeepsBegin
<1>10. ~overlapped' => ~overlapped /\ \A q \in Runs : q # p => ~Alive(q)
  BY <1>1 DEF DiscussionInv, AloneInv
<1>11. ~discuss <=> run[p].round > run[p].last
  BY <1>1 DEF Locals
<1>12. ExitInv(p)'
  BY <1>1, <1>2, <1>4, <1>8 DEF ExitInv, Brainstorm
\* The log cannot be opened: the run goes on without.
<1>13. CASE ~file
  <2>1. TalkInv(p)'
    BY <1>1, <1>4, <1>8, <1>11, <1>13 DEF TalkInv, Alive, Brainstorm
  <2>2. ContinueInv(p)'
    BY <1>1, <1>4, <1>8, <1>13 DEF ContinueInv
  <2> QED
    BY <1>1, <1>3, <1>4, <1>7, <1>9, <1>10, <1>12, <1>13, <2>1, <2>2, StepConcludes DEF TypesInv
\* The first run writes the header of a log with nothing in it; a resumed one says so.
<1>14. CASE file
  <2>1. /\ log' = Append(log, e) /\ log' # <<>>
        /\ SoFar' = ReadEntry(SoFar, e, TrustedNonce(log'))
        /\ SoFar.rounds # <<>> => SoFar'.rounds # <<>>
        /\ log # <<>> => TrustedNonce(log') = TrustedNonce(log) /\ log'[1] = log[1]
        /\ log = <<>> => SoFar = NoReading
    BY <1>1, <1>3, <1>6, <1>14, LogGrows
  <2>2. TrustedNonce(log') => SoFar' = SoFar
    BY <1>5, <2>1, UnstampedIsPassedOver
  <2>3. p # 1 /\ log = <<>> => ~TrustedNonce(log')
    BY <1>3, <1>5, <1>14 DEF TrustedNonce
  <2>4. TrustedNonce(log') => nonce
    BY <2>1, <2>3 DEF nonce
  <2>5. TalkInv(p)'
    BY <1>1, <1>2, <1>4, <1>8, <1>11, <2>1, <2>4 DEF TalkInv, Alive, Brainstorm
  <2>6. ContinueInv(p)'
    <3> SUFFICES ASSUME ~overlapped, TrustedNonce(log'), run'[p].file
                 PROVE  /\ TalkIs(SoFar', run'[p].talk) /\ CutsAreQuotes(log', run'[p].talk)
                        /\ run'[p].pc = "panel" =>
                             ~SoFar'.completed /\ run'[p].round = Len(SoFar'.rounds) + 1
                        /\ log'[1].says = "whole" =>
                             /\ run'[p].min = MinRounds(c.rounds)
                             /\ IF Closing(run'[p]) THEN Reason(p)' ELSE run'[p].last = Longest
      BY <1>1, <1>4, <1>8 DEF ContinueInv, Longest
    <3>1. CASE p = 1
      <4>1. log = <<>> /\ SoFar' = NoReading
        BY <1>1, <2>1, <2>2, <3>1 DEF BeginInv
      <4>2. /\ run[1].round = 1 /\ run[1].last = Longest /\ Longest \in Nat /\ Longest >= 3
            /\ run[1].min = MinRounds(c.rounds)
        BY <1>1, <3>1, BoundsAreCounts DEF BeginInv, Longest
      <4>3. run[p].talk = <<>>
        BY <1>1, <1>2, <2>1, <4>1 DEF TalkInv, NoReading
      <4>4. /\ new.pc = "panel" /\ new.round = 1 /\ new.last = Longest /\ new.talk = <<>>
            /\ new.min = MinRounds(c.rounds)
        BY <1>4, <3>1, <4>2, <4>3
      <4>5. TalkIs(NoReading, <<>>) /\ CutsAreQuotes(log', <<>>)
        BY DEF TalkIs, CutsAreQuotes, NoReading
      <4> QED
        BY <1>8, <4>1, <4>4, <4>5 DEF NoReading, Closing
    <3>2. CASE p # 1
      <4>1. /\ log # <<>> /\ TrustedNonce(log) /\ SoFar' = SoFar /\ log'[1] = log[1]
        BY <2>1, <2>2, <2>3, <3>2
      <4>2. /\ TalkIs(SoFar, run[p].talk) /\ CutsAreQuotes(log, run[p].talk)
            /\ run[p].round = Len(SoFar.rounds) + 1
            /\ SoFar.completed => run[p].round > run[p].last
            /\ log[1].says = "whole" =>
                 /\ run[p].min = MinRounds(c.rounds)
                 /\ IF Closing(run[p]) THEN Reason(p) ELSE run[p].last = Longest
        BY <1>1, <1>2, <4>1 DEF ContinueInv
      <4>3. Closing(run[p]) <=> Closing(new)
        BY <1>1, <1>4, <1>11 DEF Closing
      <4>4. Reason(p) => Reason(p)'
        BY <1>1, <1>5, <2>1, <4>1, ReasonStays
      <4>5. CutsAreQuotes(log', run[p].talk)
        BY <1>1, <2>1, <4>2, QuotedStays DEF CutsAreQuotes, TypesInv
      <4> QED
        BY <1>4, <1>8, <1>11, <4>1, <4>2, <4>3, <4>4, <4>5
    <3> QED
      BY <3>1, <3>2
  <2>7. made' \in BOOLEAN
    BY <1>1, <1>3 DEF TypesInv
  <2> QED
    BY <1>1, <1>4, <1>6, <1>7, <1>9, <1>10, <1>12, <2>1, <2>5, <2>6, <2>7, StepConcludes DEF TypesInv
<1> QED
  BY <1>13, <1>14

(* A run that is over, or that was not let begin, has nothing in hand.     *)
LEMMA EndKeepsInv ==
    ASSUME DiscussionInv, Brainstorm, NEW p \in Runs,
           NEW exit \in {"refused", "killed"}, End(p, exit),
           run[p].pc # "idle" \/ (p # 1 /\ run[1].pc \notin {"idle", "open"}),
           c' = c, made' \in BOOLEAN, overlapped' \in BOOLEAN,
           ~overlapped' => ~overlapped /\ \A q \in Runs : q # p => ~Alive(q),
           \/ log' = log
           \/ \E e : May(p, e) /\ log' = Append(log, e) /\ UNCHANGED overlapped
    PROVE  DiscussionInv'
<1> DEFINE new == [run[p] EXCEPT !.pc = "done", !.exit = exit]
<1>1. Locals(run[p]) /\ TypesInv
  BY DEF DiscussionInv, TypesInv
<1>2. Step(p, new)
  BY DEF End
<1>3. Locals(new) /\ new.pc = "done" /\ new.exit = exit
  BY <1>1 DEF Locals, NotStarted, Exits
<1> HIDE DEF new
<1>4. run'[p] = new
  BY <1>1, <1>2, StepDoes
<1>5. BeginInv'
  BY <1>2, <1>3, BrainstormKeepsBegin
<1>6. TalkInv(p)' /\ ContinueInv(p)' /\ ExitInv(p)'
  BY <1>3, <1>4 DEF TalkInv, ContinueInv, ExitInv, Alive
<1> QED
  BY <1>2, <1>3, <1>5, <1>6, StepConcludes

(* What a resumed run has in hand is what its log reads back to.           *)
LEMMA BlocksAreTheTalk ==
    ASSUME NEW s, Sound(s)
    PROVE  /\ TranscriptBlocks(s) \in Seq(Blocks)
           /\ TalkIs(s, TranscriptBlocks(s))
           /\ \A i \in 1..Len(TranscriptBlocks(s)) :
                TranscriptBlocks(s)[i].cut = s.rounds[i].cut
<1>1. s.rounds \in Seq(RoundsRead)
  BY DEF Sound, Readers
<1>2. DOMAIN s.rounds = 1..Len(s.rounds) /\ Len(s.rounds) \in Nat
  BY <1>1
<1>3. \A i \in 1..Len(s.rounds) : /\ s.rounds[i].n \in Nat /\ s.rounds[i].by \in Nat
                                   /\ s.rounds[i].cut \in BOOLEAN
  <2> SUFFICES ASSUME NEW i \in 1..Len(s.rounds)
               PROVE  /\ s.rounds[i].n \in Nat /\ s.rounds[i].by \in Nat
                      /\ s.rounds[i].cut \in BOOLEAN
    OBVIOUS
  <2>1. s.rounds[i] \in RoundsRead
    BY <1>1
  <2> QED
    BY <2>1 DEF RoundsRead
<1>4. TranscriptBlocks(s) =
        [i \in 1..Len(s.rounds) |->
           [n |-> s.rounds[i].n, by |-> s.rounds[i].by, cut |-> s.rounds[i].cut]]
  BY <1>2 DEF TranscriptBlocks
<1> QED
  BY <1>2, <1>3, <1>4 DEF TalkIs, Blocks

LEMMA ResumeKeepsInv ==
    ASSUME DiscussionInv, NEW p \in Runs, NEW force \in BOOLEAN, Resume(p, force)
    PROVE  DiscussionInv'
<1> DEFINE s == ReadLog(log)
           savedMin == SavedBound(log, MinRounds(c.rounds))
           savedMax == SavedBound(log, MaxRounds(c.rounds, c.maxRounds))
           min == MinRounds(Larger(savedMin, 1))
           max == MaxRounds(Larger(savedMin, 1), Larger(savedMax, 1))
           last == IF SynthesizeOnly(s, savedMin) THEN StartRound(s) - 1 ELSE max
           new == [run[p] EXCEPT
                     !.pc = "open", !.round = StartRound(s), !.min = min,
                     !.last = last, !.talk = TranscriptBlocks(s),
                     !.candidates = PickModerators(SavedModerator, c.available, c.panel)]
<1>1. /\ TypesInv /\ BeginInv /\ Locals(run[p]) /\ run[p] = NotStarted /\ run[p].pc = "idle"
      /\ p # 1 /\ p \in Nat /\ 1 \in Runs /\ Sound(SoFar)
      /\ UNCHANGED <<c, made, log>> /\ made
      /\ overlapped' = (overlapped \/ \E q \in Runs : Alive(q))
  BY OneIsARun DEF DiscussionInv, TypesInv, LogInv, Resume
<1>2. Brainstorm /\ run[1].pc \notin {"idle", "open"}
  BY <1>1 DEF BeginInv
<1>3. ~overlapped' => ~overlapped /\ \A q \in Runs : q # p => ~Alive(q)
  BY <1>1
<1>4. made' \in BOOLEAN /\ overlapped' \in BOOLEAN
  BY <1>1 DEF TypesInv
<1>5. CASE s.completed /\ ~force
  <2>1. End(p, "refused")
    BY <1>5 DEF Resume
  <2> QED
    BY <1>1, <1>2, <1>3, <1>4, <2>1, EndKeepsInv
<1>6. CASE ~(s.completed /\ ~force)
  <2>1. Step(p, new)
    BY <1>6 DEF Resume
  <2>2. s = Flush(SoFar) /\ Sound(s) /\ SameRounds(SoFar, s) /\ s.completed = SoFar.completed
    BY <1>1, FlushEndsTheRound DEF ReadLog, SoFar
  <2>3. /\ savedMin \in Nat /\ savedMax \in Nat
        /\ log # <<>> /\ log[1].says = "whole" =>
             /\ savedMin >= 3 /\ savedMax = Longest /\ savedMin <= Longest
             /\ savedMin = MinRounds(c.rounds)
    <3>1. /\ MinRounds(c.rounds) \in Nat /\ MinRounds(c.rounds) >= 3 /\ Longest \in Nat
          /\ MinRounds(c.rounds) <= Longest
      BY <1>1, BoundsAreCounts DEF Longest
    <3>2. log # <<>> /\ log[1].says = "whole" => TrustedNonce(log)
      BY DEF DiscussionInv, HeaderInv
    <3> QED
      BY <3>1, <3>2 DEF SavedBound, TrustedNonce, Longest
  <2>4. /\ min \in Nat /\ min >= 3 /\ max \in Nat /\ max >= 3
        /\ log # <<>> /\ log[1].says = "whole" => max = Longest /\ min = MinRounds(c.rounds)
    BY <2>3 DEF MinRounds, MaxRounds, Larger
  <2>5. /\ Len(s.rounds) \in Nat /\ Len(SoFar.rounds) = Len(s.rounds)
        /\ StartRound(s) = Len(s.rounds) + 1
        /\ s.rounds # <<>> <=> Len(s.rounds) # 0
        /\ SoFar.rounds # <<>> <=> Len(s.rounds) # 0
    BY <1>1, <2>2 DEF Sound, Readers, SameRounds, StartRound
  <2>6. /\ TranscriptBlocks(s) \in Seq(Blocks) /\ TalkIs(s, TranscriptBlocks(s))
        /\ \A i \in 1..Len(TranscriptBlocks(s)) :
             TranscriptBlocks(s)[i].cut = s.rounds[i].cut
    BY <2>2, BlocksAreTheTalk
  <2> DEFINE blocks == TranscriptBlocks(s)
  <2>7. TalkIs(SoFar, blocks) /\ (blocks # <<>> <=> Len(s.rounds) # 0)
    BY <2>2, <2>5, <2>6 DEF TalkIs, SameRounds
  <2>8. last \in Nat /\ (SynthesizeOnly(s, savedMin) => Len(s.rounds) # 0)
    <3>1. SynthesizeOnly(s, savedMin) => Len(s.rounds) # 0
      BY <2>2, <2>5 DEF SynthesizeOnly, Stopped, Sound
    <3> QED
      BY <2>4, <2>5, <3>1
  <2> HIDE DEF min, max
  <2>9. /\ Locals(new) /\ new.pc = "open" /\ new.round = Len(s.rounds) + 1 /\ new.min = min
        /\ new.last = last /\ new.talk = blocks /\ new.file = FALSE /\ new.exit = "none"
        /\ new.stage = "round"
    <3> HIDE DEF s, last
    <3>1. StartRound(s) \in Nat
      BY <2>5
    <3> QED
      BY <1>1, <2>4, <2>5, <2>6, <2>8, <3>1 DEF Locals, NotStarted
  <2> HIDE DEF new
  <2>10. run'[p] = new
    BY <1>1, <2>1, StepDoes
  <2>11. BeginInv'
    BY <1>1, <1>2, <2>1, <2>9, BrainstormKeepsBegin
  <2>12. new.round > new.last => Len(s.rounds) # 0
    BY <2>4, <2>5, <2>8, <2>9
  <2>13. SoFar' = SoFar
    BY <1>1 DEF SoFar
  <2>14. TalkInv(p)'
    BY <2>4, <2>5, <2>7, <2>9, <2>10, <2>12, <2>13 DEF TalkInv
  <2>15. ContinueInv(p)'
    <3> SUFFICES ASSUME TrustedNonce(log), ~overlapped
                 PROVE  /\ TalkIs(SoFar, new.talk) /\ CutsAreQuotes(log, new.talk)
                        /\ new.round = Len(SoFar.rounds) + 1
                        /\ SoFar.completed => new.round > new.last
                        /\ log[1].says = "whole" =>
                             /\ new.min = MinRounds(c.rounds)
                             /\ IF new.round > new.last THEN Reason(p) ELSE new.last = Longest
      BY <1>1, <2>9, <2>10, <2>13 DEF ContinueInv, Closing, Reason, Longest
    <3>1. SynthesizeOnly(s, savedMin) => new.round > new.last
      BY <2>5, <2>9
    <3>2. SoFar.completed => new.round > new.last
      BY <2>2, <3>1 DEF SynthesizeOnly
    <3>3. ASSUME log[1].says = "whole"
          PROVE  /\ new.min = MinRounds(c.rounds)
                 /\ IF new.round > new.last THEN Reason(p) ELSE new.last = Longest
      <4>1. log # <<>>
        BY DEF TrustedNonce
      <4>2. /\ savedMin >= 3 /\ savedMin \in Nat /\ max = Longest
            /\ savedMin = MinRounds(c.rounds) /\ new.min = MinRounds(c.rounds)
        BY <2>3, <2>4, <2>9, <3>3, <4>1
      <4>3. CASE SynthesizeOnly(s, savedMin)
        <5>1. s.completed \/ Stopped(s, MinRounds(c.rounds))
          BY <4>2, <4>3 DEF SynthesizeOnly
        <5> QED
          BY <2>2, <3>1, <4>2, <4>3, <5>1 DEF Reason
      <4>4. CASE ~SynthesizeOnly(s, savedMin)
        <5>1. new.last = Longest
          BY <2>9, <4>2, <4>4
        <5>2. new.round > new.last => Len(s.rounds) >= Longest
          BY <2>4, <2>5, <2>9, <4>2, <5>1
        <5> QED
          BY <2>2, <4>2, <5>1, <5>2 DEF Reason
      <4> QED
        BY <4>3, <4>4
    <3>4. CutsAreQuotes(log, blocks)
      <4>1. Faithful(SoFar, log)
        BY <1>1, <2>13 DEF DiscussionInv, LogInv
      <4> QED
        BY <2>2, <2>5, <2>6, <2>7, <4>1 DEF CutsAreQuotes, Faithful, SameRounds, TalkIs
    <3> QED
      BY <2>5, <2>7, <2>9, <3>2, <3>3, <3>4
  <2>16. ExitInv(p)'
    BY <1>1, <2>9, <2>10 DEF ExitInv
  <2> QED
    BY <1>1, <1>3, <1>4, <2>1, <2>9, <2>11, <2>14, <2>15, <2>16, StepConcludes
<1> QED
  BY <1>5, <1>6

-----------------------------------------------------------------------------
(* The panel.                                                              *)

LEMMA TicksAreTallies ==
    ASSUME NEW n \in Tally, NEW t \in Turnout
    PROVE  /\ RecountByUsability(TickPanel(n, t), t)
                = [ok |-> n.ok + t.usable, fail |-> n.fail + t.hollow + t.failed]
           /\ RecountByUsability(TickPanel(n, t), t) \in Tally
<1> DEFINE ticked == TickPanel(n, t)
           moved == IF t.hollow < ticked.ok THEN t.hollow ELSE ticked.ok
<1>1. /\ n.ok \in Nat /\ n.fail \in Nat
      /\ t.usable \in Nat /\ t.hollow \in Nat /\ t.failed \in Nat
  BY DEF Tally, Turnout
<1>2. ticked.ok = n.ok + t.usable + t.hollow /\ ticked.fail = n.fail + t.failed
  BY DEF TickPanel
<1>3. moved = t.hollow
  BY <1>1, <1>2
<1>4. RecountByUsability(ticked, t) = [ok |-> ticked.ok - moved, fail |-> ticked.fail + moved]
  BY DEF RecountByUsability
<1>5. /\ ticked.ok - moved = n.ok + t.usable
      /\ ticked.fail + moved = n.fail + t.hollow + t.failed
  BY <1>1, <1>2, <1>3
<1> QED
  BY <1>1, <1>4, <1>5 DEF Tally

LEMMA ModeratorTicksAreTallies ==
    ASSUME NEW n \in Tally, NEW usable PROVE TickModerator(n, usable) \in Tally
BY DEF Tally, TickModerator

LEMMA CountedIsTyped ==
    ASSUME TypesInv, NEW p \in Runs, NEW t \in Turnouts
    PROVE  /\ DOMAIN Counted(p, t) = DOMAIN NotStarted
           /\ Counted(p, t).tally \in Tally /\ Counted(p, t).called \in Tally
           /\ Counted(p, t).pc = run[p].pc /\ Counted(p, t).stage = run[p].stage
           /\ Counted(p, t).round = run[p].round /\ Counted(p, t).last = run[p].last
           /\ Counted(p, t).min = run[p].min /\ Counted(p, t).talk = run[p].talk
           /\ Counted(p, t).file = run[p].file /\ Counted(p, t).nonce = run[p].nonce
           /\ Counted(p, t).expert = run[p].expert /\ Counted(p, t).exit = run[p].exit
           /\ Locals(Counted(p, t))
<1>1. Locals(run[p]) /\ t \in Turnout /\ Locals(run[1])
  BY TurnoutsAssumption, OneIsARun DEF TypesInv
<1>2. TallyOf(p, t) \in Tally /\ CalledBy(p, t) \in Tally
  <2>1. TallyOf(p, t) \in Tally
    BY <1>1, TicksAreTallies DEF TallyOf, Locals
  <2>2. ASSUME p = 1 PROVE CalledBy(p, t) \in Tally
    <3>1. CalledBy(p, t) = [ok |-> run[1].called.ok + t.usable,
                            fail |-> run[1].called.fail + t.hollow + t.failed]
      BY <2>2 DEF CalledBy
    <3>2. run[1].called \in Tally
      BY <1>1 DEF Locals
    <3>3. [ok |-> run[1].called.ok + t.usable,
           fail |-> run[1].called.fail + t.hollow + t.failed] \in Tally
      BY <1>1, <3>2 DEF Tally, Turnout
    <3> QED
      BY <3>1, <3>3
  <2>3. ASSUME p # 1 PROVE CalledBy(p, t) \in Tally
    BY <1>1, <2>3 DEF CalledBy, Locals
  <2> QED
    BY <2>1, <2>2, <2>3
<1> QED
  BY <1>1, <1>2 DEF Counted, Locals, NotStarted

(* The modes that have no log.                                             *)
LEMMA NoLogKeepsInv ==
    ASSUME DiscussionInv, ~Brainstorm, NEW p \in Runs, NEW r, Step(p, r), Locals(r),
           run[p].pc # "idle", UNCHANGED <<c, made, log, overlapped>>, ~r.file,
           \/ r.pc = "done"
           \/ r.pc = "moderate" /\ c.mode = "quorum" /\ r.stage \in {"summary", "refute"},
           r.exit # "dead panel",
           c.mode = "quorum" /\ r.exit = "ok" =>
             r.pc = "done" /\ r.expert /\ r.stage # "found"
    PROVE  DiscussionInv'
<1>1. BeginInv /\ TypesInv /\ 1 \in Runs
  BY OneIsARun DEF DiscussionInv
<1>2. p = 1 /\ log = <<>>
  BY <1>1 DEF BeginInv
<1>3. run'[p] = r /\ \A q \in Runs : q # p => run'[q] = run[q]
  BY <1>1, StepDoes
<1>4. BeginInv'
  BY <1>1, <1>2, <1>3 DEF BeginInv, Brainstorm
<1>5. TalkInv(p)' /\ ContinueInv(p)' /\ ExitInv(p)'
  BY <1>3 DEF TalkInv, ContinueInv, ExitInv, Brainstorm
<1>6. ~overlapped' => ~overlapped /\ \A q \in Runs : q # p => ~Alive(q)
  BY <1>1, <1>2 DEF BeginInv, Alive
<1> QED
  BY <1>1, <1>4, <1>5, <1>6, StepConcludes DEF TypesInv

LEMMA JustAskKeepsInv ==
    ASSUME DiscussionInv, NEW p \in Runs, NEW t \in Turnouts, run[p].pc = "panel",
           JustAsk(p, t), UNCHANGED <<c, made, kills, overlapped>>
    PROVE  DiscussionInv'
<1> DEFINE exit == IF AllUsable(t) THEN "ok" ELSE "failed"
           was == Counted(p, t)
           new == [was EXCEPT !.pc = "done", !.exit = exit]
<1>1. c.mode = "just-ask" /\ Step(p, new) /\ UNCHANGED log /\ TypesInv /\ BeginInv
  BY DEF JustAsk, DiscussionInv
<1>2. Locals(was) /\ was.file = run[p].file
  BY <1>1, CountedIsTyped
<1>3. exit \in {"ok", "failed"}
  OBVIOUS
<1> HIDE DEF exit, was
<1>4. Locals(new) /\ new.pc = "done" /\ new.exit \in {"ok", "failed"} /\ new.file = run[p].file
  BY <1>2, <1>3 DEF Locals, NotStarted, Exits
<1> HIDE DEF new
<1>5. ~Brainstorm /\ ~run[p].file
  BY <1>1 DEF Brainstorm, BeginInv
<1> QED
  BY <1>1, <1>4, <1>5, NoLogKeepsInv

LEMMA AskExpertsKeepsInv ==
    ASSUME DiscussionInv, NEW p \in Runs, NEW t \in Turnouts, run[p].pc = "panel",
           AskExperts(p, t), UNCHANGED <<c, made, kills, overlapped>>
    PROVE  DiscussionInv'
<1> DEFINE all == AllUsable(t)
           was == Counted(p, t)
           new == [was EXCEPT !.pc = "moderate", !.stage = "summary", !.expert = all]
<1>1. /\ c.mode = "quorum" /\ Step(p, new) /\ UNCHANGED log /\ TypesInv /\ BeginInv
      /\ ExitInv(p) /\ 1 \in Runs
  BY OneIsARun DEF AskExperts, DiscussionInv
<1>2. Locals(was) /\ was.file = run[p].file /\ was.exit = run[p].exit
  BY <1>1, CountedIsTyped
<1>3. all \in BOOLEAN
  BY DEF AllUsable
<1> HIDE DEF all, was
<1>4. Locals(new) /\ new.pc = "moderate" /\ new.stage = "summary"
      /\ new.exit = run[p].exit /\ new.file = run[p].file
  BY <1>2, <1>3 DEF Locals, NotStarted
<1> HIDE DEF new
<1>5. ~Brainstorm /\ ~run[p].file /\ p = 1
  BY <1>1 DEF Brainstorm, BeginInv
<1>6. run[p].exit # "dead panel" /\ run[p].exit # "ok"
  BY <1>1, <1>5 DEF ExitInv
<1> QED
  BY <1>1, <1>4, <1>5, <1>6, NoLogKeepsInv

(* What a run at work writes comes after the header of its log.            *)
LEMMA WriteDoes ==
    ASSUME DiscussionInv, NEW p \in Runs, NEW e, Brainstorm, Alive(p), Write(p, e),
           run[p].file => May(p, e), UNCHANGED overlapped
    PROVE  /\ \/ log' = log
              \/ \E x : May(p, x) /\ log' = Append(log, x) /\ UNCHANGED overlapped
           /\ run[p].file =>
                /\ log # <<>> /\ log' = Append(log, e) /\ log' # <<>> /\ e \in Entry
                /\ TrustedNonce(log') = TrustedNonce(log) /\ log'[1] = log[1]
                /\ SoFar' = ReadEntry(SoFar, e, TrustedNonce(log)) /\ Sound(SoFar')
                /\ SoFar.rounds # <<>> => SoFar'.rounds # <<>>
<1>1. CASE ~run[p].file
  BY <1>1 DEF Write
<1>2. CASE run[p].file
  <2>1. log' = Append(log, e) /\ May(p, e)
    BY <1>2 DEF Write
  <2>2. log # <<>>
    BY <1>2 DEF DiscussionInv, TalkInv
  <2> QED
    BY <2>1, <2>2, LogGrows DEF LogInv, May
<1> QED
  BY <1>1, <1>2

LEMMA DeadRoundKeepsInv ==
    ASSUME DiscussionInv, NEW p \in Runs, NEW t \in Turnouts, run[p].pc = "panel",
           DeadRound(p, t), UNCHANGED <<c, made, kills, overlapped>>
    PROVE  DiscussionInv'
<1> DEFINE was == Counted(p, t)
           over == [was EXCEPT !.pc = "done", !.exit = "dead panel"]
           final == [was EXCEPT !.pc = "moderate", !.stage = "final"]
<1>1. /\ Brainstorm /\ TypesInv /\ TalkInv(p) /\ ContinueInv(p) /\ ExitInv(p) /\ BeginInv
      /\ Alive(p) /\ Locals(run[p]) /\ p \in Nat
      /\ Step(p, IF run[p].talk = <<>> THEN over ELSE final)
  BY OneIsARun DEF DeadRound, DiscussionInv, Brainstorm, Alive, TypesInv
<1>2. PICK says \in {"plain", "stop"} : Write(p, Aborted(p, says))
  BY DEF DeadRound
<1> DEFINE e == Aborted(p, says)
<1>3. /\ e \in Entry /\ e.kind = "aborted" /\ e.by = p /\ e.says # "whole"
  <2>1. run[p].round \in Nat
    BY <1>1 DEF Locals
  <2> QED
    BY <1>1, <2>1, AppendsAreEntries DEF Aborted, Entries
<1>11. e.says # "decided"
  BY DEF Aborted, Entries
<1>4. run[p].file => May(p, e)
  BY <1>1, <1>3, <1>11 DEF May
<1> HIDE DEF e
<1>5. /\ \/ log' = log
         \/ \E x : May(p, x) /\ log' = Append(log, x) /\ UNCHANGED overlapped
      /\ run[p].file =>
           /\ log # <<>> /\ log' = Append(log, e) /\ log' # <<>>
           /\ TrustedNonce(log') = TrustedNonce(log) /\ log'[1] = log[1]
           /\ SoFar' = ReadEntry(SoFar, e, TrustedNonce(log)) /\ Sound(SoFar')
           /\ SoFar.rounds # <<>> => SoFar'.rounds # <<>>
  BY <1>1, <1>2, <1>4, WriteDoes DEF e
<1>6. Locals(was) /\ was.talk = run[p].talk /\ was.min = run[p].min /\ was.file = run[p].file
      /\ was.nonce = run[p].nonce /\ was.exit = run[p].exit
  BY <1>1, CountedIsTyped
<1>7. ~overlapped' => ~overlapped /\ \A q \in Runs : q # p => ~Alive(q)
  BY <1>1 DEF DiscussionInv, AloneInv
<1>8. made' \in BOOLEAN /\ overlapped' \in BOOLEAN /\ run[p].pc # "idle"
  BY <1>1 DEF TypesInv
<1> HIDE DEF was
<1>9. CASE run[p].talk = <<>>
  <2>1. Step(p, over)
    BY <1>1, <1>9
  <2>2. Locals(over) /\ over.pc = "done" /\ over.exit = "dead panel" /\ over.talk = <<>>
    BY <1>6, <1>9 DEF Locals, NotStarted, Exits
  <2> HIDE DEF over
  <2>3. run'[p] = over
    BY <1>1, <2>1, StepDoes
  <2>4. BeginInv'
    BY <1>1, <1>8, <2>1, <2>2, BrainstormKeepsBegin
  <2>5. TalkInv(p)' /\ ContinueInv(p)' /\ ExitInv(p)'
    BY <2>2, <2>3 DEF TalkInv, ContinueInv, ExitInv, Alive
  <2> QED
    BY <1>5, <1>7, <1>8, <2>1, <2>2, <2>4, <2>5, StepConcludes
<1>10. CASE run[p].talk # <<>>
  <2>1. Step(p, final)
    BY <1>1, <1>10
  <2>2. /\ Locals(final) /\ final.pc = "moderate" /\ final.stage = "final"
        /\ final.talk = run[p].talk /\ final.min = run[p].min /\ final.file = run[p].file
        /\ final.nonce = run[p].nonce /\ final.exit = run[p].exit
    BY <1>6 DEF Locals, NotStarted
  <2> HIDE DEF final
  <2>3. run'[p] = final
    BY <1>1, <2>1, StepDoes
  <2>4. BeginInv'
    BY <1>1, <1>8, <2>1, <2>2, BrainstormKeepsBegin
  <2>5. TalkInv(p)'
    BY <1>1, <1>5, <1>10, <2>2, <2>3 DEF TalkInv
  <2>6. ContinueInv(p)'
    <3> SUFFICES ASSUME ~overlapped, TrustedNonce(log), run[p].file
                 PROVE  /\ TalkIs(SoFar', final.talk) /\ CutsAreQuotes(log', final.talk)
                        /\ log[1].says = "whole" => final.min = MinRounds(c.rounds)
                        /\ Reason(p)'
      BY <1>5, <2>2, <2>3 DEF ContinueInv, Closing
    <3>1. /\ TalkIs(SoFar, run[p].talk) /\ CutsAreQuotes(log, run[p].talk)
          /\ log[1].says = "whole" => run[p].min = MinRounds(c.rounds)
      BY <1>1 DEF ContinueInv
    <3>2. SoFar'.rounds = SoFar.rounds
      BY <1>3, <1>5, TextAddsNoRound DEF DiscussionInv, LogInv
    <3>3. TalkIs(SoFar', final.talk)
      BY <2>2, <3>1, <3>2 DEF TalkIs
    <3>5. CutsAreQuotes(log', final.talk)
      BY <1>1, <1>5, <2>2, <3>1, QuotedStays DEF CutsAreQuotes, TypesInv
    <3>4. Len(log') \in 1..Len(log') /\ log'[Len(log')] = e
      BY <1>1, <1>3, <1>5 DEF TypesInv
    <3> QED
      BY <1>3, <2>2, <3>1, <3>3, <3>4, <3>5 DEF Reason
  <2>7. ExitInv(p)'
    BY <1>1, <2>2, <2>3 DEF ExitInv, Brainstorm
  <2> QED
    BY <1>1, <1>5, <1>7, <1>8, <2>1, <2>2, <2>4, <2>5, <2>6, <2>7, StepConcludes
<1> QED
  BY <1>9, <1>10

LEMMA LiveRoundKeepsInv ==
    ASSUME DiscussionInv, NEW p \in Runs, NEW t \in Turnouts, run[p].pc = "panel",
           LiveRound(p, t), UNCHANGED <<c, made, kills, overlapped>>
    PROVE  DiscussionInv'
<1> DEFINE was == Counted(p, t)
           text == [n |-> run[p].round, by |-> p, cut |-> FALSE]
           talk == Append(run[p].talk, text)
           new == [was EXCEPT !.pc = "moderate", !.stage = "round", !.talk = talk]
<1>1. /\ Brainstorm /\ TypesInv /\ TalkInv(p) /\ ContinueInv(p) /\ ExitInv(p) /\ BeginInv
      /\ Alive(p) /\ Locals(run[p]) /\ p \in Nat /\ Sound(SoFar)
  BY OneIsARun DEF LiveRound, DiscussionInv, LogInv, Brainstorm, Alive, TypesInv
<1>2. PICK says \in RoundSays : Write(p, RoundText(p, says))
  BY DEF LiveRound
<1> DEFINE e == RoundText(p, says)
<1>3. run[p].round \in Nat /\ run[p].nonce \in BOOLEAN
      /\ run[p].talk \in Seq(Blocks)
  BY <1>1 DEF Locals
<1>4. /\ e \in Entry /\ e.kind = "round" /\ e.by = p /\ e.n = run[p].round
      /\ e.nonce = run[p].nonce /\ e.says # "whole"
  BY <1>1, <1>2, <1>3, AppendsAreEntries DEF RoundText, RoundSays, Entries
<1>5. run[p].file => May(p, e)
  BY <1>1, <1>4 DEF May
<1> HIDE DEF e
<1>6. /\ \/ log' = log
         \/ \E x : May(p, x) /\ log' = Append(log, x) /\ UNCHANGED overlapped
      /\ run[p].file =>
           /\ log # <<>> /\ log' = Append(log, e) /\ log' # <<>>
           /\ TrustedNonce(log') = TrustedNonce(log) /\ log'[1] = log[1]
           /\ SoFar' = ReadEntry(SoFar, e, TrustedNonce(log)) /\ Sound(SoFar')
           /\ SoFar.rounds # <<>> => SoFar'.rounds # <<>>
  BY <1>1, <1>2, <1>5, WriteDoes DEF e
<1>7. /\ Locals(was) /\ was.talk = run[p].talk /\ was.min = run[p].min
      /\ was.file = run[p].file /\ was.nonce = run[p].nonce /\ was.exit = run[p].exit
      /\ was.round = run[p].round /\ was.last = run[p].last
  BY <1>1, CountedIsTyped
<1>8. Step(p, new)
  BY <1>7 DEF LiveRound
<1>9. /\ talk \in Seq(Blocks) /\ Len(talk) = Len(run[p].talk) + 1 /\ talk # <<>>
      /\ \A i \in 1..Len(run[p].talk) : talk[i] = run[p].talk[i]
      /\ talk[Len(talk)].n = run[p].round /\ talk[Len(talk)].by = p
      /\ ~talk[Len(talk)].cut
  <2>1. text \in Blocks /\ text.n = run[p].round /\ text.by = p /\ ~text.cut
    BY <1>1, <1>3 DEF Blocks
  <2>2. run[p].talk \in Seq(Blocks) /\ text \in Blocks
    BY <1>3, <2>1
  <2> HIDE DEF text
  <2>3. /\ talk \in Seq(Blocks) /\ Len(talk) = Len(run[p].talk) + 1 /\ talk # <<>>
        /\ \A i \in 1..Len(run[p].talk) : talk[i] = run[p].talk[i]
        /\ talk[Len(talk)] = text
    BY <2>2
  <2> QED
    BY <2>1, <2>3
<1> HIDE DEF was, talk
<1>10. /\ Locals(new) /\ new.pc = "moderate" /\ new.stage = "round" /\ new.talk = talk
       /\ new.min = run[p].min /\ new.file = run[p].file /\ new.nonce = run[p].nonce
       /\ new.exit = run[p].exit /\ new.round = run[p].round /\ new.last = run[p].last
  BY <1>7, <1>9 DEF Locals, NotStarted
<1> HIDE DEF new
<1>11. run'[p] = new
  BY <1>1, <1>8, StepDoes
<1>12. ~overlapped' => ~overlapped /\ \A q \in Runs : q # p => ~Alive(q)
  BY <1>1 DEF DiscussionInv, AloneInv
<1>13. made' \in BOOLEAN /\ overlapped' \in BOOLEAN /\ run[p].pc # "idle"
  BY <1>1 DEF TypesInv
<1>14. BeginInv'
  BY <1>1, <1>8, <1>10, <1>13, BrainstormKeepsBegin
\* The text is stamped, so it is the next round of a log that is not complete.
<1>15. ASSUME run[p].file, TrustedNonce(log), ~SoFar.completed
       PROVE  /\ OneMore(SoFar, SoFar', run[p].round, p, e.says)
              /\ ~SoFar'.completed
  <2>1. e.nonce
    BY <1>1, <1>4, <1>15 DEF TalkInv
  <2>2. SoFar' = OpenRound(SoFar, run[p].round, p, e.says)
    BY <1>4, <1>6, <1>15, <2>1, StampedRoundIsRead
  <2>3. /\ OneMore(SoFar, OpenRound(SoFar, run[p].round, p, e.says), run[p].round, p,
                   e.says)
        /\ OpenRound(SoFar, run[p].round, p, e.says).completed = SoFar.completed
    BY <1>1, <1>3, OpenRoundAddsOne
  <2> QED
    BY <1>15, <2>2, <2>3
<1>16. TalkInv(p)'
  <2>1. run[p].file /\ TrustedNonce(log) => SoFar'.rounds # <<>>
    BY <1>1, <1>6, <1>15 DEF OneMore, Sound, Readers
  <2> QED
    BY <1>1, <1>6, <1>9, <1>10, <1>11, <2>1 DEF TalkInv
<1>17. ContinueInv(p)'
  <2> SUFFICES ASSUME ~overlapped, TrustedNonce(log), run[p].file
               PROVE  /\ TalkIs(SoFar', new.talk) /\ CutsAreQuotes(log', new.talk)
                      /\ ~SoFar'.completed /\ SoFar'.open
                      /\ new.round = Len(SoFar'.rounds)
                      /\ log[1].says = "whole" =>
                           new.min = MinRounds(c.rounds) /\ new.last = Longest
    BY <1>1, <1>6, <1>10, <1>11 DEF ContinueInv, Closing, Longest
  <2>1. /\ TalkIs(SoFar, run[p].talk) /\ CutsAreQuotes(log, run[p].talk)
        /\ ~SoFar.completed /\ run[p].round = Len(SoFar.rounds) + 1
        /\ log[1].says = "whole" =>
             run[p].min = MinRounds(c.rounds) /\ run[p].last = Longest
    BY <1>1 DEF ContinueInv, Closing
  <2>2. OneMore(SoFar, SoFar', run[p].round, p, e.says) /\ ~SoFar'.completed
    BY <1>15, <2>1
  <2> DEFINE m == Len(SoFar.rounds)
  <2>3. /\ m \in Nat /\ Len(talk) = m + 1 /\ Len(SoFar'.rounds) = m + 1
        /\ talk[m + 1].n = SoFar'.rounds[m + 1].n /\ talk[m + 1].by = SoFar'.rounds[m + 1].by
    BY <1>1, <1>9, <2>1, <2>2 DEF TalkIs, OneMore, Sound, Readers
  <2>4. \A i \in 1..m :
           talk[i].n = SoFar'.rounds[i].n /\ talk[i].by = SoFar'.rounds[i].by
    BY <1>9, <2>1, <2>2 DEF TalkIs, OneMore
  <2>5. TalkIs(SoFar', talk)
    BY <2>3, <2>4 DEF TalkIs
  <2>6. CutsAreQuotes(log', talk)
    <3>1. ASSUME NEW i \in 1..Len(talk), talk[i].cut PROVE QuotedOf(log', i)
      <4>1. i \in 1..Len(run[p].talk) /\ talk[i] = run[p].talk[i]
        BY <1>3, <1>9, <3>1
      <4>2. QuotedOf(log, i)
        BY <2>1, <3>1, <4>1 DEF CutsAreQuotes
      <4> QED
        BY <1>1, <1>6, <4>2, QuotedStays DEF TypesInv
    <3> QED
      BY <3>1 DEF CutsAreQuotes
  <2> QED
    BY <1>10, <2>1, <2>2, <2>3, <2>5, <2>6 DEF OneMore
<1>18. ExitInv(p)'
  BY <1>1, <1>10, <1>11 DEF ExitInv, Brainstorm
<1> QED
  BY <1>1, <1>6, <1>8, <1>10, <1>12, <1>13, <1>14, <1>16, <1>17, <1>18, StepConcludes

LEMMA PanelKeepsInv ==
    ASSUME DiscussionInv, NEW p \in Runs, Panel(p) PROVE DiscussionInv'
<1>1. PICK t \in Turnouts :
        JustAsk(p, t) \/ AskExperts(p, t) \/ DeadRound(p, t) \/ LiveRound(p, t)
  BY DEF Panel
<1>2. run[p].pc = "panel" /\ UNCHANGED <<c, made, kills, overlapped>>
  BY DEF Panel
<1> QED
  BY <1>1, <1>2, JustAskKeepsInv, AskExpertsKeepsInv, DeadRoundKeepsInv, LiveRoundKeepsInv

-----------------------------------------------------------------------------
(* The moderator.                                                          *)

LEMMA WhatModeratorsSay ==
    ASSUME NEW candidates, NEW stage, NEW r \in ModeratorResults(candidates, stage)
    PROVE  /\ r.usable \in BOOLEAN
           /\ stage = "round" => r.says \in {"go", "stop", "forged", "echo"}
<1>1. \/ r.usable = TRUE /\ r.says \in Says(stage, TRUE)
      \/ r.usable = FALSE /\ r.says \in Says(stage, FALSE)
  BY DEF ModeratorResults
<1> QED
  BY <1>1 DEF Says

LEMMA ModeratedIsTyped ==
    ASSUME TypesInv, NEW p \in Runs, NEW r
    PROVE  /\ Locals(Moderated(p, r))
           /\ Moderated(p, r).pc = run[p].pc /\ Moderated(p, r).stage = run[p].stage
           /\ Moderated(p, r).round = run[p].round /\ Moderated(p, r).last = run[p].last
           /\ Moderated(p, r).min = run[p].min /\ Moderated(p, r).talk = run[p].talk
           /\ Moderated(p, r).file = run[p].file /\ Moderated(p, r).nonce = run[p].nonce
           /\ Moderated(p, r).expert = run[p].expert /\ Moderated(p, r).exit = run[p].exit
<1> DEFINE tally == IF p = 1 THEN TickModerator(run[p].tally, r.usable) ELSE run[p].tally
           called == IF p = 1 THEN TickModerator(run[p].called, r.usable) ELSE run[p].called
<1>1. Locals(run[p])
  BY DEF TypesInv
<1>2. tally \in Tally /\ called \in Tally
  BY <1>1, ModeratorTicksAreTallies DEF Locals
<1>3. Moderated(p, r) = [run[p] EXCEPT !.tally = tally, !.called = called]
  BY <1>1 DEF Moderated, Locals, NotStarted
<1> HIDE DEF tally, called
<1> QED
  BY <1>1, <1>2, <1>3 DEF Locals, NotStarted

(* A moderator is asked for a decision or a synthesis by a brainstorm only. *)
LEMMA StagesOfModes ==
    ASSUME DiscussionInv, NEW p \in Runs, run[p].pc = "moderate"
    PROVE  /\ run[p].stage \in {"round", "final"} => Brainstorm
           /\ run[p].stage \in {"summary", "refute"} => ~Brainstorm /\ p = 1 /\ c.mode = "quorum"
<1>1. BeginInv /\ TalkInv(p) /\ Alive(p)
  BY DEF DiscussionInv, Alive
<1> QED
  BY <1>1 DEF BeginInv, TalkInv

LEMMA DecideKeepsInv ==
    ASSUME DiscussionInv, NEW p \in Runs, run[p].pc = "moderate",
           NEW r \in ModeratorResults(run[p].candidates, run[p].stage),
           Decide(p, r), UNCHANGED <<c, made, kills, overlapped>>
    PROVE  DiscussionInv'
<1> DEFINE goesOn == /\ run[p].round < run[p].min \/ ~DecidesStop(r)
                     /\ run[p].round < run[p].last
           e == Entries("moderator", run[p].round, p, r.says, FALSE)
           was == Moderated(p, r)
           new == [was EXCEPT
                     !.candidates = StickTo(r, @),
                     !.pc = IF goesOn THEN "panel" ELSE "moderate",
                     !.stage = IF goesOn THEN "round" ELSE "final",
                     !.round = IF goesOn THEN @ + 1 ELSE @]
<1>1. run[p].stage = "round" /\ Write(p, e) /\ Step(p, new)
  BY DEF Decide
<1>2. /\ Brainstorm /\ TypesInv /\ TalkInv(p) /\ ContinueInv(p) /\ ExitInv(p) /\ BeginInv
      /\ Alive(p) /\ Locals(run[p]) /\ p \in Nat /\ Sound(SoFar)
  BY <1>1, OneIsARun, StagesOfModes DEF DiscussionInv, LogInv, Alive, TypesInv
<1>3. r.says \in {"go", "stop", "forged", "echo"} /\ run[p].round \in Nat
      /\ run[p].last \in Nat /\ run[p].min \in Nat
  BY <1>1, <1>2, WhatModeratorsSay DEF Locals
<1>4. /\ e \in Entry /\ e.kind = "moderator" /\ e.says = r.says /\ e.n = run[p].round
  BY <1>2, <1>3, AppendsAreEntries DEF Entries
<1>5. run[p].file => May(p, e)
  BY <1>2, <1>3, <1>4 DEF May
<1> HIDE DEF e
<1>6. /\ \/ log' = log
         \/ \E x : May(p, x) /\ log' = Append(log, x) /\ UNCHANGED overlapped
      /\ run[p].file =>
           /\ log # <<>> /\ log' = Append(log, e) /\ log' # <<>>
           /\ TrustedNonce(log') = TrustedNonce(log) /\ log'[1] = log[1]
           /\ SoFar' = ReadEntry(SoFar, e, TrustedNonce(log)) /\ Sound(SoFar')
           /\ SoFar.rounds # <<>> => SoFar'.rounds # <<>>
  BY <1>1, <1>2, <1>5, WriteDoes
<1>7. /\ Locals(was) /\ was.talk = run[p].talk /\ was.min = run[p].min
      /\ was.file = run[p].file /\ was.nonce = run[p].nonce /\ was.exit = run[p].exit
      /\ was.round = run[p].round /\ was.last = run[p].last
  BY <1>2, ModeratedIsTyped
<1>8. goesOn \in BOOLEAN
  OBVIOUS
<1> HIDE DEF was, goesOn
<1>9. /\ Locals(new) /\ new.pc = (IF goesOn THEN "panel" ELSE "moderate")
      /\ new.stage = (IF goesOn THEN "round" ELSE "final")
      /\ new.round = (IF goesOn THEN run[p].round + 1 ELSE run[p].round)
      /\ new.talk = run[p].talk
      /\ new.min = run[p].min /\ new.file = run[p].file /\ new.nonce = run[p].nonce
      /\ new.exit = run[p].exit /\ new.last = run[p].last
  BY <1>3, <1>7 DEF Locals, NotStarted
<1> HIDE DEF new
<1>10. run'[p] = new
  BY <1>1, <1>2, StepDoes
<1>11. ~overlapped' => ~overlapped /\ \A q \in Runs : q # p => ~Alive(q)
  BY <1>2 DEF DiscussionInv, AloneInv
<1>12. made' \in BOOLEAN /\ overlapped' \in BOOLEAN /\ run[p].pc # "idle" /\ new.pc # "idle"
  BY <1>2, <1>9 DEF TypesInv
<1>13. BeginInv'
  BY <1>1, <1>2, <1>9, <1>12, BrainstormKeepsBegin
<1>14. TalkInv(p)'
  BY <1>2, <1>6, <1>9, <1>10 DEF TalkInv
<1>15. ContinueInv(p)'
  <2> SUFFICES ASSUME ~overlapped, TrustedNonce(log), run[p].file
               PROVE  /\ TalkIs(SoFar', run[p].talk) /\ CutsAreQuotes(log', run[p].talk)
                      /\ goesOn => ~SoFar'.completed /\ new.round = Len(SoFar'.rounds) + 1
                      /\ log[1].says = "whole" =>
                           /\ new.min = MinRounds(c.rounds)
                           /\ IF goesOn THEN new.last = Longest ELSE Reason(p)'
    BY <1>2, <1>6, <1>9, <1>10 DEF ContinueInv, Closing, Longest
  <2>1. /\ TalkIs(SoFar, run[p].talk) /\ CutsAreQuotes(log, run[p].talk)
        /\ ~SoFar.completed /\ SoFar.open /\ run[p].round = Len(SoFar.rounds)
        /\ log[1].says = "whole" =>
             run[p].min = MinRounds(c.rounds) /\ run[p].last = Longest
    BY <1>1, <1>2 DEF ContinueInv, Closing
  <2>2. /\ SoFar'.rounds = SoFar.rounds /\ SoFar'.completed = SoFar.completed
        /\ SoFar'.open = SoFar.open
        /\ r.says = "stop" /\ SoFar.rounds[Len(SoFar.rounds)].n = e.n => SoFar'.stop
    BY <1>2, <1>4, <1>6, <2>1, TextAddsNoRound
  <2>3. Faithful(SoFar, log)
    BY DEF DiscussionInv, LogInv
  <2>4. Len(SoFar.rounds) \in 1..Len(SoFar.rounds)
    BY <1>2, <2>1 DEF Sound, Readers
  <2>5. SoFar.rounds[Len(SoFar.rounds)].n = e.n
    BY <1>4, <2>1, <2>3, <2>4 DEF Faithful
  <2>6. /\ Sound(Flush(SoFar')) /\ Len(Flush(SoFar').rounds) = run[p].round
        /\ Flush(SoFar').rounds[run[p].round].stop = SoFar'.stop
    <3> DEFINE t == SoFar'
    <3>1. Sound(t) /\ t.open /\ Len(t.rounds) = run[p].round
      BY <1>6, <2>1, <2>2
    <3> HIDE DEF t
    <3>2. /\ Sound(Flush(t)) /\ Len(Flush(t).rounds) = run[p].round
          /\ Flush(t).rounds[run[p].round].stop = t.stop
      BY <3>1, FlushEndsTheRound DEF SameRounds
    <3> QED
      BY <3>2 DEF t
  <2>7. ASSUME ~goesOn, log[1].says = "whole" PROVE Reason(p)'
    <3>1. run[p].min = MinRounds(c.rounds) /\ MinRounds(c.rounds) \in Nat
      <4>1. run[p].min = MinRounds(c.rounds)
        BY <2>1, <2>7
      <4> QED
        BY <1>3, <4>1
    <3>2. CASE run[p].round >= run[p].last
      BY <1>3, <2>1, <2>6, <2>7, <3>2 DEF Reason, Longest
    <3>3. CASE ~(run[p].round >= run[p].last)
      <4>1. r.says = "stop" /\ run[p].round >= MinRounds(c.rounds)
        BY <1>3, <2>7, <3>1, <3>3 DEF goesOn, DecidesStop
      <4>3. MinRounds(c.rounds) >= 3
        BY <1>2, BoundsAreCounts
      <4>2. SoFar'.stop /\ Flush(SoFar').rounds # <<>>
        BY <1>3, <2>2, <2>5, <2>6, <3>1, <4>1, <4>3
      <4>4. Stopped(Flush(SoFar'), MinRounds(c.rounds))
        BY <1>3, <2>6, <3>1, <4>1, <4>2, <4>3 DEF Stopped
      <4> QED
        BY <1>2, <4>4 DEF Reason
    <3> QED
      BY <3>2, <3>3
  <2>8. CutsAreQuotes(log', run[p].talk)
    BY <1>2, <1>6, <2>1, QuotedStays DEF CutsAreQuotes, TypesInv
  <2> QED
    BY <1>9, <2>1, <2>2, <2>7, <2>8 DEF TalkIs
<1>16. ExitInv(p)'
  BY <1>2, <1>9, <1>10 DEF ExitInv, Brainstorm
<1> QED
  BY <1>1, <1>2, <1>6, <1>9, <1>11, <1>12, <1>13, <1>14, <1>15, <1>16, StepConcludes

LEMMA SynthesizeKeepsInv ==
    ASSUME DiscussionInv, NEW p \in Runs, run[p].pc = "moderate", NEW r,
           Synthesize(p, r), UNCHANGED <<c, made, kills, overlapped>>
    PROVE  DiscussionInv'
<1> DEFINE e == Entries("final", 0, p, "plain", run[p].nonce)
           exit == IF r.usable THEN "ok" ELSE "failed"
           was == Moderated(p, r)
           new == [was EXCEPT !.pc = "done", !.exit = exit]
<1>1. run[p].stage = "final" /\ Write(p, e) /\ Step(p, new)
  BY DEF Synthesize
<1>2. /\ Brainstorm /\ TypesInv /\ BeginInv /\ Alive(p) /\ Locals(run[p]) /\ p \in Nat
  BY <1>1, OneIsARun, StagesOfModes DEF DiscussionInv, Alive, TypesInv
<1>3. run[p].nonce \in BOOLEAN
  BY <1>2 DEF Locals
<1>4. e \in Entry /\ e.kind = "final" /\ e.says = "plain"
  BY <1>2, <1>3, AppendsAreEntries DEF Entries
<1>5. run[p].file => May(p, e)
  BY <1>1, <1>2, <1>4 DEF May
<1> HIDE DEF e
<1>6. \/ log' = log
      \/ \E x : May(p, x) /\ log' = Append(log, x) /\ UNCHANGED overlapped
  BY <1>1, <1>2, <1>5, WriteDoes
<1>7. Locals(was)
  BY <1>2, ModeratedIsTyped
<1>8. exit \in {"ok", "failed"}
  OBVIOUS
<1> HIDE DEF was, exit
<1>9. Locals(new) /\ new.pc = "done" /\ new.exit \in {"ok", "failed"}
  BY <1>7, <1>8 DEF Locals, NotStarted, Exits
<1> HIDE DEF new
<1>10. run'[p] = new
  BY <1>1, <1>2, StepDoes
<1>11. ~overlapped' => ~overlapped /\ \A q \in Runs : q # p => ~Alive(q)
  BY <1>2 DEF DiscussionInv, AloneInv
<1>12. made' \in BOOLEAN /\ overlapped' \in BOOLEAN /\ run[p].pc # "idle" /\ new.pc # "idle"
  BY <1>2, <1>9 DEF TypesInv
<1>13. BeginInv'
  BY <1>1, <1>2, <1>9, <1>12, BrainstormKeepsBegin
<1>14. TalkInv(p)' /\ ContinueInv(p)' /\ ExitInv(p)'
  BY <1>2, <1>9, <1>10 DEF TalkInv, ContinueInv, ExitInv, Alive, Brainstorm
<1> QED
  BY <1>1, <1>2, <1>6, <1>9, <1>11, <1>12, <1>13, <1>14, StepConcludes

LEMMA SummarizeKeepsInv ==
    ASSUME DiscussionInv, NEW p \in Runs, run[p].pc = "moderate", NEW r,
           r.usable \in BOOLEAN, Summarize(p, r), UNCHANGED <<c, made, kills, overlapped>>
    PROVE  DiscussionInv'
<1> DEFINE refute == c.adversarial /\ r.usable /\ QuorumVerdictIsClean(r.says)
           ok == QuorumExit(run[p].expert, r.usable, "none")
           exit == IF ok THEN "ok" ELSE "failed"
           was == Moderated(p, r)
           asked == [was EXCEPT !.stage = "refute"]
           over == [was EXCEPT !.pc = "done", !.exit = exit]
<1>1. run[p].stage = "summary" /\ Step(p, IF refute THEN asked ELSE over) /\ UNCHANGED log
  BY DEF Summarize
<1>2. /\ ~Brainstorm /\ c.mode = "quorum" /\ p = 1 /\ TypesInv /\ BeginInv /\ ExitInv(p)
  BY <1>1, StagesOfModes DEF DiscussionInv
<1>3. /\ Locals(was) /\ was.file = run[p].file /\ was.exit = run[p].exit
      /\ was.expert = run[p].expert /\ was.pc = "moderate" /\ was.stage = "summary"
      /\ ~run[p].file
  BY <1>1, <1>2, ModeratedIsTyped DEF BeginInv
<1>4. exit \in {"ok", "failed"} /\ (exit = "ok" => run[p].expert)
  BY DEF QuorumExit
<1> HIDE DEF was, exit, refute
<1>5. CASE refute
  <2>1. Step(p, asked)
    BY <1>1, <1>5
  <2>2. Locals(asked) /\ asked.pc = "moderate" /\ asked.stage = "refute"
        /\ asked.exit = run[p].exit /\ ~asked.file
    BY <1>3 DEF Locals, NotStarted
  <2> HIDE DEF asked
  <2>3. run[p].exit # "dead panel" /\ run[p].exit # "ok"
    BY <1>2 DEF ExitInv
  <2> QED
    BY <1>1, <1>2, <2>1, <2>2, <2>3, NoLogKeepsInv
<1>6. CASE ~refute
  <2>1. Step(p, over)
    BY <1>1, <1>6
  <2>2. Locals(over) /\ over.pc = "done" /\ over.stage = "summary" /\ over.exit = exit
        /\ over.expert = run[p].expert /\ ~over.file
    BY <1>3, <1>4 DEF Locals, NotStarted, Exits
  <2> HIDE DEF over
  <2> QED
    BY <1>1, <1>2, <1>4, <2>1, <2>2, NoLogKeepsInv
<1> QED
  BY <1>5, <1>6

LEMMA RefuteKeepsInv ==
    ASSUME DiscussionInv, NEW p \in Runs, run[p].pc = "moderate", NEW r,
           Refute(p, r), UNCHANGED <<c, made, kills, overlapped>>
    PROVE  DiscussionInv'
<1> DEFINE verdict == RefutationVerdict(r)
           ok == QuorumExit(run[p].expert, TRUE, verdict)
           exit == IF ok THEN "ok" ELSE "failed"
           was == Moderated(p, r)
           new == [was EXCEPT !.pc = "done", !.stage = verdict, !.exit = exit]
<1>1. run[p].stage = "refute" /\ Step(p, new) /\ UNCHANGED log
  BY DEF Refute
<1>2. /\ ~Brainstorm /\ c.mode = "quorum" /\ p = 1 /\ TypesInv /\ BeginInv
  BY <1>1, StagesOfModes DEF DiscussionInv
<1>3. /\ Locals(was) /\ was.file = run[p].file /\ was.expert = run[p].expert /\ ~run[p].file
  BY <1>1, <1>2, ModeratedIsTyped DEF BeginInv
<1>4. /\ exit \in {"ok", "failed"} /\ verdict \in {"found", "not_found", "inconclusive"}
      /\ exit = "ok" => run[p].expert /\ verdict # "found"
  BY DEF QuorumExit, RefutationVerdict
<1> HIDE DEF was, exit, verdict
<1>5. Locals(new) /\ new.pc = "done" /\ new.stage = verdict /\ new.exit = exit
      /\ new.expert = run[p].expert /\ ~new.file
  BY <1>3, <1>4 DEF Locals, NotStarted, Exits
<1> HIDE DEF new
<1> QED
  BY <1>1, <1>2, <1>4, <1>5, NoLogKeepsInv

LEMMA ModerateKeepsInv ==
    ASSUME DiscussionInv, NEW p \in Runs, Moderate(p) PROVE DiscussionInv'
<1>1. PICK r \in ModeratorResults(run[p].candidates, run[p].stage) :
        Decide(p, r) \/ Synthesize(p, r) \/ Summarize(p, r) \/ Refute(p, r)
  BY DEF Moderate
<1>2. run[p].pc = "moderate" /\ UNCHANGED <<c, made, kills, overlapped>>
  BY DEF Moderate
<1>3. r.usable \in BOOLEAN
  BY WhatModeratorsSay
<1> QED
  BY <1>1, <1>2, <1>3, DecideKeepsInv, SynthesizeKeepsInv, SummarizeKeepsInv, RefuteKeepsInv

-----------------------------------------------------------------------------
(* A run that dies leaves its log as it is, or with a part of an append.   *)

LEMMA TornMayBeLeft ==
    ASSUME DiscussionInv, NEW p \in Runs, Brainstorm, Alive(p),
           NEW e \in Due(p), NEW t \in Torn(e)
    PROVE  May(p, t)
<1>1. /\ Locals(run[p]) /\ p \in Nat /\ run[p].round \in Nat /\ run[p].nonce \in BOOLEAN
  BY OneIsARun DEF DiscussionInv, TypesInv, Locals
<1>2. CASE run[p].pc = "open" /\ p = 1
  <2>1. e = Opening(p, TRUE)
    BY <1>2 DEF Due
  <2>2. e \in Entry /\ e.kind = "header"
    BY <1>1, <1>2, <2>1, OpeningIsAnEntry
  <2>3. t \in {[e EXCEPT !.says = "topic", !.nonce = FALSE], [e EXCEPT !.says = "topic"]}
    BY <2>2 DEF Torn
  <2>4. t \in Entry /\ t.kind = "header" /\ t.says = "topic"
    BY <2>2, <2>3 DEF Entry
  <2> QED
    BY <2>4 DEF May
<1>3. CASE run[p].pc = "panel" /\ run[p].file
  <2>1. PICK says \in RoundSays : e = RoundText(p, says)
    BY <1>3 DEF Due
  <2>2. e \in Entry /\ e.kind = "round" /\ e.n = run[p].round /\ e.nonce = run[p].nonce
        /\ e.says # "whole"
    BY <1>1, <2>1, AppendsAreEntries DEF RoundText, RoundSays, Entries
  <2>3. t \in {[e EXCEPT !.by = 0, !.says = "plain", !.nonce = FALSE],
               [e EXCEPT !.by = 0]}
    BY <2>2 DEF Torn
  <2>4. /\ t \in Entry /\ t.kind = "round" /\ t.says # "whole" /\ t.n = e.n /\ t.by = 0
        /\ ~t.nonce /\ run[p].nonce => t.says = "plain"
    <3>1. CASE t = [e EXCEPT !.by = 0, !.says = "plain", !.nonce = FALSE]
      BY <2>2, <3>1 DEF Entry
    <3>2. CASE t = [e EXCEPT !.by = 0]
      BY <2>2, <3>2 DEF Entry
    <3> QED
      BY <2>3, <3>1, <3>2
  <2> QED
    BY <1>3, <2>2, <2>4 DEF May
<1>4. CASE run[p].pc = "moderate" /\ run[p].file /\ run[p].stage = "round"
  <2>1. e = Entries("moderator", run[p].round, p, "go", FALSE)
    BY <1>4 DEF Due
  <2>2. e \in Entry /\ e.kind = "moderator"
    BY <1>1, <2>1, AppendsAreEntries DEF Entries
  <2>3. t = [e EXCEPT !.by = 0, !.says = "go"]
    BY <2>2 DEF Torn
  <2>4. t \in Entry /\ t.kind = "moderator" /\ t.says = "go"
    BY <2>2, <2>3 DEF Entry
  <2> QED
    BY <1>4, <2>4 DEF May
<1>5. CASE run[p].pc = "moderate" /\ run[p].file /\ run[p].stage = "final"
  <2>1. e = Entries("final", 0, p, "plain", run[p].nonce)
    BY <1>5 DEF Due
  <2>2. e \in Entry /\ e.kind = "final" /\ e.says = "plain"
    BY <1>1, <2>1, AppendsAreEntries DEF Entries
  <2>3. t \in {[e EXCEPT !.by = 0, !.nonce = FALSE], [e EXCEPT !.by = 0]}
    BY <2>2 DEF Torn
  <2>4. t \in Entry /\ t.kind = "final" /\ t.says = "plain"
    <3>1. CASE t = [e EXCEPT !.by = 0, !.nonce = FALSE]
      BY <2>2, <3>1 DEF Entry
    <3>2. CASE t = [e EXCEPT !.by = 0]
      BY <2>2, <3>2 DEF Entry
    <3> QED
      BY <2>3, <3>1, <3>2
  <2> QED
    BY <1>5, <2>4 DEF May
<1> QED
  BY <1>2, <1>3, <1>4, <1>5 DEF Due

LEMMA DieKeepsInv ==
    ASSUME DiscussionInv, NEW p \in Runs, Die(p) PROVE DiscussionInv'
<1>1. /\ Brainstorm /\ Alive(p) /\ End(p, "killed") /\ UNCHANGED <<c, overlapped>>
      /\ TypesInv
  BY DEF Die, Brainstorm, DiscussionInv
<1>2. ~overlapped' => ~overlapped /\ \A q \in Runs : q # p => ~Alive(q)
  BY <1>1 DEF DiscussionInv, AloneInv
<1>3. run[p].pc # "idle" /\ overlapped' \in BOOLEAN
  BY <1>1 DEF Alive, TypesInv
<1>4. made' \in BOOLEAN
  BY <1>1 DEF Die, TypesInv
<1>5. \/ log' = log
      \/ \E x : May(p, x) /\ log' = Append(log, x) /\ UNCHANGED overlapped
  <2>1. CASE UNCHANGED log
    BY <2>1
  <2>2. ASSUME NEW e \in Due(p), NEW t \in Torn(e), log' = Append(log, t)
        PROVE  \E x : May(p, x) /\ log' = Append(log, x) /\ UNCHANGED overlapped
    BY <1>1, <2>2, TornMayBeLeft
  <2> QED
    BY <2>1, <2>2 DEF Die
<1> QED
  BY <1>1, <1>2, <1>3, <1>4, <1>5, EndKeepsInv

LEMMA StutterKeepsInv == DiscussionInv /\ UNCHANGED vars => DiscussionInv'
<1> SUFFICES ASSUME DiscussionInv, UNCHANGED vars PROVE DiscussionInv'
  OBVIOUS
<1>1. UNCHANGED <<c, made, log, run, overlapped>>
  BY DEF vars
<1>2. SoFar' = SoFar /\ TrustedNonce(log') = TrustedNonce(log)
  BY <1>1 DEF SoFar
<1>3. TypesInv' /\ BeginInv' /\ HeaderInv' /\ LogInv' /\ AloneInv'
  BY <1>1, <1>2 DEF DiscussionInv, TypesInv, BeginInv, HeaderInv, LogInv, AloneInv, Alive,
                    Brainstorm, Longest
<1>4. ASSUME NEW p \in Runs PROVE TalkInv(p)' /\ ContinueInv(p)' /\ ExitInv(p)'
  <2>1. TalkInv(p) /\ ContinueInv(p) /\ ExitInv(p)
    BY DEF DiscussionInv
  <2> QED
    BY <1>1, <1>2, <2>1 DEF TalkInv, ContinueInv, ExitInv, Alive, Brainstorm, Longest, Reason
<1> QED
  BY <1>3, <1>4 DEF DiscussionInv

LEMMA NextKeepsInv == DiscussionInv /\ [Next]_vars => DiscussionInv'
<1> SUFFICES ASSUME DiscussionInv, [Next]_vars PROVE DiscussionInv'
  OBVIOUS
<1>1. CASE Start
  BY <1>1, StartKeepsInv
<1>2. ASSUME NEW p \in Runs, RunStep(p) \/ Die(p) \/ \E force \in BOOLEAN : Resume(p, force)
      PROVE  DiscussionInv'
  <2>1. CASE OpenLog(p)
    BY <2>1, OpenLogKeepsInv
  <2>2. CASE Panel(p)
    BY <2>2, PanelKeepsInv
  <2>3. CASE Moderate(p)
    BY <2>3, ModerateKeepsInv
  <2>4. CASE Die(p)
    BY <2>4, DieKeepsInv
  <2>5. ASSUME NEW force \in BOOLEAN, Resume(p, force) PROVE DiscussionInv'
    BY <2>5, ResumeKeepsInv
  <2> QED
    BY <1>2, <2>1, <2>2, <2>3, <2>4, <2>5 DEF RunStep
<1>3. CASE UNCHANGED vars
  BY <1>3, StutterKeepsInv
<1> QED
  BY <1>1, <1>2, <1>3 DEF Next

(* Whatever its requests, panels and moderators come to, whoever is killed *)
(* and whoever resumes: the invariant holds of every state.                *)
THEOREM DiscussionStaysConsistent == Spec => []DiscussionInv
<1>1. Init => DiscussionInv
  BY InitEstablishesDiscussionInv
<1>2. DiscussionInv /\ [Next]_vars => DiscussionInv'
  BY NextKeepsInv
<1> QED
  BY <1>1, <1>2, PTL DEF Spec

-----------------------------------------------------------------------------
(* What follows of every state.                                            *)

(* What a run goes by, as the reader has it, stands in the log.            *)
LEMMA ReasonIsInTheLog ==
    ASSUME DiscussionInv, NEW p \in Runs, Reason(p), ~overlapped, TrustedNonce(log)
    PROVE  \/ StoppedInTime
           \/ \E i \in DOMAIN log :
                \/ log[i].kind = "final"
                \/ log[i].kind = "aborted" /\ log[i].by = p
                \/ log[i].kind = "round" /\ log[i].n >= MaxRounds(c.rounds, c.maxRounds)
<1> DEFINE s == Flush(SoFar)
           m == Len(SoFar.rounds)
<1>1. /\ Sound(SoFar) /\ Traced(SoFar, log) /\ TypesInv /\ DOMAIN log = 1..Len(log)
  BY DEF DiscussionInv, LogInv, TypesInv
<1>6. /\ MinRounds(c.rounds) \in Nat /\ MinRounds(c.rounds) >= 3
      /\ Longest \in Nat /\ Longest >= 3
  BY <1>1, BoundsAreCounts DEF Longest
<1>2. /\ m \in Nat /\ Len(s.rounds) = m /\ s.completed = SoFar.completed
      /\ (SoFar.open => s.rounds[m].stop = SoFar.stop)
  BY <1>1, FlushEndsTheRound DEF Sound, Readers, SameRounds
<1> HIDE DEF s, m
<1>3. CASE SoFar.completed
  BY <1>1, <1>3 DEF Traced
<1>4. CASE ~SoFar.completed /\ m >= 3
  <2>1. SoFar.rounds # <<>>
    BY <1>1, <1>4 DEF m, Sound, Readers
  <2>2. PICK i \in 1..Len(log) :
          /\ LastStamped(log, i) /\ log[i].n = m
          /\ SoFar.stop => \E j \in i..Len(log) : StopIn(log[j])
    BY <1>1, <2>1 DEF Traced, m
  <2>3. SoFar.open
    BY <1>1, <1>4, <2>1 DEF Traced
  <2>4. CASE m >= Longest
    <3>1. log[i].kind = "round" /\ i \in DOMAIN log
      BY <1>1, <2>2 DEF LastStamped, Stamped
    <3>2. log[i].n >= MaxRounds(c.rounds, c.maxRounds)
      BY <2>2, <2>4 DEF Longest
    <3> QED
      BY <3>1, <3>2
  <2>5. CASE Stopped(s, MinRounds(c.rounds))
    <3>1. SoFar.stop /\ m >= MinRounds(c.rounds)
      <4>1. s.rounds[m].stop /\ m >= (IF MinRounds(c.rounds) < 1 THEN 1 ELSE MinRounds(c.rounds))
        BY <1>2, <2>5 DEF Stopped
      <4>2. SoFar.stop
        BY <1>2, <2>3, <4>1, Zenon
      <4> QED
        BY <1>2, <1>6, <4>1, <4>2
    <3>2. PICK j \in i..Len(log) : StopIn(log[j])
      BY <2>2, <3>1
    <3>3. /\ log[i].kind = "round" /\ log[i].nonce
          /\ \A k \in DOMAIN log : k > i => ~(log[k].kind = "round" /\ log[k].nonce)
      BY <1>1, <2>2 DEF LastStamped, Stamped
    <3>4. i \in DOMAIN log /\ j \in DOMAIN log /\ j >= i
      BY <1>1
    <3>5. StoppedInTime
      BY <2>2, <3>1, <3>2, <3>3, <3>4 DEF StoppedInTime
    <3> QED
      BY <3>5
  <2>6. CASE \E k \in 1..Len(log) : log[k].kind = "aborted" /\ log[k].by = p
    BY <1>1, <2>6
  <2> QED
    BY <1>2, <1>4, <2>4, <2>5, <2>6 DEF Reason, s
<1>5. CASE ~SoFar.completed /\ ~(m >= 3)
  <2>1. ~Stopped(s, MinRounds(c.rounds)) /\ ~(m >= Longest)
    BY <1>2, <1>5, <1>6 DEF Stopped
  <2> QED
    BY <1>1, <1>2, <1>5, <2>1 DEF Reason, s
<1> QED
  BY <1>3, <1>4, <1>5

LEMMA ReasonsFollow == DiscussionInv => EndsForAReason
<1> SUFFICES ASSUME DiscussionInv PROVE EndsForAReason
  OBVIOUS
<1>1. ASSUME NEW p \in Runs, Alive(p), c.mode = "brainstorm", run[p].stage = "final"
      PROVE  /\ run[p].talk # <<>>
             /\ \/ overlapped \/ ~run[p].file \/ log[1].says # "whole"
                \/ StoppedInTime
                \/ \E i \in DOMAIN log :
                     \/ log[i].kind = "final"
                     \/ log[i].kind = "aborted" /\ log[i].by = p
                     \/ log[i].kind = "round" /\ log[i].n >= MaxRounds(c.rounds, c.maxRounds)
  <2>1. TalkInv(p) /\ ContinueInv(p) /\ HeaderInv /\ Brainstorm
    BY <1>1 DEF DiscussionInv, Brainstorm
  <2>2. run[p].pc = "moderate" /\ run[p].talk # <<>>
    BY <1>1, <2>1 DEF TalkInv
  <2>3. ASSUME ~overlapped, run[p].file, log[1].says = "whole"
        PROVE  Reason(p) /\ TrustedNonce(log)
    <3>1. log # <<>> /\ TrustedNonce(log)
      BY <1>1, <2>1, <2>3 DEF TalkInv, HeaderInv
    <3> QED
      BY <1>1, <2>1, <2>2, <2>3, <3>1 DEF ContinueInv, Closing
  <2> QED
    BY <2>2, <2>3, ReasonIsInTheLog
<1>2. \A p \in Runs : run[p].exit = "dead panel" => run[p].talk = <<>>
  BY DEF DiscussionInv, ExitInv
<1>3. run[1].exit = "ok" /\ c.mode = "quorum" => run[1].expert /\ run[1].stage # "found"
  BY OneIsARun DEF DiscussionInv, ExitInv
<1> QED
  BY <1>1, <1>2, <1>3 DEF EndsForAReason

(* Nobody synthesizes early, out of nothing, or on the word of a panel     *)
(* that came back dead -- the log, not what a resume takes from it, shows  *)
(* the maximum or a STOP at the minimum that was asked for -- and exit 0   *)
(* of quorum stands for a verdict nobody refuted (run_brainstorm,          *)
(* run_quorum), however many runs there are.                               *)
THEOREM DiscussionEndsForAReason == Spec => []EndsForAReason
BY DiscussionStaysConsistent, ReasonsFollow, PTL

LEMMA ContinuationFollows == DiscussionInv => ResumeContinues
<1> DEFINE s == ReadLog(log)
           read == s.rounds
<1> SUFFICES ASSUME DiscussionInv, ~overlapped, TrustedNonce(log)
             PROVE  /\ \A i \in DOMAIN read : read[i].n = i
                    /\ {<<r.n, r.by>> : r \in {read[i] : i \in {j \in DOMAIN read : read[j].by # 0}}}
                         = {<<log[i].n, log[i].by>> : i \in WholeRounds}
                    /\ \A i, j \in WholeRounds : i < j => log[i].n < log[j].n
                    /\ \A p \in Runs : Alive(p) /\ run[p].file =>
                         /\ DOMAIN run[p].talk = DOMAIN read
                         /\ \A i \in DOMAIN read :
                              /\ run[p].talk[i].n = read[i].n /\ run[p].talk[i].by = read[i].by
                              /\ run[p].talk[i].cut # read[i].cut => QuotedIn(i)
  BY DEF ResumeContinues
<1>1. /\ TypesInv /\ Sound(SoFar) /\ Faithful(SoFar, log) /\ log \in Seq(Entry)
  BY DEF DiscussionInv, LogInv, TypesInv
<1>2. s = Flush(SoFar) /\ Sound(s) /\ SameRounds(SoFar, s)
  BY <1>1, FlushEndsTheRound DEF ReadLog, SoFar
<1>3. /\ DOMAIN read = 1..Len(SoFar.rounds) /\ Len(read) = Len(SoFar.rounds)
      /\ DOMAIN log = 1..Len(log)
      /\ \A i \in 1..Len(SoFar.rounds) : /\ read[i].n = i /\ read[i].by = SoFar.rounds[i].by
                                        /\ read[i].cut = SoFar.rounds[i].cut
  BY <1>1, <1>2 DEF Sound, Readers, SameRounds, Faithful
<1>4. WholeRounds = {i \in 1..Len(log) : Whole(log[i])}
  BY <1>3 DEF WholeRounds, Whole
<1> HIDE DEF s
<1>5. ASSUME NEW i \in DOMAIN read, read[i].by # 0
      PROVE  \E j \in WholeRounds : log[j].n = read[i].n /\ log[j].by = read[i].by
  BY <1>1, <1>3, <1>4, <1>5 DEF Faithful
<1>6. ASSUME NEW j \in WholeRounds
      PROVE  \E i \in DOMAIN read :
                read[i].by # 0 /\ log[j].n = read[i].n /\ log[j].by = read[i].by
  <2>1. j \in 1..Len(log) /\ Whole(log[j]) /\ log[j].by # 0
    BY <1>4, <1>6 DEF Whole
  <2>2. log[j].n \in 1..Len(SoFar.rounds) /\ SoFar.rounds[log[j].n].by = log[j].by
    BY <1>1, <2>1 DEF Faithful
  <2> QED
    BY <1>3, <2>1, <2>2
<1>7. {<<r.n, r.by>> : r \in {read[i] : i \in {j \in DOMAIN read : read[j].by # 0}}}
        = {<<log[i].n, log[i].by>> : i \in WholeRounds}
  BY <1>5, <1>6
<1>8. \A i, j \in WholeRounds : i < j => log[i].n < log[j].n
  BY <1>1, <1>4 DEF Faithful
<1>9. ASSUME NEW p \in Runs, Alive(p), run[p].file
      PROVE  /\ DOMAIN run[p].talk = DOMAIN read
             /\ \A i \in DOMAIN read :
                  /\ run[p].talk[i].n = read[i].n /\ run[p].talk[i].by = read[i].by
                  /\ run[p].talk[i].cut # read[i].cut => QuotedIn(i)
  <2>1. Brainstorm /\ ContinueInv(p) /\ Locals(run[p])
    BY <1>9 DEF DiscussionInv, BeginInv, TypesInv
  <2>2. /\ TalkIs(SoFar, run[p].talk) /\ CutsAreQuotes(log, run[p].talk)
        /\ run[p].talk \in Seq(Blocks)
    BY <1>9, <2>1 DEF ContinueInv, Locals
  <2>3. DOMAIN run[p].talk = 1..Len(SoFar.rounds) /\ Len(run[p].talk) = Len(SoFar.rounds)
    <3>1. DOMAIN run[p].talk = 1..Len(run[p].talk)
      BY <2>2
    <3> QED
      BY <2>2, <3>1 DEF TalkIs
  <2>4. ASSUME NEW i \in DOMAIN read, run[p].talk[i].cut # read[i].cut PROVE QuotedIn(i)
    <3>1. run[p].talk[i] \in Blocks /\ read[i].cut = SoFar.rounds[i].cut
      BY <1>3, <2>2, <2>3
    <3>2. SoFar.rounds[i].cut \in BOOLEAN
      <4>1. SoFar.rounds \in Seq(RoundsRead) /\ i \in 1..Len(SoFar.rounds)
        BY <1>1, <1>3 DEF Sound, Readers
      <4>2. SoFar.rounds[i] \in RoundsRead
        BY <4>1
      <4> QED
        BY <4>2 DEF RoundsRead
    <3>3. run[p].talk[i].cut \/ SoFar.rounds[i].cut
      BY <2>4, <3>1, <3>2 DEF Blocks
    <3>4. QuotedOf(log, i)
      BY <1>1, <1>3, <2>2, <2>3, <3>3 DEF CutsAreQuotes, Faithful
    <3> QED
      BY <1>3, <3>4 DEF QuotedOf, QuotedIn
  <2>5. ASSUME NEW i \in DOMAIN read
        PROVE  run[p].talk[i].n = read[i].n /\ run[p].talk[i].by = read[i].by
    BY <1>1, <1>3, <2>2, <2>3 DEF TalkIs, Faithful
  <2> QED
    BY <1>3, <2>3, <2>4, <2>5
<1> QED
  BY <1>3, <1>7, <1>8, <1>9

(* A log reads back to the rounds that were written whole, numbered from 1 *)
(* and each once, and a run at work has in hand what a resume would start  *)
(* from: parse_log against the appends of every run, killed or not.        *)
THEOREM DiscussionResumes == Spec => []ResumeContinues
BY DiscussionStaysConsistent, ContinuationFollows, PTL

-----------------------------------------------------------------------------
(* The tally of the first run.                                             *)

LEMMA PanelTicksAddUp ==
    ASSUME DiscussionInv, TallyAddsUp, NEW p \in Runs, NEW t \in Turnouts
    PROVE  p = 1 => Counted(p, t).tally = Counted(p, t).called
<1> SUFFICES ASSUME p = 1 PROVE Counted(p, t).tally = Counted(p, t).called
  OBVIOUS
<1>1. Locals(run[1]) /\ t \in Turnout
  BY TurnoutsAssumption, OneIsARun DEF DiscussionInv, TypesInv
<1>2. TallyOf(p, t) = CalledBy(p, t)
  <2>1. run[1].tally \in Tally /\ run[1].called = run[1].tally
    BY <1>1 DEF Locals, TallyAddsUp
  <2> QED
    BY <1>1, <2>1, TicksAreTallies DEF TallyOf, CalledBy
<1> QED
  BY <1>1, <1>2 DEF Counted, Locals, NotStarted

LEMMA ModeratorTicksAddUp ==
    ASSUME DiscussionInv, TallyAddsUp, NEW p \in Runs, NEW r
    PROVE  p = 1 => Moderated(p, r).tally = Moderated(p, r).called
<1>1. Locals(run[1])
  BY OneIsARun DEF DiscussionInv, TypesInv
<1> QED
  BY <1>1 DEF Moderated, TallyAddsUp, Locals, NotStarted

(* A step that ticks nothing but what the record u, of its own run, has.   *)
LEMMA TallyFollows ==
    ASSUME DiscussionInv, TallyAddsUp, NEW p \in Runs, NEW r, Step(p, r), NEW u,
           p = 1 => u.tally = u.called, r.tally = u.tally, r.called = u.called
    PROVE  TallyAddsUp'
<1>1. run'[p] = r /\ \A q \in Runs : q # p => run'[q] = run[q]
  BY StepDoes DEF DiscussionInv
<1> QED
  BY <1>1, OneIsARun DEF TallyAddsUp

LEMMA PanelKeepsTally ==
    ASSUME DiscussionInv, TallyAddsUp, NEW p \in Runs, NEW t \in Turnouts,
           JustAsk(p, t) \/ AskExperts(p, t) \/ DeadRound(p, t) \/ LiveRound(p, t)
    PROVE  TallyAddsUp'
<1> DEFINE u == Counted(p, t)
           exit == IF AllUsable(t) THEN "ok" ELSE "failed"
           all == AllUsable(t)
           text == [n |-> run[p].round, by |-> p, cut |-> FALSE]
           asked == [u EXCEPT !.pc = "done", !.exit = exit]
           summed == [u EXCEPT !.pc = "moderate", !.stage = "summary", !.expert = all]
           over == [u EXCEPT !.pc = "done", !.exit = "dead panel"]
           final == [u EXCEPT !.pc = "moderate", !.stage = "final"]
           live == [u EXCEPT !.pc = "moderate", !.stage = "round", !.talk = Append(@, text)]
<1>1. DOMAIN u = DOMAIN NotStarted /\ (p = 1 => u.tally = u.called)
  BY PanelTicksAddUp, CountedIsTyped DEF DiscussionInv
<1>2. Step(p, asked) \/ Step(p, summed) \/ Step(p, over) \/ Step(p, final) \/ Step(p, live)
  BY DEF JustAsk, AskExperts, DeadRound, LiveRound
<1> HIDE DEF u, exit, all, text
<1>3. /\ asked.tally = u.tally /\ asked.called = u.called
      /\ summed.tally = u.tally /\ summed.called = u.called
      /\ over.tally = u.tally /\ over.called = u.called
      /\ final.tally = u.tally /\ final.called = u.called
      /\ live.tally = u.tally /\ live.called = u.called
  BY <1>1 DEF NotStarted
<1> HIDE DEF asked, summed, over, final, live
<1> QED
  BY <1>1, <1>2, <1>3, TallyFollows

LEMMA ModeratorKeepsTally ==
    ASSUME DiscussionInv, TallyAddsUp, NEW p \in Runs, NEW r,
           Decide(p, r) \/ Synthesize(p, r) \/ Summarize(p, r) \/ Refute(p, r)
    PROVE  TallyAddsUp'
<1> DEFINE u == Moderated(p, r)
           Decided(goesOn) ==
             [u EXCEPT !.candidates = StickTo(r, @),
                       !.pc = IF goesOn THEN "panel" ELSE "moderate",
                       !.stage = IF goesOn THEN "round" ELSE "final",
                       !.round = IF goesOn THEN @ + 1 ELSE @]
           Over(exit) == [u EXCEPT !.pc = "done", !.exit = exit]
           asked == [u EXCEPT !.stage = "refute"]
           Refuted(stage, exit) == [u EXCEPT !.pc = "done", !.stage = stage, !.exit = exit]
<1>1. DOMAIN u = DOMAIN NotStarted /\ (p = 1 => u.tally = u.called)
  BY ModeratorTicksAddUp, ModeratedIsTyped DEF DiscussionInv, Locals
<1>2. \/ \E goesOn \in BOOLEAN : Step(p, Decided(goesOn))
      \/ \E exit \in Exits : Step(p, Over(exit))
      \/ Step(p, asked)
      \/ \E exit \in Exits : Step(p, Refuted(RefutationVerdict(r), exit))
  <2>1. CASE Decide(p, r)
    <3> DEFINE goesOn == /\ run[p].round < run[p].min \/ ~DecidesStop(r)
                         /\ run[p].round < run[p].last
    <3>1. Step(p, Decided(goesOn)) /\ goesOn \in BOOLEAN
      BY <2>1 DEF Decide
    <3> QED
      BY <3>1
  <2>2. CASE Synthesize(p, r)
    <3>1. Step(p, Over(IF r.usable THEN "ok" ELSE "failed"))
      BY <2>2 DEF Synthesize
    <3> QED
      BY <3>1 DEF Exits
  <2>3. CASE Summarize(p, r)
    <3>1. \/ Step(p, asked)
          \/ Step(p, Over(IF QuorumExit(run[p].expert, r.usable, "none") THEN "ok" ELSE "failed"))
      BY <2>3 DEF Summarize
    <3> QED
      BY <3>1 DEF Exits
  <2>4. CASE Refute(p, r)
    <3>1. Step(p, Refuted(RefutationVerdict(r),
                          IF QuorumExit(run[p].expert, TRUE, RefutationVerdict(r))
                          THEN "ok" ELSE "failed"))
      BY <2>4 DEF Refute
    <3> QED
      BY <3>1 DEF Exits
  <2> QED
    BY <2>1, <2>2, <2>3, <2>4
<1> HIDE DEF u
<1>3. /\ asked.tally = u.tally /\ asked.called = u.called
      /\ \A g \in BOOLEAN : Decided(g).tally = u.tally /\ Decided(g).called = u.called
      /\ \A exit : Over(exit).tally = u.tally /\ Over(exit).called = u.called
      /\ \A stage, exit : /\ Refuted(stage, exit).tally = u.tally
                          /\ Refuted(stage, exit).called = u.called
  BY <1>1 DEF NotStarted
<1> HIDE DEF asked, Decided, Over, Refuted
<1> QED
  BY <1>1, <1>2, <1>3, TallyFollows

LEMMA OthersKeepTally ==
    ASSUME DiscussionInv, TallyAddsUp, NEW p \in Runs,
           (p = 1 /\ Start) \/ OpenLog(p) \/ \E exit \in Exits : End(p, exit)
    PROVE  TallyAddsUp'
<1> DEFINE u == run[p]
           Opened(file, nonce, discuss) ==
             [u EXCEPT !.file = file, !.nonce = nonce,
                       !.pc = IF discuss THEN "panel" ELSE "moderate",
                       !.stage = IF discuss THEN "round" ELSE "final"]
           Ended(exit) == [u EXCEPT !.pc = "done", !.exit = exit]
           Begun(pc, min, last, candidates) ==
             [u EXCEPT !.pc = pc, !.round = 1, !.min = min, !.last = last,
                       !.candidates = candidates]
<1>1. DOMAIN u = DOMAIN NotStarted /\ (p = 1 => u.tally = u.called)
  BY DEF DiscussionInv, TypesInv, Locals, TallyAddsUp
<1>2. \/ \E file, nonce, discuss \in BOOLEAN : Step(p, Opened(file, nonce, discuss))
      \/ \E exit \in Exits : Step(p, Ended(exit))
      \/ \E pc, min, last, candidates : Step(p, Begun(pc, min, last, candidates))
  <2>1. CASE OpenLog(p)
    <3>1. PICK file \in BOOLEAN :
            Step(p, Opened(file, IF p = 1 THEN TRUE ELSE TrustedNonce(log),
                           run[p].round <= run[p].last))
      BY <2>1 DEF OpenLog
    <3>2. /\ (IF p = 1 THEN TRUE ELSE TrustedNonce(log)) \in BOOLEAN
          /\ (run[p].round <= run[p].last) \in BOOLEAN
      <4>1. run[p].round \in Nat /\ run[p].last \in Nat
        BY DEF DiscussionInv, TypesInv, Locals
      <4>2. (run[p].round <= run[p].last) \in BOOLEAN
        BY <4>1
      <4> QED
        BY <4>2 DEF TrustedNonce
    <3> HIDE DEF Opened
    <3> QED
      BY <3>1, <3>2
  <2>2. CASE p = 1 /\ Start
    <3>1. Step(p, Begun(IF c.mode = "brainstorm" THEN "open" ELSE "panel",
                        MinRounds(c.rounds), MaxRounds(c.rounds, c.maxRounds),
                        PickModerators(c.moderator, c.available, c.panel)))
      BY <2>2 DEF Start
    <3> HIDE DEF Begun
    <3> QED
      BY <3>1
  <2>3. CASE \E exit \in Exits : End(p, exit)
    BY <2>3 DEF End
  <2> QED
    BY <2>1, <2>2, <2>3
<1> HIDE DEF u
<1>3. /\ \A file, nonce, discuss \in BOOLEAN :
           /\ Opened(file, nonce, discuss).tally = u.tally
           /\ Opened(file, nonce, discuss).called = u.called
      /\ \A exit : Ended(exit).tally = u.tally /\ Ended(exit).called = u.called
      /\ \A pc, min, last, candidates :
           /\ Begun(pc, min, last, candidates).tally = u.tally
           /\ Begun(pc, min, last, candidates).called = u.called
  BY <1>1 DEF NotStarted
<1> HIDE DEF Opened, Ended, Begun
<1> QED
  BY <1>1, <1>2, <1>3, TallyFollows

LEMMA NextKeepsTally == DiscussionInv /\ TallyAddsUp /\ [Next]_vars => TallyAddsUp'
<1> SUFFICES ASSUME DiscussionInv, TallyAddsUp, [Next]_vars PROVE TallyAddsUp'
  OBVIOUS
<1>1. CASE Start
  BY <1>1, OneIsARun, OthersKeepTally
<1>2. ASSUME NEW p \in Runs, OpenLog(p) PROVE TallyAddsUp'
  BY <1>2, OthersKeepTally
<1>3. ASSUME NEW p \in Runs, Panel(p) PROVE TallyAddsUp'
  BY <1>3, PanelKeepsTally DEF Panel
<1>4. ASSUME NEW p \in Runs, Moderate(p) PROVE TallyAddsUp'
  BY <1>4, ModeratorKeepsTally DEF Moderate
<1>5. ASSUME NEW p \in Runs, Die(p) PROVE TallyAddsUp'
  BY <1>5, OthersKeepTally DEF Die, Exits
<1>6. ASSUME NEW p \in Runs, NEW force \in BOOLEAN, Resume(p, force) PROVE TallyAddsUp'
  <2>1. p # 1
    BY <1>6, OneIsARun DEF Resume
  <2>2. PICK r : Step(p, r)
    BY <1>6 DEF Resume, End
  <2>3. run'[1] = run[1]
    BY <2>1, <2>2, OneIsARun, StepDoes DEF DiscussionInv
  <2> QED
    BY <2>3 DEF TallyAddsUp
<1>7. CASE UNCHANGED vars
  BY <1>7 DEF vars, TallyAddsUp
<1> QED
  BY <1>1, <1>2, <1>3, <1>4, <1>5, <1>6, <1>7 DEF Next, RunStep

(* The statistics of a run count each seat and each chain of moderators    *)
(* once, by whether its answer is usable (panel.py, the recount of hollow  *)
(* answers), whatever the panels come to.                                  *)
THEOREM DiscussionTallyAddsUp == Spec => []TallyAddsUp
<1>1. Init => TallyAddsUp
  BY OneIsARun DEF Init, TallyAddsUp, NotStarted
<1>2. DiscussionInv /\ TallyAddsUp /\ [Next]_vars => TallyAddsUp'
  BY NextKeepsTally
<1> QED
  BY <1>1, <1>2, DiscussionStaysConsistent, PTL DEF Spec
===============================================================================
