-------------------------- MODULE DashboardProofs --------------------------
(* What is proved about the dashboard's server, for any logs, any number of    *)
(* requests, streams and refreshes, any gaps and any failing parses: nothing   *)
(* that is kept under the mark the logs have now is stale, each page is        *)
(* answered for the gap it asked for, and what it is shown of a call is how    *)
(* the call ended.                                                             *)
(*                                                                             *)
(* A mark says how many logs there are and when the newest was written. The    *)
(* argument goes through the sets of logs a mark may have been taken of: as    *)
(* long as such a set is still there with the same newest line, none of its    *)
(* logs has grown, so what was read of it holds, and any other log that was    *)
(* read is later than the mark.                                                *)
(*                                                                             *)
(* For what a page is shown, a second invariant says that nobody has read more *)
(* of a log than was written. Grouping, attaching the transcripts and sorting  *)
(* are then followed with one lemma each: they keep runs in which every call   *)
(* is counted once.                                                            *)
EXTENDS Dashboard, FiniteSetTheorems, WellFoundedInduction, TLAPS

(* Types.                                                                  *)
Ops == {"runs", "stats", "force", "watch", "warm"}
Loading == {"look", "parse", "store"}
Places == Loading \cup {"off", "ask", "read", "derive", "memo", "refresh", "sign", "enter", "wait",
                        "woken", "told", "poll", "tell"}
Asked == [op : Ops, gap : Gaps]
Marks == (Nat \X Nat) \cup (Nat \X Nat \X Nat)
Seens == [Files -> Int]
Covers == [gap : Nat, seen : Seens]
ThreadStates ==
    [pc : Places, asks : Seq(Asked), gap : Nat,
     ret : {"off", "install", "direct", "replace", "publish"}, next : SUBSET Files,
     stamp : Nat \X Nat, read : Nat, seen : Seens, mark : Marks \cup {<<>>}, tries : Nat,
     got : Covers, gen : Int, last : Seens]
RowStates == [stamp : Nat \X Nat, read : Nat]
FlightStates == [has : BOOLEAN, sig : Marks \cup {<<>>}, cover : Covers, busy : BOOLEAN]
CacheStates ==
    [has : BOOLEAN, lineage : Nat, mark : Marks \cup {<<>>}, cover : Covers, gen : Nat,
     derived : [gen : Nat, cover : Covers], refreshing : BOOLEAN, due : BOOLEAN, missed : BOOLEAN]
PageStates ==
    [op : Ops \cup {"none"}, gap : Nat, shown : Covers, told : Seens, base : Seens,
     mark : Marks \cup {<<>>}, late : BOOLEAN]

WorldInv ==
    /\ work \in Works
    /\ outside \in [now : Nat, gone : SUBSET Files, failed : Nat]
    /\ logs \in [Files -> Seq(0..outside.now)]

(* The logs.                                                               *)
\* The logs that are there, and the last line among some of them.
HereIn(ls, gone) == {f \in Files : ls[f] # <<>> /\ f \notin gone}
NewestIn(ls, fs) == IF fs = {} THEN 0 ELSE Max({Last(ls[f]) : f \in fs})

\* fs are logs that the mark describes still: as many, and none later.
Unmoved(ls, gone, fs, mark) ==
    /\ fs \subseteq HereIn(ls, gone)
    /\ Cardinality(fs) = mark[1] /\ NewestIn(ls, fs) = mark[2]
Later(ls, f, mark) == ls[f] # <<>> /\ Last(ls[f]) > mark[2]
Marked(mark, now) == mark \in Marks /\ mark[2] <= now

\* What was read since the mark: of the logs it describes, all of each that is not
\* still to be read; and of any other, only what is later than the mark.
Faithful(ls, gone, next, seen, mark) ==
    \A fs \in SUBSET Files : Unmoved(ls, gone, fs, mark) =>
        /\ \A f \in fs : f \in next \/ seen[f] = Len(ls[f])
        /\ \A f \in Files \ fs : (f \in next \/ seen[f] # Absent) => Later(ls, f, mark)

\* The mark left no log out.
Signed(ls, gone, mark) ==
    \A fs \in SUBSET Files : Unmoved(ls, gone, fs, mark) =>
        \A f \in HereIn(ls, gone) \ fs : Later(ls, f, mark)

\* A row says no less than its stamp, and no more than the log.
RowOK(ls, gone, row, f) ==
    f \notin gone => row.stamp[2] <= row.read /\ row.read <= Len(ls[f])

\* A thread that reads: what it has listed, the stamp it took, what it has read, and
\* the mark it goes by.
ListOK(ls, th) ==
    /\ th.pc \in Loading => \A f \in th.next : ls[f] # <<>>
    /\ th.pc \in {"parse", "store"} => th.next # {}
StampOK(ls, gone, th) ==
    th.pc \in {"parse", "store"} /\ First(th.next) \notin gone =>
        /\ th.stamp[2] <= Len(ls[First(th.next)])
        /\ th.pc = "store" => th.stamp[2] <= th.read /\ th.read <= Len(ls[First(th.next)])
ReadOK(ls, gone, now, th) ==
    th.pc \in Loading /\ th.ret \in {"publish", "replace"} =>
        /\ Marked(th.mark, now) /\ Faithful(ls, gone, th.next, th.seen, th.mark)
        /\ th.pc = "store" =>
            \A fs \in SUBSET Files : Unmoved(ls, gone, fs, th.mark) /\ First(th.next) \in fs =>
                th.read = Len(ls[First(th.next)])
SignOK(ls, gone, now, th) ==
    th.pc \in {"enter", "wait", "woken"} => Marked(th.mark, now) /\ Signed(ls, gone, th.mark)
KeptOK(ls, gone, now, seen, mark) ==
    Marked(mark, now) /\ Faithful(ls, gone, {}, seen, mark)

ThreadOK(ls, gone, now, th) ==
    /\ ListOK(ls, th) /\ StampOK(ls, gone, th)
    /\ ReadOK(ls, gone, now, th) /\ SignOK(ls, gone, now, th)

(* The requests.                                                           *)
\* Shares: a thread with the parse that is shared, from asking for it to being told of it.
AskOf(th) == Head(th.asks)
Shares(th) ==
    \/ th.pc \in {"enter", "wait", "woken", "told"}
    \/ th.pc \in Loading /\ th.ret = "publish"
Streaming(th) == th.pc \in {"poll", "tell", "sign"} \/ Shares(th)

\* A request has what it was asked for, and reads or holds sessions of that gap.
RequestOK(th) ==
    /\ th.pc # "ask" => th.asks # <<>>
    /\ th.pc \in Loading => th.ret \in {"install", "direct", "publish"} /\ th.gap = AskOf(th).gap
    /\ th.pc \in {"poll", "tell", "sign"} => AskOf(th).op = "watch"
    /\ Shares(th) => AskOf(th).op \in {"watch", "warm"}
    /\ th.pc \in {"derive", "memo", "told"} => th.got.gap = AskOf(th).gap
    /\ th.pc \in {"derive", "memo"} => th.gen # 0
    /\ th.pc \notin {"off", "refresh"}
RefresherOK(th) ==
    /\ th.pc \in Loading \cup {"off", "refresh"}
    /\ th.pc \in Loading => th.ret = "replace"

\* The page's answer is of the gap it asked for; a stream goes on with the same one.
PageOK(th, pg) ==
    /\ pg.shown.gap = pg.gap
    /\ Streaming(th) /\ AskOf(th).op = "watch" => pg.gap = AskOf(th).gap

\* The sessions are of the gap they are kept for, and the totals theirs.
CacheOK(c) ==
    /\ c.has => c.cover.gap = c.lineage /\ c.gen # 0
    /\ c.derived.gen # 0 => c.derived.gen = c.gen /\ c.derived.cover = c.cover

\* Whoever holds the generation that is kept holds the sessions that are kept.
GenOK(c, th) == th.pc \in {"derive", "memo"} /\ th.gen = c.gen => th.got = c.cover

FlightOK(ls, gone, now, fl, gap) ==
    fl.has => fl.cover.gap = gap /\ KeptOK(ls, gone, now, fl.cover.seen, fl.sig)
StoredOK(ls, gone, now, c) ==
    /\ CacheOK(c)
    /\ c.has /\ c.mark # <<>> /\ ~c.missed => KeptOK(ls, gone, now, c.cover.seen, c.mark)

(* The invariant.                                                          *)
RowsInv ==
    /\ rows \in [Files -> RowStates]
    /\ \A f \in Files : RowOK(logs, outside.gone, rows[f], f)
FlightInv ==
    /\ flight \in [Gaps -> FlightStates]
    /\ \A gap \in Gaps : FlightOK(logs, outside.gone, outside.now, flight[gap], gap)
StoreInv == cache \in CacheStates /\ StoredOK(logs, outside.gone, outside.now, cache)
ReadersInv ==
    /\ threads \in [Threads \cup Refreshers -> ThreadStates]
    /\ \A t \in Threads \cup Refreshers : ThreadOK(logs, outside.gone, outside.now, threads[t])
RequestsInv ==
    /\ page \in [Threads -> PageStates]
    /\ \A t \in Threads :
        RequestOK(threads[t]) /\ PageOK(threads[t], page[t]) /\ GenOK(cache, threads[t])
RefreshersInv == \A b \in Refreshers : RefresherOK(threads[b])

DashInv ==
    /\ WorldInv /\ RowsInv /\ FlightInv /\ StoreInv
    /\ ReadersInv /\ RequestsInv /\ RefreshersInv

-----------------------------------------------------------------------------
(* Numbers and sets of logs.                                               *)

LEMMA LeastOf ==
    ASSUME NEW T \in SUBSET Nat, T # {}
    PROVE  \E i \in T : \A j \in T : i <= j
<1>1. PICK i \in T : \A j \in T : ~ (<<j, i>> \in OpToRel(<, Nat))
  BY NatLessThanWellFounded, WFMin, Zenon
<1>2. \A j \in T : ~ (j < i)
  BY <1>1 DEF OpToRel
<1> QED
  BY <1>2

\* The first of some logs is one of them.
LEMMA FirstIsOne ==
    ASSUME NEW fs \in SUBSET Files, fs # {}
    PROVE  First(fs) \in fs /\ First(fs) \in Files
<1>1. Files \subseteq Nat
  BY DashboardAssumption, FS_CardinalityType
<1>2. \E f \in fs : \A g \in fs : f <= g
  BY <1>1, LeastOf
<1> QED
  BY <1>2 DEF First

\* Times are bounded, so among some of them one is the latest.
LEMMA LatestOf ==
    ASSUME NEW n \in Nat, NEW T \in SUBSET (0..n), T # {}
    PROVE  Max(T) \in T /\ \A x \in T : x <= Max(T)
<1> DEFINE U == {k \in 0..n : n - k \in T}
<1>1. U # {} /\ U \in SUBSET Nat
  <2>1. PICK x \in T : TRUE
    OBVIOUS
  <2>2. n - x \in 0..n /\ n - (n - x) = x
    BY <2>1
  <2>3. n - x \in U
    BY <2>1, <2>2, Zenon
  <2>4. U \subseteq 0..n
    BY Zenon
  <2> HIDE DEF U
  <2> QED
    BY <2>3, <2>4
<1>2. PICK k \in U : \A j \in U : k <= j
  BY <1>1, LeastOf
<1>3. n - k \in T
  BY <1>2
<1>4. \A x \in T : n - k >= x
  <2> TAKE x \in T
  <2>1. n - x \in 0..n /\ n - (n - x) = x /\ x \in Nat
    OBVIOUS
  <2>2. n - x \in U
    BY <2>1, Zenon
  <2>3. k <= n - x
    BY <1>2, <2>2
  <2>4. k \in 0..n
    BY <1>2
  <2> QED
    BY <2>1, <2>3, <2>4
<1>5. \E m \in T : \A x \in T : m >= x
  BY <1>3, <1>4
<1>6. Max(T) \in T /\ \A x \in T : Max(T) >= x
  BY <1>5 DEF Max
<1> QED
  BY <1>6

LEMMA NewestIsALog ==
    ASSUME NEW now \in Nat, NEW ls \in [Files -> Seq(0..now)],
           NEW fs \in SUBSET Files, \A f \in fs : ls[f] # <<>>
    PROVE  /\ NewestIn(ls, fs) \in 0..now
           /\ \A f \in fs : Last(ls[f]) <= NewestIn(ls, fs)
<1>1. CASE fs = {}
  BY <1>1 DEF NewestIn
<1>2. CASE fs # {}
  <2> DEFINE T == {Last(ls[f]) : f \in fs}
  <2>1. \A f \in fs : Last(ls[f]) \in 0..now
    BY DEF Last
  <2>2. T \in SUBSET (0..now) /\ T # {}
    BY <1>2, <2>1
  <2>3. Max(T) \in T /\ \A x \in T : x <= Max(T)
    BY <2>2, LatestOf
  <2>4. NewestIn(ls, fs) = Max(T)
    BY <1>2 DEF NewestIn
  <2> HIDE DEF T
  <2>5. NewestIn(ls, fs) \in 0..now
    BY <2>2, <2>3, <2>4
  <2>6. ASSUME NEW f \in fs PROVE Last(ls[f]) <= NewestIn(ls, fs)
    <3>1. Last(ls[f]) \in T
      BY DEF T
    <3> QED
      BY <3>1, <2>3, <2>4
  <2> QED
    BY <2>5, <2>6
<1> QED
  BY <1>1, <1>2

LEMMA HereIsPresent == Present = HereIn(logs, outside.gone)
BY DEF Present, HereIn, Gone

LEMMA NewestHere == Newest(Present) = NewestIn(logs, Present)
BY DEF Newest, NewestIn

LEMMA FilesAreFinite ==
    ASSUME NEW fs \in SUBSET Files
    PROVE  IsFiniteSet(fs) /\ Cardinality(fs) \in Nat
BY DashboardAssumption, FS_Subset, FS_CardinalityType

\* A generation that nobody holds is always left.
LEMMA GenerationIsNew ==
    ASSUME threads \in [Threads \cup Refreshers -> ThreadStates], cache.gen \in Nat
    PROVE  /\ NextGeneration \in Nat /\ NextGeneration # 0
           /\ NextGeneration # cache.gen
           /\ \A t \in Threads : threads[t].gen # NextGeneration
<1> DEFINE k == Cardinality(Threads)
           G == {threads[t].gen : t \in Threads}
           Free == (1..(k + 2)) \ (G \cup {cache.gen})
           h == [t \in Threads |-> threads[t].gen]
<1>0. k \in Nat
  BY DashboardAssumption, FS_CardinalityType
<1>1. h \in Surjection(Threads, G)
  BY DEF Surjection
<1>2. IsFiniteSet(G) /\ Cardinality(G) <= k
  BY <1>1, DashboardAssumption, FS_Surjection
<1>3. IsFiniteSet(G \cup {cache.gen}) /\ Cardinality(G \cup {cache.gen}) <= k + 1
  <2> HIDE DEF G, k
  <2>1. Cardinality(G) \in Nat
    BY <1>2, FS_CardinalityType
  <2>2. /\ IsFiniteSet(G \cup {cache.gen})
        /\ Cardinality(G \cup {cache.gen}) = IF cache.gen \in G THEN Cardinality(G) ELSE Cardinality(G) + 1
    BY <1>2, FS_AddElement
  <2> QED
    BY <1>0, <1>2, <2>1, <2>2
<1>4. Free # {}
  <2> SUFFICES ASSUME 1..(k + 2) \subseteq G \cup {cache.gen} PROVE FALSE
    OBVIOUS
  <2> HIDE DEF G, k
  <2>1. Cardinality(1..(k + 2)) = k + 2
    BY <1>0, FS_Interval
  <2>2. Cardinality(1..(k + 2)) <= Cardinality(G \cup {cache.gen})
    BY <1>3, FS_Subset
  <2>3. Cardinality(G \cup {cache.gen}) \in Nat
    BY <1>3, FS_CardinalityType
  <2> QED
    BY <1>0, <1>3, <2>1, <2>2, <2>3
<1>5. NextGeneration \in Free
  <2> HIDE DEF G, k
  <2>1. Free \in SUBSET Nat
    BY <1>0
  <2>2. \E i \in Free : \A j \in Free : i <= j
    BY <1>4, <2>1, LeastOf
  <2> HIDE DEF Free
  <2>3. Min(Free) \in Free
    BY <2>2 DEF Min
  <2> QED
    BY <2>3 DEF NextGeneration, Free, G, k
<1> QED
  BY <1>0, <1>5

-----------------------------------------------------------------------------
(* What a mark says of the logs, as they grow, go away, and are read.      *)

\* A log gets a line, later than all before.
Grown(ls, ms, g, now) ==
    /\ now \in Nat /\ ls \in [Files -> Seq(0..now)] /\ g \in Files
    /\ ms = [ls EXCEPT ![g] = Append(ls[g], now + 1)]

\* The logs that a mark still describes have not grown.
LEMMA GrowthShows ==
    ASSUME NEW now, NEW ls, NEW ms, NEW gone, NEW g, Grown(ls, ms, g, now),
           NEW mark, Marked(mark, now), NEW fs \in SUBSET Files, Unmoved(ms, gone, fs, mark)
    PROVE  g \notin fs /\ Unmoved(ls, gone, fs, mark)
<1>0. /\ now \in Nat /\ ls \in [Files -> Seq(0..now)] /\ g \in Files
      /\ ms = [ls EXCEPT ![g] = Append(ls[g], now + 1)]
  BY DEF Grown
<1>1. ms \in [Files -> Seq(0..(now + 1))]
  <2>1. \A f \in Files : ls[f] \in Seq(0..(now + 1))
    BY <1>0
  <2> QED
    BY <1>0, <2>1
<1>2. \A f \in fs : ms[f] # <<>>
  BY DEF Unmoved, HereIn
<1>3. \A f \in fs : Last(ms[f]) <= mark[2]
  <2>1. now + 1 \in Nat
    BY <1>0
  <2>2. \A f \in fs : Last(ms[f]) <= NewestIn(ms, fs)
    BY <1>1, <1>2, <2>1, NewestIsALog
  <2> QED
    BY <2>2 DEF Unmoved
<1>4. ms[g] = Append(ls[g], now + 1) /\ Last(ms[g]) = now + 1
  BY <1>0 DEF Last
<1>5. g \notin fs
  BY <1>0, <1>3, <1>4 DEF Marked, Marks
<1>6. \A f \in fs : ms[f] = ls[f]
  BY <1>0, <1>5
<1>7. NewestIn(ms, fs) = NewestIn(ls, fs)
  <2>1. {Last(ms[f]) : f \in fs} = {Last(ls[f]) : f \in fs}
    BY <1>6
  <2> QED
    BY <2>1 DEF NewestIn
<1>8. fs \subseteq HereIn(ls, gone)
  BY <1>6 DEF Unmoved, HereIn
<1> QED
  BY <1>5, <1>7, <1>8 DEF Unmoved

LEMMA NewLineIsLater ==
    ASSUME NEW now, NEW ls, NEW ms, NEW g, Grown(ls, ms, g, now),
           NEW mark, Marked(mark, now)
    PROVE  /\ Later(ms, g, mark)
           /\ \A f \in Files : f # g => ms[f] = ls[f]
           /\ \A f \in Files : Later(ls, f, mark) => Later(ms, f, mark)
<1>0. /\ now \in Nat /\ ls \in [Files -> Seq(0..now)] /\ g \in Files
      /\ ms = [ls EXCEPT ![g] = Append(ls[g], now + 1)]
  BY DEF Grown
<1>1. ms[g] = Append(ls[g], now + 1) /\ Last(ms[g]) = now + 1 /\ ms[g] # <<>>
  BY <1>0 DEF Last
<1>2. Later(ms, g, mark)
  BY <1>0, <1>1 DEF Later, Marked, Marks
<1>3. \A f \in Files : f # g => ms[f] = ls[f]
  BY <1>0
<1> QED
  BY <1>2, <1>3 DEF Later

LEMMA FaithfulGrows ==
    ASSUME NEW now, NEW ls, NEW ms, NEW gone, NEW g, Grown(ls, ms, g, now),
           NEW mark, Marked(mark, now)
    PROVE  /\ \A next, seen : Faithful(ls, gone, next, seen, mark) => Faithful(ms, gone, next, seen, mark)
           /\ Signed(ls, gone, mark) => Signed(ms, gone, mark)
           /\ Marked(mark, now + 1)
<1>1. ASSUME NEW next, NEW seen, Faithful(ls, gone, next, seen, mark)
      PROVE  Faithful(ms, gone, next, seen, mark)
  <2> SUFFICES ASSUME NEW fs \in SUBSET Files, Unmoved(ms, gone, fs, mark)
               PROVE  /\ \A f \in fs : f \in next \/ seen[f] = Len(ms[f])
                      /\ \A f \in Files \ fs :
                            (f \in next \/ seen[f] # Absent) => Later(ms, f, mark)
    BY DEF Faithful
  <2>1. g \notin fs /\ Unmoved(ls, gone, fs, mark)
    BY GrowthShows
  <2>2. /\ \A f \in fs : f \in next \/ seen[f] = Len(ls[f])
        /\ \A f \in Files \ fs : (f \in next \/ seen[f] # Absent) => Later(ls, f, mark)
    BY <1>1, <2>1 DEF Faithful
  <2> QED
    BY <2>1, <2>2, NewLineIsLater
<1>2. ASSUME Signed(ls, gone, mark) PROVE Signed(ms, gone, mark)
  <2> SUFFICES ASSUME NEW fs \in SUBSET Files, Unmoved(ms, gone, fs, mark),
                      NEW f \in HereIn(ms, gone) \ fs
               PROVE  Later(ms, f, mark)
    BY DEF Signed
  <2>1. Unmoved(ls, gone, fs, mark)
    BY GrowthShows
  <2>2. CASE f = g
    BY <2>2, NewLineIsLater
  <2>3. CASE f # g
    <3>1. f \in HereIn(ls, gone) /\ f \in Files
      BY <2>3, NewLineIsLater DEF HereIn
    <3> QED
      BY <1>2, <2>1, <3>1, NewLineIsLater DEF Signed
  <2> QED
    BY <2>2, <2>3
<1>3. Marked(mark, now + 1)
  BY DEF Marked, Marks, Grown
<1> QED
  BY <1>1, <1>2, <1>3

LEMMA FaithfulShrinks ==
    ASSUME NEW ls, NEW gone, NEW more, gone \subseteq more, NEW mark
    PROVE  /\ \A next, seen : Faithful(ls, gone, next, seen, mark) => Faithful(ls, more, next, seen, mark)
           /\ Signed(ls, gone, mark) => Signed(ls, more, mark)
<1>1. HereIn(ls, more) \subseteq HereIn(ls, gone)
  BY DEF HereIn
<1>2. \A fs : Unmoved(ls, more, fs, mark) => Unmoved(ls, gone, fs, mark)
  BY <1>1 DEF Unmoved
<1> QED
  BY <1>1, <1>2 DEF Faithful, Signed

\* A mark just taken describes the logs that are there and no fewer of them.
LEMMA MarkIsOfAll ==
    ASSUME NEW ls, NEW gone, NEW mark, mark[1] = Cardinality(HereIn(ls, gone)),
           NEW fs \in SUBSET Files, Unmoved(ls, gone, fs, mark)
    PROVE  fs = HereIn(ls, gone)
<1>1. IsFiniteSet(HereIn(ls, gone))
  BY FilesAreFinite DEF HereIn
<1> QED
  BY <1>1, FS_Subset DEF Unmoved

LEMMA SignedNow ==
    ASSUME NEW ls, NEW gone, NEW mark, mark[1] = Cardinality(HereIn(ls, gone))
    PROVE  Signed(ls, gone, mark)
BY MarkIsOfAll DEF Signed

LEMMA FaithfulAtFirst ==
    ASSUME NEW ls, NEW gone, NEW mark, Signed(ls, gone, mark)
    PROVE  Faithful(ls, gone, HereIn(ls, gone), Nothing, mark)
<1>1. \A f \in Files : Nothing[f] = Absent
  BY DEF Nothing
<1> QED
  BY <1>1 DEF Faithful, Signed, Unmoved

LEMMA FaithfulReads ==
    ASSUME NEW ls, NEW gone, NEW mark, NEW next, NEW seen \in Seens, NEW f \in Files, f \in next,
           NEW n, Faithful(ls, gone, next, seen, mark),
           \A fs \in SUBSET Files : Unmoved(ls, gone, fs, mark) /\ f \in fs => n = Len(ls[f])
    PROVE  Faithful(ls, gone, next \ {f}, [seen EXCEPT ![f] = n], mark)
<1> SUFFICES ASSUME NEW fs \in SUBSET Files, Unmoved(ls, gone, fs, mark), NEW g \in Files
             PROVE  /\ g \in fs => g \in next \ {f} \/ [seen EXCEPT ![f] = n][g] = Len(ls[g])
                    /\ g \notin fs /\ (g \in next \ {f} \/ [seen EXCEPT ![f] = n][g] # Absent)
                            => Later(ls, g, mark)
  BY DEF Faithful
<1>1. [seen EXCEPT ![f] = n][g] = IF g = f THEN n ELSE seen[g]
  BY DEF Seens
<1>2. /\ g \in fs => g \in next \/ seen[g] = Len(ls[g])
      /\ g \notin fs /\ (g \in next \/ seen[g] # Absent) => Later(ls, g, mark)
  BY DEF Faithful
<1> QED
  BY <1>1, <1>2

LEMMA FaithfulNow ==
    ASSUME NEW ls, NEW gone, NEW mark, NEW seen, mark[1] = Cardinality(HereIn(ls, gone)),
           \A f \in Files : seen[f] = IF f \in HereIn(ls, gone) THEN Len(ls[f]) ELSE Absent
    PROVE  Faithful(ls, gone, {}, seen, mark)
BY MarkIsOfAll DEF Faithful, HereIn

\* What was kept faithfully says what the logs say, once the mark is that of the logs.
LEMMA FaithfulSays ==
    ASSUME NEW cover, NEW mark, mark[1] = Cardinality(Present), mark[2] = Newest(Present),
           Faithful(logs, outside.gone, {}, cover.seen, mark)
    PROVE  SaysWhatLogsSay(cover, mark)
<1>1. Present = HereIn(logs, outside.gone) /\ Present \in SUBSET Files
  BY HereIsPresent DEF HereIn
<1>2. Unmoved(logs, outside.gone, Present, mark)
  BY <1>1, NewestHere DEF Unmoved
<1>3. \A f \in Present : cover.seen[f] = Len(logs[f])
  BY <1>1, <1>2 DEF Faithful
<1>4. \A f \in Files \ Present : cover.seen[f] # Absent => Later(logs, f, mark)
  BY <1>1, <1>2 DEF Faithful
<1>5. \A f \in Files : Current[f] = IF f \in Present THEN Len(logs[f]) ELSE Absent
  BY DEF Current
<1>6. \A f \in Files \ Present : logs[f] # <<>> => Gone(f)
  BY DEF Present
<1> QED
  BY <1>3, <1>4, <1>5, <1>6 DEF SaysWhatLogsSay, CameAndWent, Later

-----------------------------------------------------------------------------
(* Steps that leave the logs alone.                                        *)

Quiet ==
    /\ work' = work /\ logs' = logs
    /\ outside' \in [now : Nat, gone : SUBSET Files, failed : Nat]
    /\ outside'.gone = outside.gone /\ outside'.now = outside.now

LEMMA QuietWorld == ASSUME WorldInv, Quiet PROVE WorldInv'
BY DEF WorldInv, Quiet

LEMMA QuietUnchanged ==
    ASSUME WorldInv, UNCHANGED <<work, logs, outside>> PROVE Quiet
BY DEF WorldInv, Quiet

LEMMA QuietRows == ASSUME RowsInv, Quiet, rows' = rows PROVE RowsInv'
BY DEF RowsInv, Quiet

LEMMA QuietFlight == ASSUME FlightInv, Quiet, flight' = flight PROVE FlightInv'
BY DEF FlightInv, Quiet

LEMMA QuietStore == ASSUME StoreInv, Quiet, cache' = cache PROVE StoreInv'
BY DEF StoreInv, Quiet

LEMMA ReadersStep ==
    ASSUME ReadersInv, Quiet, NEW t \in Threads \cup Refreshers, NEW th \in ThreadStates,
           Step(t, th), ThreadOK(logs, outside.gone, outside.now, th)
    PROVE  ReadersInv'
BY DEF ReadersInv, Quiet, Step

\* A request's thread moves, and its page with it.
LEMMA RequestsStep ==
    ASSUME ReadersInv, RequestsInv, NEW t \in Threads, NEW th \in ThreadStates, Step(t, th),
           NEW pg \in PageStates, page' = [page EXCEPT ![t] = pg], cache' = cache,
           RequestOK(th), PageOK(th, pg), GenOK(cache, th)
    PROVE  RequestsInv'
<1>1. \A u \in Threads : threads'[u] = IF u = t THEN th ELSE threads[u]
  BY DEF ReadersInv, Step
<1>2. page' \in [Threads -> PageStates] /\ \A u \in Threads : page'[u] = IF u = t THEN pg ELSE page[u]
  BY DEF RequestsInv
<1> QED
  BY <1>1, <1>2 DEF RequestsInv

LEMMA RefreshersStand ==
    ASSUME ReadersInv, RefreshersInv, NEW t \in Threads, NEW th, Step(t, th)
    PROVE  RefreshersInv'
<1>1. t \notin Refreshers
  BY DashboardAssumption
<1>2. \A b \in Refreshers : threads'[b] = threads[b]
  BY <1>1 DEF ReadersInv, Step
<1> QED
  BY <1>2 DEF RefreshersInv

LEMMA RefresherSteps ==
    ASSUME ReadersInv, RequestsInv, RefreshersInv, NEW b \in Refreshers, NEW th, Step(b, th),
           RefresherOK(th), page' = page, \A t \in Threads : GenOK(cache', threads[t])
    PROVE  RequestsInv' /\ RefreshersInv'
<1>1. b \notin Threads
  BY DashboardAssumption
<1>2. /\ \A t \in Threads : threads'[t] = threads[t]
      /\ \A u \in Refreshers : threads'[u] = IF u = b THEN th ELSE threads[u]
  BY <1>1 DEF ReadersInv, Step
<1> QED
  BY <1>2 DEF RequestsInv, RefreshersInv

\* A thread that neither reads nor waits to read has nothing to be wrong about.
LEMMA IdleIsOK ==
    ASSUME NEW ls, NEW gone, NEW now, NEW th, th.pc \notin Loading \cup {"enter", "wait", "woken"}
    PROVE  ThreadOK(ls, gone, now, th)
BY DEF ThreadOK, ListOK, StampOK, ReadOK, SignOK, Loading

-----------------------------------------------------------------------------
(* What the helpers return.                                                *)

LEMMA NothingTypes == Nothing \in Seens /\ NoCover \in Covers /\ NoThread \in ThreadStates
<1>1. Nothing \in Seens
  BY DEF Nothing, Seens, Absent
<1>2. NoCover \in Covers
  BY <1>1 DEF NoCover, Covers
<1>3. <<>> \in Seq(Asked) /\ <<0, 0>> \in Nat \X Nat
  OBVIOUS
<1> QED
  BY <1>1, <1>2, <1>3 DEF NoThread, ThreadStates, Places

LEMMA PresentTypes ==
    ASSUME WorldInv
    PROVE  /\ Present \in SUBSET Files
           /\ \A f \in Present : logs[f] # <<>> /\ f \notin outside.gone
           /\ Current \in Seens
           /\ \A f \in Files : Current[f] = IF f \in Present THEN Len(logs[f]) ELSE Absent
           /\ \A f \in Files : Length(f) \in Nat /\ (f \notin outside.gone => Length(f) = Len(logs[f]))
<1>1. \A f \in Files : logs[f] \in Seq(0..outside.now)
  BY DEF WorldInv
<1>2. \A f \in Files : Len(logs[f]) \in Nat
  BY <1>1
<1> QED
  BY <1>2 DEF Present, Gone, Current, Seens, Absent, Length

LEMMA MarkTypes ==
    ASSUME WorldInv
    PROVE  /\ Signature \in Nat \X Nat /\ Fingerprint \in Nat \X Nat \X Nat
           /\ Signature[1] = Cardinality(Present) /\ Signature[2] = Newest(Present)
           /\ Fingerprint[1] = Cardinality(Present) /\ Fingerprint[2] = Newest(Present)
           /\ Newest(Present) <= outside.now
<1>1. Cardinality(Present) \in Nat
  BY PresentTypes, FilesAreFinite
<1>2. Newest(Present) \in 0..outside.now
  <2>1. Present \in SUBSET Files /\ \A f \in Present : logs[f] # <<>>
    BY PresentTypes
  <2>2. outside.now \in Nat /\ logs \in [Files -> Seq(0..outside.now)]
    BY DEF WorldInv
  <2> QED
    BY <2>1, <2>2, NewestIsALog, NewestHere
<1>3. outside.now \in Nat
  BY DEF WorldInv
<1> DEFINE Lines == UNION {{f} \X DOMAIN logs[f] : f \in Present}
<1>4. Cardinality(Lines) \in Nat
  <2>1. IsFiniteSet(Lines)
    <3> DEFINE All == {{f} \X DOMAIN logs[f] : f \in Present}
               Of == [f \in Present |-> {f} \X DOMAIN logs[f]]
    <3>1. Of \in Surjection(Present, All)
      BY DEF Surjection
    <3>2. IsFiniteSet(Present)
      BY PresentTypes, FilesAreFinite
    <3>3. IsFiniteSet(All)
      BY <3>1, <3>2, FS_Surjection
    <3>4. ASSUME NEW f \in Present PROVE IsFiniteSet({f} \X DOMAIN logs[f])
      <4>1. f \in Files /\ logs[f] \in Seq(0..outside.now)
        BY PresentTypes DEF WorldInv
      <4>2. DOMAIN logs[f] = 1..Len(logs[f]) /\ Len(logs[f]) \in Nat
        BY <4>1
      <4>3. IsFiniteSet(DOMAIN logs[f])
        <5>1. 1 \in Int /\ Len(logs[f]) \in Int
          BY <4>2
        <5>2. IsFiniteSet(1..Len(logs[f]))
          BY <5>1, FS_Interval
        <5> QED
          BY <4>2, <5>2
      <4>4. IsFiniteSet({f})
        BY FS_Singleton
      <4> QED
        BY <4>3, <4>4, FS_Product
    <3>5. \A S \in All : IsFiniteSet(S)
      BY <3>4
    <3> HIDE DEF All
    <3>6. IsFiniteSet(UNION All)
      BY <3>3, <3>5, FS_UNION
    <3> QED
      BY <3>6 DEF All
  <2> QED
    BY <2>1, FS_CardinalityType
<1>5. Signature = <<Cardinality(Present), Newest(Present)>>
  BY DEF Signature
<1>6. Fingerprint = <<Cardinality(Present), Newest(Present), Cardinality(Lines)>>
  BY DEF Fingerprint
<1> QED
  BY <1>1, <1>2, <1>3, <1>4, <1>5, <1>6

LEMMA SignedNowHere ==
    ASSUME WorldInv, NEW mark \in Marks, mark[1] = Cardinality(Present), mark[2] = Newest(Present)
    PROVE  /\ Marked(mark, outside.now)
           /\ Signed(logs, outside.gone, mark)
           /\ Faithful(logs, outside.gone, Present, Nothing, mark)
BY HereIsPresent, MarkTypes, SignedNow, FaithfulAtFirst DEF Marked

LEMMA LoadForIs ==
    ASSUME NEW th \in ThreadStates, NEW gap, NEW ret, NEW new, new = LoadFor(th, gap, ret)
    PROVE  /\ new.pc = "look" /\ new.gap = gap /\ new.ret = ret /\ new.asks = th.asks
           /\ new.next = Present /\ new.seen = Nothing /\ new.mark = th.mark
BY DEF LoadFor, ThreadStates

LEMMA LoadForTypes ==
    ASSUME WorldInv, NEW th \in ThreadStates, NEW gap, gap \in Nat,
           NEW ret, ret \in {"install", "direct", "replace", "publish"}
    PROVE  LoadFor(th, gap, ret) \in ThreadStates
<1>1. Present \in SUBSET Files /\ Nothing \in Seens
  BY PresentTypes, NothingTypes
<1> QED
  BY <1>1 DEF LoadFor, ThreadStates, Places, Loading

LEMMA BackIs ==
    ASSUME ReadersInv, NEW t \in Threads, NEW pc \in Places
    PROVE  /\ Back(t, pc) \in ThreadStates
           /\ Back(t, pc).pc = pc /\ Back(t, pc).asks = threads[t].asks /\ Back(t, pc).gen = 0
<1>1. threads[t] \in ThreadStates /\ NoThread \in ThreadStates /\ NoThread.gen = 0
  BY NothingTypes DEF ReadersInv, NoThread
<1>2. threads[t].asks \in Seq(Asked) /\ threads[t].tries \in Nat
  BY <1>1 DEF ThreadStates
<1> QED
  BY <1>1, <1>2 DEF Back, ThreadStates

LEMMA CoveredIs ==
    ASSUME NEW th \in ThreadStates, NEW f \in Files, NEW n \in Int
    PROVE  /\ Covered(th, f, n) \in ThreadStates
           /\ Covered(th, f, n).pc = "look" /\ Covered(th, f, n).next = th.next \ {f}
           /\ Covered(th, f, n).seen = [th.seen EXCEPT ![f] = n]
           /\ Covered(th, f, n).ret = th.ret /\ Covered(th, f, n).mark = th.mark
           /\ Covered(th, f, n).asks = th.asks /\ Covered(th, f, n).gap = th.gap
<1>1. [th.seen EXCEPT ![f] = n] \in Seens
  BY DEF ThreadStates, Seens
<1>2. <<0, 0>> \in Nat \X Nat
  OBVIOUS
<1> QED
  BY <1>1, <1>2 DEF Covered, ThreadStates, Places, Loading

LEMMA DoneIs ==
    ASSUME WorldInv, ReadersInv, NEW t \in Threads, threads[t].asks # <<>>
    PROVE  Done(t) \in ThreadStates /\ Done(t).pc = "ask" /\ Done(t).gen = 0
<1>1. threads[t].asks \in Seq(Asked)
  BY DEF ReadersInv, ThreadStates
<1>2. Tail(threads[t].asks) \in Seq(Asked)
  BY <1>1
<1>3. NoThread \in ThreadStates /\ NoThread.gen = 0
  BY NothingTypes DEF NoThread
<1> QED
  BY <1>1, <1>2, <1>3 DEF Done, ThreadStates, Places

LEMMA AskIs ==
    ASSUME ReadersInv, NEW t \in Threads, threads[t].asks # <<>>
    PROVE  /\ Ask(t) = AskOf(threads[t]) /\ Ask(t) \in Asked
           /\ Ask(t).op \in Ops /\ Ask(t).gap \in Gaps /\ Ask(t).gap \in Nat
<1>1. threads[t].asks \in Seq(Asked)
  BY DEF ReadersInv, ThreadStates
<1>2. Head(threads[t].asks) \in Asked
  BY <1>1
<1> QED
  BY <1>2, DashboardAssumption DEF Ask, AskOf, Asked

LEMMA InstalledIs ==
    ASSUME ReadersInv, NEW c \in CacheStates, cache \in CacheStates, NEW gap \in Nat,
           NEW cover \in Covers, NEW mark \in Marks \cup {<<>>}
    PROVE  /\ Installed(c, gap, cover, mark) \in CacheStates
           /\ Installed(c, gap, cover, mark).has /\ Installed(c, gap, cover, mark).lineage = gap
           /\ Installed(c, gap, cover, mark).cover = cover
           /\ Installed(c, gap, cover, mark).mark = mark
           /\ Installed(c, gap, cover, mark).gen = NextGeneration
           /\ Installed(c, gap, cover, mark).derived.gen = 0
<1>1. NextGeneration \in Nat /\ NextGeneration # 0
  BY GenerationIsNew DEF ReadersInv, CacheStates
<1>2. EmptyCache.derived \in [gen : Nat, cover : Covers] /\ EmptyCache.derived.gen = 0
  BY NothingTypes DEF EmptyCache
<1> QED
  BY <1>1, <1>2 DEF Installed, CacheStates

-----------------------------------------------------------------------------
(* A log grows, or is removed.                                             *)

LEMMA LineLengths ==
    ASSUME NEW ls, NEW ms, NEW g, NEW now, Grown(ls, ms, g, now)
    PROVE  \A f \in Files :
             /\ ls[f] \in Seq(0..now) /\ Len(ls[f]) \in Nat /\ Len(ms[f]) \in Nat
             /\ Len(ls[f]) <= Len(ms[f])
             /\ ls[f] # <<>> => ms[f] # <<>>
             /\ f # g => ms[f] = ls[f]
<1> SUFFICES ASSUME NEW f \in Files
             PROVE  /\ ls[f] \in Seq(0..now) /\ Len(ls[f]) \in Nat /\ Len(ms[f]) \in Nat
                    /\ Len(ls[f]) <= Len(ms[f])
                    /\ ls[f] # <<>> => ms[f] # <<>>
                    /\ f # g => ms[f] = ls[f]
  OBVIOUS
<1>1. ls[f] \in Seq(0..now) /\ now \in Nat /\ ms[f] = IF f = g THEN Append(ls[f], now + 1) ELSE ls[f]
  BY DEF Grown
<1>2. Len(Append(ls[f], now + 1)) = Len(ls[f]) + 1 /\ Append(ls[f], now + 1) # <<>>
  BY <1>1
<1> QED
  BY <1>1, <1>2

LEMMA ThreadGrows ==
    ASSUME NEW ls, NEW ms, NEW g, NEW now, Grown(ls, ms, g, now), NEW gone,
           NEW th \in ThreadStates, ThreadOK(ls, gone, now, th)
    PROVE  ThreadOK(ms, gone, now + 1, th)
<1>0. th.next \in SUBSET Files /\ th.stamp \in Nat \X Nat /\ th.read \in Nat
  BY DEF ThreadStates
<1>1. ListOK(ms, th)
  BY <1>0, LineLengths DEF ThreadOK, ListOK
<1>2. th.pc \in {"parse", "store"} => First(th.next) \in Files
  BY <1>0, FirstIsOne DEF ThreadOK, ListOK
<1>3. StampOK(ms, gone, th)
  BY <1>0, <1>2, LineLengths DEF ThreadOK, StampOK
<1>4. ReadOK(ms, gone, now + 1, th)
  <2> SUFFICES ASSUME th.pc \in Loading, th.ret \in {"publish", "replace"}
               PROVE  /\ Marked(th.mark, now + 1) /\ Faithful(ms, gone, th.next, th.seen, th.mark)
                      /\ th.pc = "store" =>
                          \A fs \in SUBSET Files :
                              Unmoved(ms, gone, fs, th.mark) /\ First(th.next) \in fs =>
                                  th.read = Len(ms[First(th.next)])
    BY DEF ReadOK
  <2>1. Marked(th.mark, now) /\ Faithful(ls, gone, th.next, th.seen, th.mark)
    BY DEF ThreadOK, ReadOK
  <2>2. Marked(th.mark, now + 1) /\ Faithful(ms, gone, th.next, th.seen, th.mark)
    BY <2>1, FaithfulGrows
  <2>3. ASSUME th.pc = "store", NEW fs \in SUBSET Files, Unmoved(ms, gone, fs, th.mark),
               First(th.next) \in fs
        PROVE  th.read = Len(ms[First(th.next)])
    <3>1. g \notin fs /\ Unmoved(ls, gone, fs, th.mark)
      BY <2>1, <2>3, GrowthShows
    <3>2. th.read = Len(ls[First(th.next)])
      BY <2>3, <3>1 DEF ThreadOK, ReadOK
    <3> QED
      BY <2>3, <3>1, <3>2, LineLengths
  <2> QED
    BY <2>2, <2>3
<1>5. SignOK(ms, gone, now + 1, th)
  BY FaithfulGrows DEF ThreadOK, SignOK
<1> QED
  BY <1>1, <1>3, <1>4, <1>5 DEF ThreadOK

LEMMA KeptGrows ==
    ASSUME NEW ls, NEW ms, NEW g, NEW now, Grown(ls, ms, g, now), NEW gone, NEW seen, NEW mark,
           KeptOK(ls, gone, now, seen, mark)
    PROVE  KeptOK(ms, gone, now + 1, seen, mark)
BY FaithfulGrows DEF KeptOK

LEMMA WriteKeeps == ASSUME DashInv, NEW f \in Files, Write(f) PROVE DashInv'
<1>0. /\ UNCHANGED <<work, rows, flight, cache, threads, page>>
      /\ outside' = [outside EXCEPT !.now = outside.now + 1]
      /\ logs' = [logs EXCEPT ![f] = Append(logs[f], outside.now + 1)]
  BY DEF Write
<1>1. Grown(logs, logs', f, outside.now)
  BY <1>0 DEF Grown, DashInv, WorldInv
<1>2. outside'.gone = outside.gone /\ outside'.now = outside.now + 1
  BY <1>0 DEF DashInv, WorldInv
<1>3. WorldInv'
  <2>1. outside' \in [now : Nat, gone : SUBSET Files, failed : Nat]
    <3>1. outside \in [now : Nat, gone : SUBSET Files, failed : Nat]
      BY DEF DashInv, WorldInv
    <3>2. outside.now + 1 \in Nat
      BY <3>1
    <3> QED
      BY <1>0, <3>1, <3>2
  <2>2. \A g \in Files : logs[g] \in Seq(0..outside.now) /\ logs[g] \in Seq(0..(outside.now + 1))
    BY DEF DashInv, WorldInv
  <2>3. logs' \in [Files -> Seq(0..(outside.now + 1))]
    BY <1>0, <2>2 DEF DashInv, WorldInv
  <2> QED
    BY <1>0, <1>2, <2>1, <2>3 DEF DashInv, WorldInv
<1>4. RowsInv'
  BY <1>0, <1>1, <1>2, LineLengths DEF DashInv, RowsInv, RowOK, RowStates
<1>5. FlightInv'
  BY <1>0, <1>1, <1>2, KeptGrows DEF DashInv, FlightInv, FlightOK
<1>6. StoreInv'
  BY <1>0, <1>1, <1>2, KeptGrows DEF DashInv, StoreInv, StoredOK
<1>7. ReadersInv'
  BY <1>0, <1>1, <1>2, ThreadGrows DEF DashInv, ReadersInv
<1>8. RequestsInv' /\ RefreshersInv'
  BY <1>0 DEF DashInv, RequestsInv, RefreshersInv
<1> QED
  BY <1>3, <1>4, <1>5, <1>6, <1>7, <1>8 DEF DashInv

LEMMA ThreadShrinks ==
    ASSUME NEW ls, NEW gone, NEW more, gone \subseteq more, NEW now, NEW th \in ThreadStates,
           ThreadOK(ls, gone, now, th)
    PROVE  ThreadOK(ls, more, now, th)
<1>1. ListOK(ls, th) /\ StampOK(ls, more, th)
  BY DEF ThreadOK, StampOK
<1>2. \A fs \in SUBSET Files : Unmoved(ls, more, fs, th.mark) => Unmoved(ls, gone, fs, th.mark)
  BY DEF Unmoved, HereIn
<1>3. ReadOK(ls, more, now, th)
  BY <1>2, FaithfulShrinks DEF ThreadOK, ReadOK
<1>4. SignOK(ls, more, now, th)
  BY FaithfulShrinks DEF ThreadOK, SignOK
<1> QED
  BY <1>1, <1>3, <1>4 DEF ThreadOK

LEMMA DeleteKeeps == ASSUME DashInv, NEW f \in Files, Delete(f) PROVE DashInv'
<1>0. /\ UNCHANGED <<work, logs, rows, flight, cache, threads, page>>
      /\ outside' = [outside EXCEPT !.gone = outside.gone \cup {f}]
  BY DEF Delete
<1>1. outside'.gone = outside.gone \cup {f} /\ outside'.now = outside.now
  BY <1>0 DEF DashInv, WorldInv
<1>2. WorldInv'
  BY <1>0, <1>1 DEF DashInv, WorldInv
<1>3. RowsInv'
  BY <1>0, <1>1 DEF DashInv, RowsInv, RowOK
<1>4. \A seen, mark : KeptOK(logs, outside.gone, outside.now, seen, mark) =>
                        KeptOK(logs, outside'.gone, outside.now, seen, mark)
  BY <1>1, FaithfulShrinks DEF KeptOK
<1>5. FlightInv' /\ StoreInv'
  BY <1>0, <1>1, <1>4 DEF DashInv, FlightInv, FlightOK, StoreInv, StoredOK
<1>6. ReadersInv'
  <2>1. outside.gone \subseteq outside'.gone
    BY <1>1
  <2>2. \A t \in Threads \cup Refreshers : ThreadOK(logs, outside'.gone, outside.now, threads[t])
    BY <2>1, ThreadShrinks DEF DashInv, ReadersInv
  <2> QED
    BY <1>0, <1>1, <2>2 DEF DashInv, ReadersInv
<1>7. RequestsInv' /\ RefreshersInv'
  BY <1>0 DEF DashInv, RequestsInv, RefreshersInv
<1> QED
  BY <1>2, <1>3, <1>5, <1>6, <1>7 DEF DashInv

LEMMA WindowKeeps == ASSUME DashInv, Window PROVE DashInv'
<1>0. /\ UNCHANGED <<work, logs, outside, rows, flight, threads, page>>
      /\ cache' = [cache EXCEPT !.due = TRUE]
  BY DEF Window
<1>1. cache \in CacheStates
  BY DEF DashInv, StoreInv
<1>2. /\ cache' \in CacheStates
      /\ cache'.has = cache.has /\ cache'.mark = cache.mark /\ cache'.missed = cache.missed
      /\ cache'.cover = cache.cover /\ cache'.gen = cache.gen /\ cache'.derived = cache.derived
      /\ cache'.lineage = cache.lineage
  BY <1>0, <1>1 DEF CacheStates
<1>3. Quiet
  BY <1>0, QuietUnchanged DEF DashInv
<1>4. StoreInv'
  BY <1>0, <1>2 DEF DashInv, StoreInv, StoredOK, CacheOK
<1>5. RequestsInv' /\ RefreshersInv' /\ ReadersInv'
  BY <1>0, <1>2 DEF DashInv, RequestsInv, RefreshersInv, ReadersInv, GenOK
<1> QED
  BY <1>0, <1>3, <1>4, <1>5, QuietWorld, QuietRows, QuietFlight DEF DashInv

-----------------------------------------------------------------------------
(* Reading the directory, by a request, a stream or a refresh alike.       *)

\* What a reader does leaves its request, and so its page, as they are.
LEMMA ReaderGoesOn ==
    ASSUME WorldInv, ReadersInv, RequestsInv, RefreshersInv, Quiet, UNCHANGED <<cache, page>>,
           NEW t \in Threads \cup Refreshers, NEW th \in ThreadStates, Step(t, th),
           threads[t].pc \in Loading, th.pc \in Loading, th.ret = threads[t].ret,
           th.gap = threads[t].gap, th.asks = threads[t].asks,
           ThreadOK(logs, outside.gone, outside.now, th)
    PROVE  ReadersInv' /\ RequestsInv' /\ RefreshersInv'
<1>1. ReadersInv'
  BY ReadersStep
<1>2. \A u \in Threads \cup Refreshers : threads'[u] = IF u = t THEN th ELSE threads[u]
  BY DEF ReadersInv, Step
<1>3. t \in Threads => RequestOK(th) /\ PageOK(th, page[t]) /\ GenOK(cache, th)
  BY DEF RequestsInv, RequestOK, PageOK, GenOK, Shares, Streaming, AskOf, Loading
<1>4. t \in Refreshers => RefresherOK(th)
  BY DEF RefreshersInv, RefresherOK
<1> QED
  BY <1>1, <1>2, <1>3, <1>4 DEF RequestsInv, RefreshersInv

\* A log is done with: n lines of it have been read, or it is gone.
LEMMA CoveredIsOK ==
    ASSUME WorldInv, NEW th \in ThreadStates, ThreadOK(logs, outside.gone, outside.now, th),
           th.pc \in Loading, th.next # {}, NEW n \in Int,
           th.ret \in {"publish", "replace"} =>
             \A fs \in SUBSET Files :
               Unmoved(logs, outside.gone, fs, th.mark) /\ First(th.next) \in fs =>
                 n = Len(logs[First(th.next)])
    PROVE  /\ Covered(th, First(th.next), n) \in ThreadStates
           /\ ThreadOK(logs, outside.gone, outside.now, Covered(th, First(th.next), n))
<1> DEFINE f == First(th.next)
           new == Covered(th, f, n)
<1>1. f \in th.next /\ f \in Files
  BY FirstIsOne DEF ThreadStates
<1>2. /\ new \in ThreadStates /\ new.pc = "look" /\ new.next = th.next \ {f}
      /\ new.seen = [th.seen EXCEPT ![f] = n] /\ new.ret = th.ret /\ new.mark = th.mark
  BY <1>1, CoveredIs
<1>3. ListOK(logs, new)
  BY <1>2 DEF ThreadOK, ListOK
<1>4. StampOK(logs, outside.gone, new) /\ SignOK(logs, outside.gone, outside.now, new)
  BY <1>2 DEF StampOK, SignOK
<1>5. ReadOK(logs, outside.gone, outside.now, new)
  <2> SUFFICES ASSUME th.ret \in {"publish", "replace"}
               PROVE  /\ Marked(th.mark, outside.now)
                      /\ Faithful(logs, outside.gone, th.next \ {f}, [th.seen EXCEPT ![f] = n], th.mark)
    BY <1>2 DEF ReadOK
  <2>1. Marked(th.mark, outside.now) /\ Faithful(logs, outside.gone, th.next, th.seen, th.mark)
    BY DEF ThreadOK, ReadOK
  <2>2. th.seen \in Seens
    BY DEF ThreadStates
  <2> QED
    BY <1>1, <2>1, <2>2, FaithfulReads
<1> QED
  BY <1>2, <1>3, <1>4, <1>5 DEF ThreadOK

\* A log that is still described by the mark is not gone.
LEMMA UnmovedIsHere ==
    ASSUME NEW fs, NEW f \in fs, NEW mark, Unmoved(logs, outside.gone, fs, mark)
    PROVE  f \in Files /\ logs[f] # <<>> /\ f \notin outside.gone
BY DEF Unmoved, HereIn

LEMMA LookKeeps ==
    ASSUME DashInv, NEW t \in Threads \cup Refreshers, Look(t)
    PROVE  DashInv'
<1> DEFINE th == threads[t]
           f == First(th.next)
<1>0. /\ th.pc = "look" /\ th.next # {}
      /\ UNCHANGED <<work, logs, outside, rows, flight, cache, page>>
  BY DEF Look, At
<1>1. th \in ThreadStates /\ ThreadOK(logs, outside.gone, outside.now, th)
  BY DEF DashInv, ReadersInv
<1>2. f \in th.next /\ f \in Files /\ logs[f] # <<>> /\ th.pc \in Loading
  BY <1>0, <1>1, FirstIsOne DEF ThreadStates, ThreadOK, ListOK, Loading
<1>3. Quiet /\ WorldInv
  BY <1>0, QuietUnchanged DEF DashInv
<1>4. /\ Length(f) \in Nat /\ (f \notin outside.gone => Length(f) = Len(logs[f]))
      /\ rows[f].read \in Nat /\ rows[f].stamp \in Nat \X Nat
      /\ Stamp(f) = <<Last(logs[f]), Len(logs[f])>> /\ Stamp(f) \in Nat \X Nat
  <2>1. logs[f] \in Seq(0..outside.now) /\ outside.now \in Nat
    BY <1>2, <1>3 DEF WorldInv
  <2>2. Last(logs[f]) \in Nat /\ Len(logs[f]) \in Nat
    BY <1>2, <2>1 DEF Last
  <2> QED
    BY <1>2, <1>3, <2>2, PresentTypes DEF DashInv, RowsInv, RowStates, Stamp
<1>5. \A fs \in SUBSET Files :
        Unmoved(logs, outside.gone, fs, th.mark) /\ f \in fs => f \notin outside.gone
  BY UnmovedIsHere
<1> HIDE DEF th, f
<1>6. ASSUME NEW n \in Int, Step(t, Covered(th, f, n)),
             f \notin outside.gone => n = Len(logs[f])
      PROVE  ReadersInv' /\ RequestsInv' /\ RefreshersInv'
  <2> DEFINE new == Covered(th, f, n)
  <2>1. new \in ThreadStates /\ ThreadOK(logs, outside.gone, outside.now, new)
    BY <1>0, <1>1, <1>2, <1>3, <1>5, <1>6, CoveredIsOK DEF f
  <2>2. new.pc = "look" /\ new.ret = th.ret /\ new.gap = th.gap /\ new.asks = th.asks
    BY <1>1, <1>2, CoveredIs
  <2> HIDE DEF new
  <2>3. Step(t, new) /\ new.pc \in Loading
    BY <1>6, <2>2 DEF new, Loading
  <2> QED
    BY <1>0, <1>2, <1>3, <2>1, <2>2, <2>3, ReaderGoesOn DEF th, DashInv
<1>7. ASSUME Gone(f), Step(t, Covered(th, f, Absent))
      PROVE  ReadersInv' /\ RequestsInv' /\ RefreshersInv'
  BY <1>6, <1>7 DEF Gone, Absent
<1>8. ASSUME Step(t, Covered(th, f, Length(f)))
      PROVE  ReadersInv' /\ RequestsInv' /\ RefreshersInv'
  BY <1>4, <1>6, <1>8
<1>9. ASSUME rows[f].stamp = Stamp(f), Step(t, Covered(th, f, rows[f].read))
      PROVE  ReadersInv' /\ RequestsInv' /\ RefreshersInv'
  <2>1. f \notin outside.gone => rows[f].read = Len(logs[f])
    <3>1. f \notin outside.gone => rows[f].stamp[2] <= rows[f].read /\ rows[f].read <= Len(logs[f])
      BY <1>2 DEF DashInv, RowsInv, RowOK
    <3>2. rows[f].stamp[2] = Len(logs[f])
      BY <1>4, <1>9
    <3> QED
      BY <1>4, <3>1, <3>2
  <2> QED
    BY <1>4, <1>6, <1>9, <2>1
<1>10. ASSUME ~Gone(f), Step(t, [th EXCEPT !.pc = "parse", !.stamp = Stamp(f)])
       PROVE  ReadersInv' /\ RequestsInv' /\ RefreshersInv'
  <2> DEFINE new == [th EXCEPT !.pc = "parse", !.stamp = Stamp(f)]
  <2>1. /\ new \in ThreadStates /\ new.pc = "parse" /\ new.stamp = Stamp(f) /\ new.next = th.next
        /\ new.ret = th.ret /\ new.gap = th.gap /\ new.asks = th.asks /\ new.mark = th.mark
        /\ new.seen = th.seen
    BY <1>1, <1>4 DEF ThreadStates, Places, Loading
  <2> HIDE DEF new
  <2>2. new.stamp[2] <= Len(logs[f])
    BY <1>4, <2>1
  <2>3. ThreadOK(logs, outside.gone, outside.now, new)
    BY <1>0, <1>1, <1>2, <2>1, <2>2 DEF ThreadOK, ListOK, StampOK, ReadOK, SignOK, Loading, f
  <2>4. Step(t, new) /\ new.pc \in Loading
    BY <1>10, <2>1 DEF new, Loading
  <2> QED
    BY <1>0, <1>2, <1>3, <2>1, <2>3, <2>4, ReaderGoesOn DEF th, DashInv
<1>11. ReadersInv' /\ RequestsInv' /\ RefreshersInv'
  <2>1. \/ Gone(f) /\ Step(t, Covered(th, f, Absent))
        \/ Step(t, Covered(th, f, Length(f)))
        \/ rows[f].stamp = Stamp(f) /\ Step(t, Covered(th, f, rows[f].read))
        \/ ~Gone(f) /\ Step(t, [th EXCEPT !.pc = "parse", !.stamp = Stamp(f)])
    BY DEF Look, th, f
  <2> QED
    BY <1>7, <1>8, <1>9, <1>10, <2>1
<1> QED
  BY <1>0, <1>3, <1>11, QuietWorld, QuietRows, QuietFlight, QuietStore DEF DashInv

LEMMA ParseKeeps ==
    ASSUME DashInv, NEW t \in Threads \cup Refreshers, Parse(t)
    PROVE  DashInv'
<1> DEFINE th == threads[t]
           f == First(th.next)
           new == [th EXCEPT !.pc = "store", !.read = Length(f)]
<1>0. /\ th.pc = "parse" /\ Step(t, new)
      /\ UNCHANGED <<work, logs, outside, rows, flight, cache, page>>
  BY DEF Parse, At
<1>1. th \in ThreadStates /\ ThreadOK(logs, outside.gone, outside.now, th)
  BY DEF DashInv, ReadersInv
<1>2. th.next # {} /\ f \in Files /\ th.pc \in Loading
  BY <1>0, <1>1, FirstIsOne DEF ThreadStates, ThreadOK, ListOK, Loading
<1>3. Quiet /\ WorldInv
  BY <1>0, QuietUnchanged DEF DashInv
<1>4. Length(f) \in Nat /\ (f \notin outside.gone => Length(f) = Len(logs[f]))
  BY <1>2, <1>3, PresentTypes
<1>5. /\ new \in ThreadStates /\ new.pc = "store" /\ new.read = Length(f) /\ new.next = th.next
      /\ new.ret = th.ret /\ new.gap = th.gap /\ new.asks = th.asks /\ new.mark = th.mark
      /\ new.seen = th.seen /\ new.stamp = th.stamp
  BY <1>1, <1>4 DEF ThreadStates, Places, Loading
<1>6. \A fs \in SUBSET Files :
        Unmoved(logs, outside.gone, fs, th.mark) /\ f \in fs => f \notin outside.gone
  BY UnmovedIsHere
<1> HIDE DEF new, f, th
<1>7. f \notin outside.gone =>
        new.stamp[2] <= Len(logs[f]) /\ new.stamp[2] <= new.read /\ new.read <= Len(logs[f])
  <2>1. f \notin outside.gone => th.stamp[2] <= Len(logs[f])
    BY <1>0, <1>1 DEF ThreadOK, StampOK, f
  <2>2. logs[f] \in Seq(0..outside.now)
    BY <1>2, <1>3 DEF WorldInv
  <2> QED
    BY <1>4, <1>5, <2>1, <2>2
<1>8. ThreadOK(logs, outside.gone, outside.now, new)
  <2>1. ListOK(logs, new) /\ SignOK(logs, outside.gone, outside.now, new)
    BY <1>1, <1>2, <1>5 DEF ThreadOK, ListOK, SignOK
  <2>2. StampOK(logs, outside.gone, new)
    BY <1>5, <1>7 DEF StampOK, f
  <2>3. ReadOK(logs, outside.gone, outside.now, new)
    BY <1>1, <1>2, <1>4, <1>5, <1>6 DEF ThreadOK, ReadOK, f
  <2> QED
    BY <2>1, <2>2, <2>3 DEF ThreadOK
<1>9. new.pc \in Loading
  BY <1>5 DEF Loading
<1>10. ReadersInv' /\ RequestsInv' /\ RefreshersInv'
  BY <1>0, <1>2, <1>3, <1>5, <1>8, <1>9, ReaderGoesOn DEF th, DashInv
<1> QED
  BY <1>0, <1>3, <1>10, QuietWorld, QuietRows, QuietFlight, QuietStore DEF DashInv

LEMMA StoreKeeps ==
    ASSUME DashInv, NEW t \in Threads \cup Refreshers, Store(t)
    PROVE  DashInv'
<1> DEFINE th == threads[t]
           f == First(th.next)
           new == Covered(th, f, th.read)
<1>0. /\ th.pc = "store" /\ Step(t, new)
      /\ rows' = [rows EXCEPT ![f] = [stamp |-> th.stamp, read |-> th.read]]
      /\ UNCHANGED <<work, logs, outside, flight, cache, page>>
  BY DEF Store, At, RowOf
<1>1. /\ th \in ThreadStates /\ ThreadOK(logs, outside.gone, outside.now, th)
      /\ th.read \in Nat /\ th.stamp \in Nat \X Nat
  BY DEF DashInv, ReadersInv, ThreadStates
<1>2. th.next # {} /\ f \in Files /\ th.pc \in Loading
  BY <1>0, <1>1, FirstIsOne DEF ThreadStates, ThreadOK, ListOK, Loading
<1>3. Quiet /\ WorldInv
  BY <1>0, QuietUnchanged DEF DashInv
<1>4. /\ new \in ThreadStates /\ new.pc = "look" /\ new.ret = th.ret /\ new.gap = th.gap
      /\ new.asks = th.asks
  <2>1. th.read \in Int /\ th \in ThreadStates /\ f \in Files
    BY <1>1, <1>2
  <2> HIDE DEF f, th
  <2> QED
    BY <2>1, CoveredIs
<1>5. ThreadOK(logs, outside.gone, outside.now, new)
  <2>1. th.ret \in {"publish", "replace"} =>
          \A fs \in SUBSET Files :
            Unmoved(logs, outside.gone, fs, th.mark) /\ f \in fs => th.read = Len(logs[f])
    BY <1>0, <1>1, <1>2 DEF ThreadOK, ReadOK
  <2> QED
    BY <1>1, <1>2, <1>3, <2>1, CoveredIsOK
<1>6. RowsInv'
  <2> DEFINE row == [stamp |-> th.stamp, read |-> th.read]
  <2>1. row \in RowStates /\ RowOK(logs, outside.gone, row, f)
    BY <1>0, <1>1 DEF RowStates, RowOK, ThreadOK, StampOK
  <2> HIDE DEF row
  <2>2. rows' = [rows EXCEPT ![f] = row]
    BY <1>0 DEF row
  <2> QED
    BY <1>2, <1>3, <2>1, <2>2 DEF DashInv, RowsInv, Quiet
<1> HIDE DEF new, f, th
<1>7. new.pc \in Loading
  BY <1>4 DEF Loading
<1>8. ReadersInv' /\ RequestsInv' /\ RefreshersInv'
  BY <1>0, <1>2, <1>3, <1>4, <1>5, <1>7, ReaderGoesOn DEF th, DashInv
<1> QED
  BY <1>0, <1>3, <1>6, <1>8, QuietWorld, QuietFlight, QuietStore DEF DashInv

-----------------------------------------------------------------------------
(* What a step of a request's thread has to show.                          *)

LEMMA MoveKeeps ==
    ASSUME DashInv, Quiet, NEW t \in Threads, NEW th \in ThreadStates, Step(t, th),
           ThreadOK(logs, outside.gone, outside.now, th), NEW pg \in PageStates,
           page' = [page EXCEPT ![t] = pg], RequestOK(th), PageOK(th, pg), GenOK(cache', th),
           \A u \in Threads \ {t} : GenOK(cache', threads[u])
    PROVE  ReadersInv' /\ RequestsInv' /\ RefreshersInv'
<1>1. ReadersInv' /\ RefreshersInv'
  BY ReadersStep, RefreshersStand DEF DashInv
<1>2. \A u \in Threads : threads'[u] = IF u = t THEN th ELSE threads[u]
  BY DEF DashInv, ReadersInv, Step
<1>3. /\ page' \in [Threads -> PageStates]
      /\ \A u \in Threads : page'[u] = IF u = t THEN pg ELSE page[u]
  BY DEF DashInv, RequestsInv
<1>4. RequestsInv'
  BY <1>2, <1>3 DEF DashInv, RequestsInv
<1> QED
  BY <1>1, <1>4

\* The page is not told anything.
LEMMA MoveAlone ==
    ASSUME DashInv, Quiet, NEW t \in Threads, NEW th \in ThreadStates, Step(t, th),
           ThreadOK(logs, outside.gone, outside.now, th), page' = page,
           RequestOK(th), PageOK(th, page[t]), GenOK(cache', th),
           \A u \in Threads \ {t} : GenOK(cache', threads[u])
    PROVE  ReadersInv' /\ RequestsInv' /\ RefreshersInv'
<1>1. page[t] \in PageStates /\ page' = [page EXCEPT ![t] = page[t]]
  BY DEF DashInv, RequestsInv
<1> QED
  BY <1>1, MoveKeeps

\* Neither a stream nor a reader: its page owes it nothing.
LEMMA PageAlone ==
    ASSUME DashInv, NEW t \in Threads, NEW th, ~Streaming(th)
    PROVE  PageOK(th, page[t])
BY DEF DashInv, RequestsInv, PageOK

\* The sessions keep their generation, so whoever holds them holds them still.
LEMMA GenStands ==
    ASSUME DashInv, cache'.gen = cache.gen, cache'.cover = cache.cover
    PROVE  \A u \in Threads : GenOK(cache', threads[u])
BY DEF DashInv, RequestsInv, GenOK

LEMMA GenIsNew ==
    ASSUME DashInv, NEW c, c.gen = NextGeneration
    PROVE  \A u \in Threads : GenOK(c, threads[u])
BY GenerationIsNew DEF DashInv, ReadersInv, StoreInv, CacheStates, GenOK

LEMMA LoadIsOK ==
    ASSUME WorldInv, NEW th \in ThreadStates, NEW gap, NEW ret,
           ret \in {"publish", "replace"} =>
              Marked(th.mark, outside.now) /\ Signed(logs, outside.gone, th.mark)
    PROVE  ThreadOK(logs, outside.gone, outside.now, LoadFor(th, gap, ret))
<1>0. PICK new : new = LoadFor(th, gap, ret)
  OBVIOUS
<1>1. /\ new.pc = "look" /\ new.next = Present /\ new.seen = Nothing /\ new.ret = ret
      /\ new.mark = th.mark
  BY <1>0, LoadForIs
<1>2. ListOK(logs, new)
  BY <1>1, PresentTypes DEF ListOK
<1>3. StampOK(logs, outside.gone, new) /\ SignOK(logs, outside.gone, outside.now, new)
  BY <1>1 DEF StampOK, SignOK
<1>4. ReadOK(logs, outside.gone, outside.now, new)
  BY <1>1, HereIsPresent, FaithfulAtFirst DEF ReadOK
<1>5. ThreadOK(logs, outside.gone, outside.now, new)
  BY <1>2, <1>3, <1>4 DEF ThreadOK
<1> QED
  BY <1>0, <1>5

\* The whole directory has been read.
LEMMA LoadedRows ==
    ASSUME DashInv, Quiet, NEW t, NEW ret, Loaded(t, ret)
    PROVE  RowsInv'
<1>1. rows' = [f \in Files |-> IF f \in Present THEN rows[f] ELSE NoRow]
  BY DEF Loaded
<1>2. NoRow \in RowStates /\ NoRow.stamp[2] = 0 /\ NoRow.read = 0
  BY DEF NoRow, RowStates
<1>3. \A f \in Files : RowOK(logs, outside.gone, NoRow, f)
  <2>1. \A f \in Files : Len(logs[f]) \in Nat
    BY DEF DashInv, WorldInv
  <2> QED
    BY <1>2, <2>1 DEF RowOK
<1>4. \A f \in Files : rows'[f] \in RowStates /\ RowOK(logs, outside.gone, rows'[f], f)
  BY <1>1, <1>2, <1>3 DEF DashInv, RowsInv
<1> QED
  BY <1>1, <1>4 DEF RowsInv, Quiet

LEMMA FoundIs ==
    ASSUME DashInv, NEW t \in Threads \cup Refreshers, NEW ret, Loaded(t, ret)
    PROVE  /\ Found(t) \in Covers /\ Found(t).gap = threads[t].gap
           /\ Found(t).seen = threads[t].seen /\ threads[t].gap \in Nat
           /\ threads[t].pc = "look" /\ threads[t].ret = ret
           /\ threads[t].mark \in Marks \cup {<<>>}
           /\ ret \in {"publish", "replace"} =>
                KeptOK(logs, outside.gone, outside.now, threads[t].seen, threads[t].mark)
<1>1. threads[t] \in ThreadStates /\ ThreadOK(logs, outside.gone, outside.now, threads[t])
  BY DEF DashInv, ReadersInv
<1>2. threads[t].pc = "look" /\ threads[t].ret = ret /\ threads[t].next = {}
  BY DEF Loaded, At
<1>3. ret \in {"publish", "replace"} =>
        KeptOK(logs, outside.gone, outside.now, threads[t].seen, threads[t].mark)
  BY <1>1, <1>2 DEF ThreadOK, ReadOK, KeptOK, Loading
<1> QED
  BY <1>1, <1>2, <1>3 DEF Found, Covers, ThreadStates

-----------------------------------------------------------------------------
(* The requests' steps.                                                    *)

\* A request reads the logs for itself, or for others too.
LEMMA RequestLoads ==
    ASSUME DashInv, NEW t \in Threads, threads[t].asks # <<>>,
           NEW ret \in {"install", "direct", "publish"},
           ret = "publish" =>
             /\ Marked(threads[t].mark, outside.now) /\ Signed(logs, outside.gone, threads[t].mark)
             /\ Ask(t).op \in {"watch", "warm"},
           NEW new, new = LoadFor(threads[t], Ask(t).gap, ret)
    PROVE  /\ new \in ThreadStates /\ ThreadOK(logs, outside.gone, outside.now, new)
           /\ RequestOK(new) /\ new.pc = "look" /\ new.ret = ret /\ new.asks = threads[t].asks
           /\ \A c : GenOK(c, new)
<1> DEFINE th == threads[t]
<1>1. WorldInv /\ th \in ThreadStates
  BY DEF DashInv, ReadersInv
<1>2. PICK gap : gap = Ask(t).gap /\ gap \in Nat
  BY AskIs DEF DashInv
<1>3. Ask(t) = AskOf(th) /\ new = LoadFor(th, gap, ret)
  BY <1>2, AskIs DEF DashInv
<1> HIDE DEF th
<1>4. ThreadOK(logs, outside.gone, outside.now, new)
  BY <1>1, <1>3, LoadIsOK DEF th
<1>5. new \in ThreadStates
  BY <1>1, <1>2, <1>3, LoadForTypes
<1>6. new.pc = "look" /\ new.gap = gap /\ new.ret = ret /\ new.asks = th.asks
  BY <1>1, <1>3, LoadForIs
<1>7. RequestOK(new)
  BY <1>2, <1>3, <1>6 DEF RequestOK, Shares, AskOf, Loading, th
<1> QED
  BY <1>4, <1>5, <1>6, <1>7 DEF GenOK, th

LEMMA EnsureBlocksKeeps == ASSUME DashInv, NEW t \in Threads, EnsureBlocks(t) PROVE DashInv'
<1> DEFINE new == LoadFor(threads[t], Ask(t).gap, "install")
<1>0. /\ threads[t].asks # <<>> /\ Step(t, new)
      /\ cache' = [cache EXCEPT !.refreshing = TRUE]
      /\ UNCHANGED <<work, logs, outside, rows, flight, page>>
  BY DEF EnsureBlocks, Asks
<1>1. Quiet /\ cache \in CacheStates
  BY <1>0, QuietUnchanged DEF DashInv, StoreInv
<1> HIDE DEF new
<1>2. /\ new \in ThreadStates /\ ThreadOK(logs, outside.gone, outside.now, new)
      /\ RequestOK(new) /\ new.pc = "look" /\ new.ret = "install" /\ GenOK(cache', new)
  <2>1. new = LoadFor(threads[t], Ask(t).gap, "install")
    BY DEF new
  <2> QED
    BY <1>0, <2>1, RequestLoads
<1>3. PageOK(new, page[t])
  BY <1>2, PageAlone DEF Streaming, Shares
<1>5. /\ cache' \in CacheStates /\ cache'.gen = cache.gen /\ cache'.cover = cache.cover
      /\ cache'.has = cache.has /\ cache'.mark = cache.mark /\ cache'.missed = cache.missed
      /\ cache'.derived = cache.derived /\ cache'.lineage = cache.lineage
  BY <1>0, <1>1 DEF CacheStates
<1>6. StoreInv'
  BY <1>1, <1>5 DEF DashInv, StoreInv, StoredOK, CacheOK, Quiet
<1>8. ReadersInv' /\ RequestsInv' /\ RefreshersInv'
  BY <1>0, <1>1, <1>2, <1>3, <1>5, GenStands, MoveAlone
<1> QED
  BY <1>0, <1>1, <1>6, <1>8, QuietWorld, QuietRows, QuietFlight DEF DashInv

\* What is kept already, or a placeholder.
LEMMA KeptIsOK ==
    ASSUME DashInv, NEW gap \in Nat, NEW c, NEW r \in BOOLEAN,
           \/ c = [cache EXCEPT !.refreshing = r]
           \/ c = [Placeholder(cache, gap) EXCEPT !.refreshing = r]
    PROVE  /\ c \in CacheStates /\ StoredOK(logs, outside.gone, outside.now, c)
           /\ \A u \in Threads : GenOK(c, threads[u])
<1>1. cache \in CacheStates /\ StoredOK(logs, outside.gone, outside.now, cache) /\ ReadersInv
  BY DEF DashInv, StoreInv
<1>2. CASE c = [cache EXCEPT !.refreshing = r]
  <2>1. /\ c \in CacheStates /\ c.gen = cache.gen /\ c.cover = cache.cover
        /\ c.has = cache.has /\ c.mark = cache.mark /\ c.missed = cache.missed
        /\ c.derived = cache.derived /\ c.lineage = cache.lineage
    BY <1>1, <1>2 DEF CacheStates
  <2>2. \A u \in Threads : GenOK(c, threads[u])
    BY <2>1 DEF DashInv, RequestsInv, GenOK
  <2> QED
    BY <1>1, <2>1, <2>2 DEF StoredOK, CacheOK
<1>3. CASE c = [Placeholder(cache, gap) EXCEPT !.refreshing = r]
  <2> DEFINE cover == [gap |-> gap, seen |-> Nothing]
             p == Installed(cache, gap, cover, <<>>)
  <2>1. cover \in Covers /\ cover.gap = gap
    BY NothingTypes DEF Covers
  <2>2. p = Placeholder(cache, gap)
    BY DEF Placeholder
  <2> HIDE DEF cover
  <2>3. <<>> \in Marks \cup {<<>>}
    OBVIOUS
  <2>4. /\ p \in CacheStates /\ p.has /\ p.lineage = gap /\ p.cover = cover /\ p.mark = <<>>
        /\ p.gen = NextGeneration /\ p.derived.gen = 0
    <3> HIDE DEF p
    <3>1. p = Installed(cache, gap, cover, <<>>)
      BY DEF p
    <3> QED
      BY <1>1, <2>1, <2>3, <3>1, InstalledIs
  <2> HIDE DEF p
  <2>5. /\ c \in CacheStates /\ c.has /\ c.lineage = gap /\ c.cover = cover /\ c.mark = <<>>
        /\ c.gen = NextGeneration /\ c.derived.gen = 0
    BY <1>3, <2>2, <2>4 DEF CacheStates
  <2>6. NextGeneration # 0
    BY <1>1, GenerationIsNew DEF ReadersInv, CacheStates
  <2> QED
    BY <2>1, <2>5, <2>6, GenIsNew DEF StoredOK, CacheOK
<1> QED
  BY <1>2, <1>3

LEMMA ReadNext ==
    ASSUME DashInv, NEW t \in Threads, threads[t].pc = "ask", threads[t].asks # <<>>, NEW new,
           new = [threads[t] EXCEPT !.pc = "read"]
    PROVE  /\ new \in ThreadStates /\ ThreadOK(logs, outside.gone, outside.now, new)
           /\ RequestOK(new) /\ PageOK(new, page[t]) /\ \A c : GenOK(c, new)
<1>1. threads[t] \in ThreadStates
  BY DEF DashInv, ReadersInv
<1>2. new \in ThreadStates /\ new.pc = "read" /\ new.asks = threads[t].asks
  BY <1>1 DEF ThreadStates, Places
<1>3. ThreadOK(logs, outside.gone, outside.now, new)
  BY <1>2, IdleIsOK DEF Loading
<1>4. RequestOK(new) /\ ~Streaming(new) /\ \A c : GenOK(c, new)
  BY <1>2 DEF RequestOK, Streaming, Shares, Loading, GenOK
<1> QED
  BY <1>2, <1>3, <1>4, PageAlone

LEMMA EnsuresKeeps == ASSUME DashInv, NEW t \in Threads, Ensures(t) PROVE DashInv'
<1> DEFINE kept == IF cache.has THEN cache ELSE Placeholder(cache, Ask(t).gap)
           new == [threads[t] EXCEPT !.pc = "read"]
<1>0. /\ threads[t].pc = "ask" /\ threads[t].asks # <<>>
      /\ UNCHANGED <<work, logs, outside, rows, flight, page>>
  BY DEF Ensures, At, Asks
<1>1. Quiet /\ WorldInv /\ cache \in CacheStates
  BY <1>0, QuietUnchanged DEF DashInv, StoreInv
<1>2. Ask(t).gap \in Nat
  BY <1>0, AskIs DEF DashInv
<1>3. kept \in CacheStates /\ [kept EXCEPT !.refreshing = kept.refreshing] = kept
  <2>1. /\ [cache EXCEPT !.refreshing = cache.refreshing] = cache
        /\ cache.refreshing \in BOOLEAN
    BY <1>1 DEF CacheStates
  <2> DEFINE p == Placeholder(cache, Ask(t).gap)
  <2>2. p \in CacheStates
    <3>1. [gap |-> Ask(t).gap, seen |-> Nothing] \in Covers
      BY <1>2, NothingTypes DEF Covers
    <3>2. <<>> \in Marks \cup {<<>>}
      OBVIOUS
    <3> QED
      BY <1>1, <1>2, <3>1, <3>2, InstalledIs DEF Placeholder, DashInv
  <2> HIDE DEF p
  <2>3. [p EXCEPT !.refreshing = p.refreshing] = p
    BY <2>2 DEF CacheStates
  <2> QED
    BY <1>1, <2>1, <2>2, <2>3 DEF p
<1>4. kept.refreshing \in BOOLEAN
  BY <1>3 DEF CacheStates
<1>5. \A r \in BOOLEAN :
        /\ [kept EXCEPT !.refreshing = r] \in CacheStates
        /\ StoredOK(logs, outside.gone, outside.now, [kept EXCEPT !.refreshing = r])
        /\ \A u \in Threads : GenOK([kept EXCEPT !.refreshing = r], threads[u])
  BY <1>2, KeptIsOK
<1>6. /\ new \in ThreadStates /\ ThreadOK(logs, outside.gone, outside.now, new)
      /\ RequestOK(new) /\ PageOK(new, page[t]) /\ GenOK(cache', new)
  BY <1>0, ReadNext
<1>7. \/ cache' = kept /\ Step(t, new)
      \/ /\ cache' = [kept EXCEPT !.refreshing = TRUE]
         /\ \E b \in Refreshers :
              /\ At(b, "off")
              /\ threads' = [threads EXCEPT ![t].pc = "read", ![b].pc = "refresh", ![b].gap = Ask(t).gap]
  BY DEF Ensures
<1>8. \E r \in BOOLEAN : cache' = [kept EXCEPT !.refreshing = r]
  <2> HIDE DEF kept
  <2> QED
    BY <1>3, <1>4, <1>7
<1>9. PICK r \in BOOLEAN : cache' = [kept EXCEPT !.refreshing = r]
  BY <1>8
<1>10. StoreInv' /\ \A u \in Threads : GenOK(cache', threads[u])
  BY <1>1, <1>5, <1>9 DEF StoreInv, Quiet
<1> HIDE DEF new, kept
<1>11. ASSUME Step(t, new) PROVE ReadersInv' /\ RequestsInv' /\ RefreshersInv'
  BY <1>0, <1>1, <1>6, <1>10, <1>11, MoveAlone
<1>12. ASSUME NEW b \in Refreshers, At(b, "off"),
              threads' = [threads EXCEPT ![t].pc = "read", ![b].pc = "refresh", ![b].gap = Ask(t).gap]
       PROVE  ReadersInv' /\ RequestsInv' /\ RefreshersInv'
  <2> DEFINE more == [threads[b] EXCEPT !.pc = "refresh", !.gap = Ask(t).gap]
  <2>1. b \notin Threads /\ t # b /\ t \notin Refreshers
    BY DashboardAssumption
  <2>2. threads \in [Threads \cup Refreshers -> ThreadStates] /\ threads[b] \in ThreadStates
    BY DEF DashInv, ReadersInv
  <2>3. threads' = [u \in Threads \cup Refreshers |->
                      IF u = t THEN new ELSE IF u = b THEN more ELSE threads[u]]
    BY <1>12, <2>1, <2>2 DEF new, ThreadStates
  <2>4. more \in ThreadStates /\ more.pc = "refresh"
    BY <1>2, <2>2 DEF ThreadStates, Places
  <2>5. ThreadOK(logs, outside.gone, outside.now, more) /\ RefresherOK(more)
    BY <2>4, IdleIsOK DEF RefresherOK, Loading
  <2> HIDE DEF more
  <2>6. ReadersInv'
    BY <1>1, <1>6, <2>3, <2>4, <2>5 DEF DashInv, ReadersInv, Quiet
  <2>7. \A u \in Threads : threads'[u] = IF u = t THEN new ELSE threads[u]
    BY <2>1, <2>3
  <2>8. \A u \in Refreshers : threads'[u] = IF u = b THEN more ELSE threads[u]
    BY <2>1, <2>3
  <2>9. RequestsInv'
    BY <1>0, <1>6, <1>10, <2>7 DEF DashInv, RequestsInv
  <2>10. RefreshersInv'
    BY <2>5, <2>8 DEF DashInv, RefreshersInv
  <2> QED
    BY <2>6, <2>9, <2>10
<1>13. ReadersInv' /\ RequestsInv' /\ RefreshersInv'
  BY <1>7, <1>11, <1>12
<1> QED
  BY <1>0, <1>1, <1>10, <1>13, QuietWorld, QuietRows, QuietFlight DEF DashInv

LEMMA InstallKeeps == ASSUME DashInv, NEW t \in Threads, Install(t) PROVE DashInv'
<1> DEFINE new == Back(t, "read")
           c == Installed(cache, threads[t].gap, Found(t), Fingerprint)
<1>0. /\ Loaded(t, "install") /\ Step(t, new)
      /\ cache' = [c EXCEPT !.refreshing = FALSE, !.missed = Found(t).seen # Current]
      /\ UNCHANGED <<work, logs, outside, flight, page>>
  BY DEF Install
<1>1. Quiet /\ WorldInv /\ cache \in CacheStates /\ ReadersInv
  BY <1>0, QuietUnchanged DEF DashInv, StoreInv
<1>2. /\ Found(t) \in Covers /\ Found(t).gap = threads[t].gap /\ threads[t].gap \in Nat
      /\ threads[t].pc = "look" /\ threads[t].ret = "install"
  BY <1>0, FoundIs
<1>3. Fingerprint \in Marks
  BY <1>1, MarkTypes DEF Marks
<1>4. /\ c \in CacheStates /\ c.has /\ c.lineage = threads[t].gap /\ c.cover = Found(t)
      /\ c.mark = Fingerprint /\ c.gen = NextGeneration /\ c.derived.gen = 0
  <2> DEFINE gap == threads[t].gap
             cover == Found(t)
             mark == Fingerprint
  <2>1. c = Installed(cache, gap, cover, mark) /\ gap \in Nat /\ cover \in Covers /\ mark \in Marks
    BY <1>2, <1>3
  <2> HIDE DEF c, gap, cover, mark
  <2>2. /\ c \in CacheStates /\ c.has /\ c.lineage = gap /\ c.cover = cover
        /\ c.mark = mark /\ c.gen = NextGeneration /\ c.derived.gen = 0
    BY <1>1, <2>1, InstalledIs
  <2> QED
    BY <2>2 DEF gap, cover, mark
<1> HIDE DEF c
<1>5. /\ cache' \in CacheStates /\ cache'.has /\ cache'.lineage = threads[t].gap
      /\ cache'.cover = Found(t) /\ cache'.mark = Fingerprint /\ cache'.gen = NextGeneration
      /\ cache'.derived.gen = 0 /\ cache'.missed = (Found(t).seen # Current)
  BY <1>0, <1>4 DEF CacheStates
<1>6. ~cache'.missed => KeptOK(logs, outside.gone, outside.now, cache'.cover.seen, cache'.mark)
  <2> SUFFICES ASSUME Found(t).seen = Current
               PROVE  KeptOK(logs, outside.gone, outside.now, Current, Fingerprint)
    BY <1>5
  <2>1. Marked(Fingerprint, outside.now)
    BY <1>1, <1>3, MarkTypes, SignedNowHere
  <2>2. Faithful(logs, outside.gone, {}, Current, Fingerprint)
    BY <1>1, MarkTypes, PresentTypes, HereIsPresent, FaithfulNow
  <2> QED
    BY <2>1, <2>2 DEF KeptOK
<1>7. NextGeneration # 0
  BY <1>1, GenerationIsNew DEF ReadersInv, CacheStates
<1>8. StoreInv'
  BY <1>1, <1>2, <1>5, <1>6, <1>7 DEF StoreInv, StoredOK, CacheOK, Quiet
<1>9. /\ new \in ThreadStates /\ new.pc = "read" /\ new.asks = threads[t].asks
  BY <1>1, BackIs DEF Places
<1>10. threads[t].asks # <<>>
  BY <1>2 DEF DashInv, RequestsInv, RequestOK
<1> HIDE DEF new
<1>11. ThreadOK(logs, outside.gone, outside.now, new)
  BY <1>9, IdleIsOK DEF Loading
<1>12. RequestOK(new) /\ ~Streaming(new) /\ GenOK(cache', new)
  BY <1>9, <1>10 DEF RequestOK, Streaming, Shares, Loading, GenOK
<1>13. \A u \in Threads : GenOK(cache', threads[u])
  BY <1>5, GenIsNew
<1>14. ReadersInv' /\ RequestsInv' /\ RefreshersInv'
  BY <1>0, <1>1, <1>9, <1>11, <1>12, <1>13, PageAlone, MoveAlone
<1> QED
  BY <1>0, <1>1, <1>8, <1>14, LoadedRows, QuietWorld, QuietFlight DEF DashInv

\* The page is answered.
LEMMA AnswerKeeps ==
    ASSUME DashInv, Quiet, NEW t \in Threads, threads[t].asks # <<>>, NEW cover \in Covers,
           cover.gap = Ask(t).gap, Answer(t, cover),
           \A u \in Threads : GenOK(cache', threads[u])
    PROVE  ReadersInv' /\ RequestsInv' /\ RefreshersInv'
<1> DEFINE new == Done(t)
           pg == [page[t] EXCEPT !.op = Ask(t).op, !.gap = Ask(t).gap, !.shown = cover]
<1>1. Step(t, new)
  BY DEF Answer
<1>2. new \in ThreadStates /\ new.pc = "ask" /\ Ask(t).op \in Ops /\ Ask(t).gap \in Nat
  BY DoneIs, AskIs DEF DashInv
<1>3. page \in [Threads -> PageStates] /\ page[t] \in PageStates
  BY DEF DashInv, RequestsInv
<1>4. page' = [page EXCEPT ![t] = pg]
  BY <1>3 DEF Answer, PageStates
<1>5. pg \in PageStates /\ pg.shown = cover /\ pg.gap = Ask(t).gap
  BY <1>2, <1>3 DEF PageStates
<1> HIDE DEF new, pg
<1>6. ThreadOK(logs, outside.gone, outside.now, new)
  BY <1>2, IdleIsOK DEF Loading
<1>7. RequestOK(new) /\ ~Streaming(new) /\ GenOK(cache', new)
  BY <1>2 DEF RequestOK, Streaming, Shares, Loading, GenOK
<1>8. PageOK(new, pg)
  BY <1>5, <1>7 DEF PageOK
<1> QED
  BY <1>1, <1>2, <1>4, <1>5, <1>6, <1>7, <1>8, MoveKeeps

LEMMA GoesOnKeeps ==
    ASSUME DashInv, Quiet, cache' = cache, NEW t \in Threads, threads[t].asks # <<>>,
           NEW cover \in Covers, cover.gap = Ask(t).gap, NEW gen \in Int, gen # 0,
           gen = cache.gen => cover = cache.cover, GoesOn(t, cover, gen)
    PROVE  ReadersInv' /\ RequestsInv' /\ RefreshersInv'
<1>1. \A u \in Threads : GenOK(cache', threads[u])
  BY GenStands
<1>2. CASE Ask(t).op # "stats"
  BY <1>1, <1>2, AnswerKeeps DEF GoesOn
<1>3. CASE Ask(t).op = "stats"
  <2> DEFINE back == Back(t, "derive")
             new == [back EXCEPT !.got = cover, !.gen = gen]
  <2>1. Step(t, new) /\ page' = page
    BY <1>3 DEF GoesOn
  <2>2. back \in ThreadStates /\ back.pc = "derive" /\ back.asks = threads[t].asks
    BY BackIs DEF DashInv, Places
  <2> HIDE DEF back
  <2>3. /\ new \in ThreadStates /\ new.pc = "derive" /\ new.asks = threads[t].asks
        /\ new.got = cover /\ new.gen = gen
    BY <2>2 DEF ThreadStates
  <2> HIDE DEF new
  <2>4. ThreadOK(logs, outside.gone, outside.now, new)
    BY <2>3, IdleIsOK DEF Loading
  <2>5. Ask(t) = AskOf(threads[t])
    BY AskIs DEF DashInv
  <2>6. RequestOK(new) /\ ~Streaming(new) /\ GenOK(cache', new)
    BY <2>3, <2>5 DEF RequestOK, Streaming, Shares, Loading, GenOK, AskOf
  <2> QED
    BY <1>1, <2>1, <2>3, <2>4, <2>6, PageAlone, MoveAlone
<1> QED
  BY <1>2, <1>3

LEMMA ReadCacheKeeps == ASSUME DashInv, NEW t \in Threads, ReadCache(t) PROVE DashInv'
<1>0. threads[t].pc = "read" /\ UNCHANGED <<work, logs, outside, rows, flight, cache>>
  BY DEF ReadCache, At
<1>1. Quiet /\ WorldInv /\ cache \in CacheStates /\ CacheOK(cache)
  BY <1>0, QuietUnchanged DEF DashInv, StoreInv, StoredOK
<1>2. threads[t].asks # <<>>
  BY <1>0 DEF DashInv, RequestsInv, RequestOK
<1>3. ASSUME IsFor(cache, Ask(t).gap), GoesOn(t, cache.cover, cache.gen)
      PROVE  ReadersInv' /\ RequestsInv' /\ RefreshersInv'
  <2>1. /\ cache.cover \in Covers /\ cache.cover.gap = Ask(t).gap /\ cache.gen \in Int
        /\ cache.gen # 0
    BY <1>1, <1>3 DEF CacheStates, CacheOK, IsFor
  <2> QED
    BY <1>0, <1>1, <1>2, <1>3, <2>1, GoesOnKeeps
<1>4. ASSUME Step(t, [Back(t, "ask") EXCEPT !.tries = threads[t].tries + 1]), page' = page
      PROVE  ReadersInv' /\ RequestsInv' /\ RefreshersInv'
  <2> DEFINE back == Back(t, "ask")
  <2>1. threads[t].tries \in Nat
    BY DEF DashInv, ReadersInv, ThreadStates
  <2>0. PICK tries \in Nat : tries = threads[t].tries + 1
    BY <2>1
  <2> DEFINE new == [back EXCEPT !.tries = tries]
  <2>2. back \in ThreadStates /\ back.pc = "ask" /\ back.asks = threads[t].asks
    BY BackIs DEF DashInv, Places
  <2>3. Step(t, new)
    BY <1>4, <2>0
  <2> HIDE DEF back
  <2>4. new \in ThreadStates /\ new.pc = "ask" /\ new.asks = threads[t].asks
    BY <2>2 DEF ThreadStates
  <2> HIDE DEF new
  <2>5. ThreadOK(logs, outside.gone, outside.now, new)
    BY <2>4, IdleIsOK DEF Loading
  <2>6. RequestOK(new) /\ ~Streaming(new) /\ GenOK(cache', new)
    BY <2>4 DEF RequestOK, Streaming, Shares, Loading, GenOK
  <2> QED
    BY <1>0, <1>1, <1>4, <2>3, <2>4, <2>5, <2>6, GenStands, PageAlone, MoveAlone
<1>5. ASSUME Step(t, LoadFor(threads[t], Ask(t).gap, "direct")), page' = page
      PROVE  ReadersInv' /\ RequestsInv' /\ RefreshersInv'
  <2>1. PICK new : new = LoadFor(threads[t], Ask(t).gap, "direct")
    OBVIOUS
  <2>2. /\ new \in ThreadStates /\ ThreadOK(logs, outside.gone, outside.now, new)
        /\ RequestOK(new) /\ new.pc = "look" /\ new.ret = "direct" /\ GenOK(cache', new)
    BY <1>2, <2>1, RequestLoads
  <2>3. PageOK(new, page[t])
    BY <2>2, PageAlone DEF Streaming, Shares
  <2> QED
    BY <1>0, <1>1, <1>5, <2>1, <2>2, <2>3, GenStands, MoveAlone
<1>6. \/ IsFor(cache, Ask(t).gap) /\ GoesOn(t, cache.cover, cache.gen)
      \/ Step(t, [Back(t, "ask") EXCEPT !.tries = Back(t, "ask").tries + 1]) /\ page' = page
      \/ Step(t, LoadFor(threads[t], Ask(t).gap, "direct")) /\ page' = page
  BY DEF ReadCache
<1>7. Back(t, "ask").tries = threads[t].tries
  <2>1. NoThread \in ThreadStates
    BY NothingTypes
  <2> QED
    BY <2>1 DEF Back, ThreadStates
<1>8. ReadersInv' /\ RequestsInv' /\ RefreshersInv'
  BY <1>3, <1>4, <1>5, <1>6, <1>7
<1> QED
  BY <1>0, <1>1, <1>8, QuietWorld, QuietRows, QuietFlight, QuietStore DEF DashInv

LEMMA DirectKeeps == ASSUME DashInv, NEW t \in Threads, Direct(t) PROVE DashInv'
<1>0. /\ Loaded(t, "direct") /\ GoesOn(t, Found(t), Absent)
      /\ UNCHANGED <<work, logs, outside, flight, cache>>
  BY DEF Direct
<1>1. Quiet /\ cache.gen \in Nat
  BY <1>0, QuietUnchanged DEF DashInv, StoreInv, CacheStates
<1>2. /\ Found(t) \in Covers /\ Found(t).gap = threads[t].gap
      /\ threads[t].pc = "look" /\ threads[t].ret = "direct"
  BY <1>0, FoundIs
<1>3. threads[t].asks # <<>> /\ threads[t].gap = AskOf(threads[t]).gap
  BY <1>2 DEF DashInv, RequestsInv, RequestOK, Loading
<1>4. Ask(t) = AskOf(threads[t])
  BY <1>3, AskIs DEF DashInv
<1>5. Absent \in Int /\ Absent # 0 /\ Absent # cache.gen
  BY <1>1 DEF Absent
<1>6. PICK cover \in Covers : cover = Found(t)
  BY <1>2
<1>7. PICK gen \in Int : gen = Absent
  BY <1>5
<1>8. cover.gap = Ask(t).gap /\ gen # 0 /\ gen # cache.gen /\ GoesOn(t, cover, gen)
  BY <1>0, <1>2, <1>3, <1>4, <1>5, <1>6, <1>7
<1>9. ReadersInv' /\ RequestsInv' /\ RefreshersInv'
  BY <1>0, <1>1, <1>3, <1>8, GoesOnKeeps
<1> QED
  BY <1>0, <1>1, <1>9, LoadedRows, QuietWorld, QuietFlight, QuietStore DEF DashInv

LEMMA DeriveKeeps == ASSUME DashInv, NEW t \in Threads, Derive(t) PROVE DashInv'
<1>0. threads[t].pc = "derive" /\ UNCHANGED <<work, logs, outside, rows, flight, cache>>
  BY DEF Derive, At
<1>1. Quiet /\ cache \in CacheStates /\ CacheOK(cache) /\ threads[t] \in ThreadStates
  BY <1>0, QuietUnchanged DEF DashInv, StoreInv, StoredOK, ReadersInv
<1>2. RequestOK(threads[t]) /\ GenOK(cache, threads[t])
  BY DEF DashInv, RequestsInv
<1>3. threads[t].asks # <<>> /\ threads[t].got.gap = AskOf(threads[t]).gap /\ threads[t].gen # 0
  BY <1>0, <1>2 DEF RequestOK
<1>4. Ask(t) = AskOf(threads[t])
  BY <1>3, AskIs DEF DashInv
<1>5. \A u \in Threads : GenOK(cache', threads[u])
  BY <1>0, GenStands
<1>6. ASSUME cache.derived.gen = threads[t].gen, Answer(t, cache.derived.cover)
      PROVE  ReadersInv' /\ RequestsInv' /\ RefreshersInv'
  <2>1. cache.derived.cover = threads[t].got
    BY <1>0, <1>1, <1>2, <1>3, <1>6 DEF CacheOK, GenOK
  <2>2. threads[t].got \in Covers
    BY <1>1 DEF ThreadStates
  <2> QED
    BY <1>1, <1>3, <1>4, <1>5, <1>6, <2>1, <2>2, AnswerKeeps
<1>7. ASSUME Step(t, [threads[t] EXCEPT !.pc = "memo"]), page' = page
      PROVE  ReadersInv' /\ RequestsInv' /\ RefreshersInv'
  <2> DEFINE new == [threads[t] EXCEPT !.pc = "memo"]
  <2>1. /\ new \in ThreadStates /\ new.pc = "memo" /\ new.asks = threads[t].asks
        /\ new.got = threads[t].got /\ new.gen = threads[t].gen /\ Step(t, new)
    BY <1>1, <1>7 DEF ThreadStates, Places
  <2> HIDE DEF new
  <2>2. ThreadOK(logs, outside.gone, outside.now, new)
    BY <2>1, IdleIsOK DEF Loading
  <2>3. RequestOK(new) /\ ~Streaming(new)
    BY <1>3, <2>1 DEF RequestOK, Streaming, Shares, Loading, AskOf
  <2>4. GenOK(cache', new)
    BY <1>0, <1>2, <2>1 DEF GenOK
  <2> QED
    BY <1>1, <1>5, <1>7, <2>1, <2>2, <2>3, <2>4, PageAlone, MoveAlone
<1>8. ReadersInv' /\ RequestsInv' /\ RefreshersInv'
  BY <1>6, <1>7 DEF Derive
<1> QED
  BY <1>0, <1>1, <1>8, QuietWorld, QuietRows, QuietFlight, QuietStore DEF DashInv

LEMMA MemoKeeps == ASSUME DashInv, NEW t \in Threads, Memo(t) PROVE DashInv'
<1>0. /\ threads[t].pc = "memo" /\ Answer(t, threads[t].got)
      /\ UNCHANGED <<work, logs, outside, rows, flight>>
      /\ cache' = IF cache.gen = threads[t].gen
                  THEN [cache EXCEPT !.derived = [gen |-> cache.gen, cover |-> threads[t].got]]
                  ELSE cache
  BY DEF Memo, At
<1>1. Quiet /\ cache \in CacheStates /\ threads[t] \in ThreadStates
  BY <1>0, QuietUnchanged DEF DashInv, StoreInv, ReadersInv
<1>2. RequestOK(threads[t]) /\ GenOK(cache, threads[t])
  BY DEF DashInv, RequestsInv
<1>3. /\ threads[t].asks # <<>> /\ threads[t].got.gap = AskOf(threads[t]).gap
      /\ threads[t].got \in Covers
  BY <1>0, <1>1, <1>2 DEF RequestOK, ThreadStates
<1>4. Ask(t) = AskOf(threads[t])
  BY <1>3, AskIs DEF DashInv
<1>5. /\ cache' \in CacheStates /\ cache'.gen = cache.gen /\ cache'.cover = cache.cover
      /\ cache'.has = cache.has /\ cache'.mark = cache.mark /\ cache'.missed = cache.missed
      /\ cache'.lineage = cache.lineage
      /\ \/ cache'.derived = cache.derived
         \/ cache.gen = threads[t].gen /\ cache'.derived = [gen |-> cache.gen, cover |-> threads[t].got]
  BY <1>0, <1>1, <1>3 DEF CacheStates
<1>6. cache.gen = threads[t].gen => threads[t].got = cache.cover
  BY <1>0, <1>2 DEF GenOK
<1>7. StoreInv'
  BY <1>1, <1>5, <1>6 DEF DashInv, StoreInv, StoredOK, CacheOK, Quiet
<1>8. ReadersInv' /\ RequestsInv' /\ RefreshersInv'
  BY <1>0, <1>1, <1>3, <1>4, <1>5, GenStands, AnswerKeeps
<1> QED
  BY <1>0, <1>1, <1>7, <1>8, QuietWorld, QuietRows, QuietFlight DEF DashInv

-----------------------------------------------------------------------------
(* The refreshes' steps.                                                   *)

LEMMA RefreshKeeps == ASSUME DashInv, NEW b \in Refreshers, Refresh(b) PROVE DashInv'
<1>0. /\ threads[b].pc = "refresh"
      /\ Step(b, [LoadFor(threads[b], threads[b].gap, "replace") EXCEPT !.mark = Fingerprint])
      /\ UNCHANGED <<work, logs, outside, rows, flight, cache, page>>
  BY DEF Refresh, At
<1>1. Quiet /\ WorldInv /\ ReadersInv /\ threads[b] \in ThreadStates
  BY <1>0, QuietUnchanged DEF DashInv, ReadersInv
<1>2. PICK load : load = LoadFor(threads[b], threads[b].gap, "replace")
  OBVIOUS
<1>3. threads[b].gap \in Nat
  BY <1>1 DEF ThreadStates
<1>4. load \in ThreadStates
  BY <1>1, <1>2, <1>3, LoadForTypes
<1>5. load.pc = "look" /\ load.ret = "replace" /\ load.next = Present /\ load.seen = Nothing
  BY <1>1, <1>2, LoadForIs
<1>6. PICK mark \in Marks : mark = Fingerprint
  BY <1>1, MarkTypes DEF Marks
<1>7. /\ Marked(mark, outside.now)
      /\ Faithful(logs, outside.gone, Present, Nothing, mark)
  BY <1>1, <1>6, MarkTypes, SignedNowHere
<1> DEFINE new == [load EXCEPT !.mark = mark]
<1>8. /\ new \in ThreadStates /\ new.pc = "look" /\ new.ret = "replace" /\ new.next = Present
      /\ new.seen = Nothing /\ new.mark = mark
  BY <1>4, <1>5 DEF ThreadStates
<1>9. Step(b, new)
  BY <1>0, <1>2, <1>6
<1> HIDE DEF new
<1>10. ThreadOK(logs, outside.gone, outside.now, new)
  <2>1. ListOK(logs, new)
    BY <1>1, <1>8, PresentTypes DEF ListOK
  <2>2. StampOK(logs, outside.gone, new) /\ SignOK(logs, outside.gone, outside.now, new)
    BY <1>8 DEF StampOK, SignOK
  <2>3. ReadOK(logs, outside.gone, outside.now, new)
    BY <1>7, <1>8 DEF ReadOK
  <2> QED
    BY <2>1, <2>2, <2>3 DEF ThreadOK
<1>11. RefresherOK(new)
  BY <1>8 DEF RefresherOK, Loading
<1>12. ReadersInv'
  BY <1>1, <1>8, <1>9, <1>10, ReadersStep
<1>13. \A u \in Threads : GenOK(cache', threads[u])
  BY <1>0, GenStands
<1>14. RequestsInv' /\ RefreshersInv'
  BY <1>0, <1>1, <1>9, <1>11, <1>13, RefresherSteps DEF DashInv
<1> QED
  BY <1>0, <1>1, <1>12, <1>14, QuietWorld, QuietRows, QuietFlight, QuietStore DEF DashInv

LEMMA ReplaceKeeps == ASSUME DashInv, NEW b \in Refreshers, Replace(b) PROVE DashInv'
<1> DEFINE kept == IF cache.lineage = threads[b].gap
                   THEN Installed(cache, threads[b].gap, Found(b), threads[b].mark) ELSE cache
<1>0. /\ Loaded(b, "replace") /\ Step(b, NoThread)
      /\ cache' = [kept EXCEPT !.refreshing = FALSE]
      /\ UNCHANGED <<work, logs, outside, flight, page>>
  BY DEF Replace
<1>1. Quiet /\ WorldInv /\ ReadersInv /\ cache \in CacheStates
  BY <1>0, QuietUnchanged DEF DashInv, StoreInv
<1>2. StoreInv' /\ \A u \in Threads : GenOK(cache', threads[u])
  <2>1. CASE cache.lineage # threads[b].gap
    <3>1. /\ cache' \in CacheStates /\ cache'.gen = cache.gen /\ cache'.cover = cache.cover
          /\ cache'.has = cache.has /\ cache'.mark = cache.mark /\ cache'.missed = cache.missed
          /\ cache'.derived = cache.derived /\ cache'.lineage = cache.lineage
      BY <1>0, <1>1, <2>1 DEF CacheStates
    <3> QED
      BY <1>1, <3>1, GenStands DEF DashInv, StoreInv, StoredOK, CacheOK, Quiet
  <2>2. CASE cache.lineage = threads[b].gap
    <3>1. /\ Found(b) \in Covers /\ Found(b).gap = threads[b].gap /\ threads[b].gap \in Nat
          /\ Found(b).seen = threads[b].seen /\ threads[b].mark \in Marks \cup {<<>>}
          /\ KeptOK(logs, outside.gone, outside.now, threads[b].seen, threads[b].mark)
      BY <1>0, FoundIs
    <3>2. PICK gap \in Nat : gap = threads[b].gap
      BY <3>1
    <3>3. PICK cover \in Covers : cover = Found(b)
      BY <3>1
    <3>4. PICK mark \in Marks \cup {<<>>} : mark = threads[b].mark
      BY <3>1
    <3> DEFINE c == Installed(cache, gap, cover, mark)
    <3>5. c \in CacheStates
      BY <1>1, InstalledIs
    <3>6. /\ c.has /\ c.lineage = gap /\ c.cover = cover /\ c.mark = mark
          /\ c.gen = NextGeneration /\ c.derived.gen = 0
      BY <1>1, InstalledIs
    <3>7. cache' = [c EXCEPT !.refreshing = FALSE]
      BY <1>0, <2>2, <3>2, <3>3, <3>4
    <3> HIDE DEF c
    <3>8. /\ cache' \in CacheStates /\ cache'.has /\ cache'.lineage = gap /\ cache'.cover = cover
          /\ cache'.mark = mark /\ cache'.gen = NextGeneration /\ cache'.derived.gen = 0
      BY <3>5, <3>6, <3>7 DEF CacheStates
    <3>9. NextGeneration # 0
      BY <1>1, GenerationIsNew DEF ReadersInv, CacheStates
    <3>10. cover.gap = gap /\ KeptOK(logs, outside.gone, outside.now, cover.seen, mark)
      BY <3>1, <3>2, <3>3, <3>4
    <3>11. StoreInv'
      BY <1>1, <3>8, <3>9, <3>10 DEF StoreInv, StoredOK, CacheOK, Quiet
    <3> QED
      BY <3>8, <3>11, GenIsNew
  <2> QED
    BY <2>1, <2>2
<1>3. NoThread \in ThreadStates /\ NoThread.pc = "off"
  BY NothingTypes DEF NoThread
<1>4. ThreadOK(logs, outside.gone, outside.now, NoThread) /\ RefresherOK(NoThread)
  BY <1>3, IdleIsOK DEF Loading, RefresherOK
<1>5. ReadersInv'
  BY <1>0, <1>1, <1>3, <1>4, ReadersStep
<1>6. RequestsInv' /\ RefreshersInv'
  BY <1>0, <1>1, <1>2, <1>4, RefresherSteps DEF DashInv
<1> QED
  BY <1>0, <1>1, <1>2, <1>5, <1>6, LoadedRows, QuietWorld, QuietFlight DEF DashInv

-----------------------------------------------------------------------------
(* The streams' steps.                                                     *)

Wakes(th) == IF th.pc = "wait" THEN [th EXCEPT !.pc = "woken"] ELSE th

LEMMA WakesIsOK ==
    ASSUME NEW th \in ThreadStates
    PROVE  /\ Wakes(th) \in ThreadStates
           /\ \A ls, gone, now : ThreadOK(ls, gone, now, th) => ThreadOK(ls, gone, now, Wakes(th))
           /\ \A pg : PageOK(th, pg) => PageOK(Wakes(th), pg)
           /\ \A c : GenOK(c, th) => GenOK(c, Wakes(th))
           /\ RequestOK(th) => RequestOK(Wakes(th))
<1>1. CASE th.pc = "wait"
  <2> DEFINE new == [th EXCEPT !.pc = "woken"]
  <2>1. /\ new \in ThreadStates /\ new.pc = "woken" /\ new.asks = th.asks /\ new.mark = th.mark
    BY DEF ThreadStates, Places
  <2>2. Wakes(th) = new
    BY <1>1 DEF Wakes
  <2> HIDE DEF new
  <2>3. \A ls, gone, now : ThreadOK(ls, gone, now, th) => ThreadOK(ls, gone, now, new)
    BY <1>1, <2>1 DEF ThreadOK, ListOK, StampOK, ReadOK, SignOK, Loading
  <2>4. \A pg : PageOK(th, pg) => PageOK(new, pg)
    BY <1>1, <2>1 DEF PageOK, Streaming, Shares, AskOf
  <2>5. \A c : GenOK(c, new)
    BY <2>1 DEF GenOK
  <2>6. RequestOK(th) => RequestOK(new)
    BY <1>1, <2>1 DEF RequestOK, Shares, AskOf, Loading
  <2> QED
    BY <2>1, <2>2, <2>3, <2>4, <2>5, <2>6
<1>2. CASE th.pc # "wait"
  BY <1>2 DEF Wakes
<1> QED
  BY <1>1, <1>2

\* A shared parse ends: its thread goes on, and whoever waits is woken.
LEMMA WokenKeeps ==
    ASSUME DashInv, Quiet, NEW t \in Threads, NEW th \in ThreadStates, th.pc # "wait",
           threads' = Woken([threads EXCEPT ![t] = th]), UNCHANGED <<cache, page>>,
           ThreadOK(logs, outside.gone, outside.now, th), RequestOK(th), PageOK(th, page[t]),
           GenOK(cache, th)
    PROVE  ReadersInv' /\ RequestsInv' /\ RefreshersInv'
<1>1. threads \in [Threads \cup Refreshers -> ThreadStates]
  BY DEF DashInv, ReadersInv
<1>2. threads' = [u \in Threads \cup Refreshers |-> Wakes(IF u = t THEN th ELSE threads[u])]
  BY <1>1 DEF Woken, Wakes
<1>3. ReadersInv'
  <2>1. \A u \in Threads \cup Refreshers :
          /\ (IF u = t THEN th ELSE threads[u]) \in ThreadStates
          /\ ThreadOK(logs, outside.gone, outside.now, IF u = t THEN th ELSE threads[u])
    BY <1>1 DEF DashInv, ReadersInv
  <2>2. ASSUME NEW u \in Threads \cup Refreshers
        PROVE  threads'[u] \in ThreadStates /\ ThreadOK(logs, outside.gone, outside.now, threads'[u])
    <3>1. PICK was \in ThreadStates : was = IF u = t THEN th ELSE threads[u]
      BY <2>1
    <3>2. threads'[u] = Wakes(was) /\ ThreadOK(logs, outside.gone, outside.now, was)
      BY <1>2, <2>1, <3>1
    <3> QED
      BY <3>2, WakesIsOK
  <2> QED
    BY <1>2, <2>2 DEF ReadersInv, Quiet
<1>4. RequestsInv'
  <2>1. \A u \in Threads :
          LET was == IF u = t THEN th ELSE threads[u]
          IN  was \in ThreadStates /\ RequestOK(was) /\ PageOK(was, page[u]) /\ GenOK(cache, was)
    BY <1>1 DEF DashInv, RequestsInv
  <2>2. \A u \in Threads :
          RequestOK(threads'[u]) /\ PageOK(threads'[u], page[u]) /\ GenOK(cache, threads'[u])
    BY <1>2, <2>1, WakesIsOK
  <2> QED
    BY <2>2 DEF DashInv, RequestsInv
<1>5. RefreshersInv'
  <2>1. \A b \in Refreshers : b # t /\ threads[b].pc # "wait"
    BY DashboardAssumption DEF DashInv, RefreshersInv, RefresherOK, Loading
  <2>2. \A b \in Refreshers : threads'[b] = threads[b]
    BY <1>2, <2>1 DEF Wakes
  <2> QED
    BY <2>2 DEF DashInv, RefreshersInv
<1> QED
  BY <1>3, <1>4, <1>5

LEMMA SignKeeps == ASSUME DashInv, NEW t \in Threads, Sign(t) PROVE DashInv'
<1> DEFINE new == [threads[t] EXCEPT !.pc = "enter", !.mark = Signature]
<1>0. /\ threads[t].pc = "sign" \/ (threads[t].pc = "ask" /\ Asks(t, {"warm"}))
      /\ Step(t, new)
      /\ UNCHANGED <<work, logs, outside, rows, flight, cache, page>>
  BY DEF Sign, At
<1>1. Quiet /\ WorldInv /\ threads[t] \in ThreadStates
  BY <1>0, QuietUnchanged DEF DashInv, ReadersInv
<1>2. RequestOK(threads[t]) /\ PageOK(threads[t], page[t])
  BY DEF DashInv, RequestsInv
<1>3. threads[t].asks # <<>>
  BY <1>0, <1>2 DEF RequestOK, Asks
<1>4. Ask(t) = AskOf(threads[t])
  BY <1>3, AskIs DEF DashInv
<1>5. Signature \in Marks /\ Marked(Signature, outside.now) /\ Signed(logs, outside.gone, Signature)
  <2>1. PICK mark \in Marks : mark = Signature
    BY <1>1, MarkTypes DEF Marks
  <2>2. Marked(mark, outside.now) /\ Signed(logs, outside.gone, mark)
    BY <1>1, <2>1, MarkTypes, SignedNowHere
  <2> QED
    BY <2>1, <2>2
<1>6. new \in ThreadStates /\ new.pc = "enter" /\ new.mark = Signature /\ new.asks = threads[t].asks
  BY <1>1, <1>5 DEF ThreadStates, Places
<1> HIDE DEF new
<1>7. ThreadOK(logs, outside.gone, outside.now, new)
  BY <1>5, <1>6 DEF ThreadOK, ListOK, StampOK, ReadOK, SignOK, Loading
<1>8. AskOf(threads[t]).op \in {"watch", "warm"} /\ AskOf(new) = AskOf(threads[t])
  BY <1>0, <1>2, <1>4, <1>6 DEF RequestOK, Asks, AskOf
<1>9. RequestOK(new)
  BY <1>3, <1>6, <1>8 DEF RequestOK, Shares, Loading
<1>10. PageOK(new, page[t])
  BY <1>0, <1>2, <1>4, <1>8 DEF PageOK, Streaming, Asks
<1>11. GenOK(cache', new) /\ \A u \in Threads : GenOK(cache', threads[u])
  BY <1>0, <1>6, GenStands DEF GenOK
<1>12. ReadersInv' /\ RequestsInv' /\ RefreshersInv'
  BY <1>0, <1>1, <1>6, <1>7, <1>9, <1>10, <1>11, MoveAlone
<1> QED
  BY <1>0, <1>1, <1>12, QuietWorld, QuietRows, QuietFlight, QuietStore DEF DashInv

\* A thread that shares a parse has a request that may.
LEMMA SharerIs ==
    ASSUME DashInv, NEW t \in Threads, Shares(threads[t])
    PROVE  /\ threads[t].asks # <<>> /\ Ask(t) = AskOf(threads[t]) /\ Ask(t).gap \in Gaps
           /\ Ask(t).op \in {"watch", "warm"} /\ threads[t] \in ThreadStates
           /\ (Ask(t).op = "watch" => page[t].gap = Ask(t).gap)
           /\ page[t] \in PageStates /\ page[t].shown.gap = page[t].gap
<1>1. RequestOK(threads[t]) /\ PageOK(threads[t], page[t]) /\ page[t] \in PageStates
  BY DEF DashInv, RequestsInv
<1>2. threads[t].asks # <<>> /\ threads[t] \in ThreadStates /\ ReadersInv
  BY <1>1 DEF Shares, RequestOK, Loading, DashInv, ReadersInv
<1>3. Ask(t) = AskOf(threads[t]) /\ Ask(t).gap \in Gaps
  BY <1>2, AskIs
<1> QED
  BY <1>1, <1>2, <1>3 DEF RequestOK, PageOK, Streaming

\* It is told of a parse, and goes on to show it.
LEMMA ToldIsOK ==
    ASSUME DashInv, NEW t \in Threads, Shares(threads[t]), NEW cover \in Covers,
           cover.gap = Ask(t).gap, NEW new,
           new = [threads[t] EXCEPT !.pc = "told", !.got = cover]
    PROVE  /\ new \in ThreadStates /\ ThreadOK(logs, outside.gone, outside.now, new)
           /\ RequestOK(new) /\ PageOK(new, page[t]) /\ new.pc = "told"
           /\ \A c : GenOK(c, new)
<1>0. threads[t] \in ThreadStates
  BY DEF DashInv, ReadersInv
<1>1. /\ new \in ThreadStates /\ new.pc = "told" /\ new.got = cover /\ new.asks = threads[t].asks
  BY <1>0 DEF ThreadStates, Places
<1>2. ThreadOK(logs, outside.gone, outside.now, new)
  BY <1>1, IdleIsOK DEF Loading
<1>3. AskOf(new) = Ask(t) /\ new.asks # <<>>
  BY <1>1, SharerIs DEF AskOf
<1>4. RequestOK(new)
  BY <1>1, <1>3, SharerIs DEF RequestOK, Shares, Loading
<1>5. PageOK(new, page[t])
  BY <1>3, SharerIs DEF PageOK
<1> QED
  BY <1>1, <1>2, <1>4, <1>5 DEF GenOK

LEMMA SharedIs ==
    ASSUME DashInv, NEW t \in Threads, Shares(threads[t])
    PROVE  /\ Shared(t) \in FlightStates /\ Shared(t).cover \in Covers
           /\ Shared(t).has => Shared(t).cover.gap = Ask(t).gap
BY SharerIs DEF DashInv, FlightInv, FlightOK, Shared, FlightStates

LEMMA EnterKeeps == ASSUME DashInv, NEW t \in Threads, Enter(t) PROVE DashInv'
<1>0. threads[t].pc = "enter" /\ UNCHANGED <<work, logs, outside, rows, cache>>
  BY DEF Enter, At
<1>1. Quiet /\ WorldInv /\ Shares(threads[t]) /\ ThreadOK(logs, outside.gone, outside.now, threads[t])
  BY <1>0, QuietUnchanged DEF DashInv, Shares, ReadersInv
<1>2. Marked(threads[t].mark, outside.now) /\ Signed(logs, outside.gone, threads[t].mark)
  BY <1>0, <1>1 DEF ThreadOK, SignOK
<1>3. \A u \in Threads : GenOK(cache', threads[u])
  BY <1>0, GenStands
<1>4. ASSUME Shared(t).has, Step(t, [threads[t] EXCEPT !.pc = "told", !.got = Shared(t).cover]),
             UNCHANGED <<flight, page>>
      PROVE  ReadersInv' /\ RequestsInv' /\ RefreshersInv' /\ FlightInv'
  <2>1. PICK new : new = [threads[t] EXCEPT !.pc = "told", !.got = Shared(t).cover]
    OBVIOUS
  <2>2. /\ new \in ThreadStates /\ ThreadOK(logs, outside.gone, outside.now, new)
        /\ RequestOK(new) /\ PageOK(new, page[t]) /\ GenOK(cache', new)
    BY <1>1, <1>4, <2>1, SharedIs, ToldIsOK
  <2> QED
    BY <1>1, <1>3, <1>4, <2>1, <2>2, MoveAlone, QuietFlight DEF DashInv
<1>5. ASSUME Step(t, [threads[t] EXCEPT !.pc = "wait"]), page' = [page EXCEPT ![t].late = TRUE],
             UNCHANGED flight
      PROVE  ReadersInv' /\ RequestsInv' /\ RefreshersInv' /\ FlightInv'
  <2> DEFINE new == [threads[t] EXCEPT !.pc = "wait"]
             pg == [page[t] EXCEPT !.late = TRUE]
  <2>1. /\ new \in ThreadStates /\ new.pc = "wait" /\ new.asks = threads[t].asks
        /\ new.mark = threads[t].mark /\ Step(t, new)
    <3>1. threads[t] \in ThreadStates
      BY DEF DashInv, ReadersInv
    <3> QED
      BY <1>5, <3>1 DEF ThreadStates, Places
  <2>2. pg \in PageStates /\ pg.shown = page[t].shown /\ pg.gap = page[t].gap
    BY <1>1, SharerIs DEF PageStates
  <2>3. page' = [page EXCEPT ![t] = pg]
    BY <1>5 DEF DashInv, RequestsInv
  <2> HIDE DEF new, pg
  <2>4. ThreadOK(logs, outside.gone, outside.now, new)
    BY <1>2, <2>1 DEF ThreadOK, ListOK, StampOK, ReadOK, SignOK, Loading
  <2>5. AskOf(new) = Ask(t) /\ new.asks # <<>>
    BY <1>1, <2>1, SharerIs DEF AskOf
  <2>6. RequestOK(new) /\ GenOK(cache', new)
    BY <1>1, <2>1, <2>5, SharerIs DEF RequestOK, Shares, Loading, GenOK
  <2>7. PageOK(new, pg)
    BY <1>1, <2>2, <2>5, SharerIs DEF PageOK
  <2> QED
    BY <1>1, <1>3, <1>5, <2>1, <2>2, <2>3, <2>4, <2>6, <2>7, MoveKeeps, QuietFlight DEF DashInv
<1>6. ASSUME flight' = [flight EXCEPT ![Ask(t).gap].busy = TRUE],
             Step(t, LoadFor(threads[t], Ask(t).gap, "publish")), UNCHANGED page
      PROVE  ReadersInv' /\ RequestsInv' /\ RefreshersInv' /\ FlightInv'
  <2>1. PICK new : new = LoadFor(threads[t], Ask(t).gap, "publish")
    OBVIOUS
  <2>2. /\ new \in ThreadStates /\ ThreadOK(logs, outside.gone, outside.now, new)
        /\ RequestOK(new) /\ new.pc = "look" /\ new.ret = "publish" /\ GenOK(cache', new)
        /\ new.asks = threads[t].asks
    BY <1>1, <1>2, <2>1, SharerIs, RequestLoads
  <2>3. AskOf(new) = Ask(t)
    BY <1>1, <2>2, SharerIs DEF AskOf
  <2>4. PageOK(new, page[t])
    BY <1>1, <2>3, SharerIs DEF PageOK
  <2>5. FlightInv'
    <3>1. PICK gap \in Gaps : gap = Ask(t).gap
      BY <1>1, SharerIs
    <3>2. flight \in [Gaps -> FlightStates] /\ \A g \in Gaps : flight[g] \in FlightStates
      BY DEF DashInv, FlightInv
    <3>3. /\ flight' \in [Gaps -> FlightStates]
          /\ \A g \in Gaps : /\ flight'[g].has = flight[g].has /\ flight'[g].sig = flight[g].sig
                             /\ flight'[g].cover = flight[g].cover
      BY <1>6, <3>1, <3>2 DEF FlightStates
    <3> QED
      BY <1>1, <3>3 DEF DashInv, FlightInv, FlightOK, Quiet
  <2> QED
    BY <1>1, <1>3, <1>6, <2>1, <2>2, <2>4, <2>5, MoveAlone
<1>7. ReadersInv' /\ RequestsInv' /\ RefreshersInv' /\ FlightInv'
  BY <1>4, <1>5, <1>6 DEF Enter
<1> QED
  BY <1>0, <1>1, <1>7, QuietWorld, QuietRows, QuietStore DEF DashInv

LEMMA PublishKeeps == ASSUME DashInv, NEW t \in Threads, Publish(t) PROVE DashInv'
<1> DEFINE new == [threads[t] EXCEPT !.pc = "told", !.got = Found(t)]
           fl == [has |-> TRUE, sig |-> threads[t].mark, cover |-> Found(t), busy |-> FALSE]
<1>0. /\ Loaded(t, "publish") /\ flight' = [flight EXCEPT ![Ask(t).gap] = fl]
      /\ threads' = Woken([threads EXCEPT ![t].pc = "told", ![t].got = Found(t)])
      /\ UNCHANGED <<work, logs, outside, cache, page>>
  BY DEF Publish
<1>1. Quiet /\ WorldInv
  BY <1>0, QuietUnchanged DEF DashInv
<1>2. /\ Found(t) \in Covers /\ Found(t).gap = threads[t].gap /\ Found(t).seen = threads[t].seen
      /\ threads[t].pc = "look" /\ threads[t].ret = "publish" /\ threads[t].mark \in Marks \cup {<<>>}
      /\ KeptOK(logs, outside.gone, outside.now, threads[t].seen, threads[t].mark)
  BY <1>0, FoundIs
<1>3. Shares(threads[t]) /\ threads[t].gap = AskOf(threads[t]).gap
  BY <1>2 DEF Shares, Loading, DashInv, RequestsInv, RequestOK
<1>4. Found(t).gap = Ask(t).gap /\ Ask(t).gap \in Gaps
  BY <1>2, <1>3, SharerIs
<1>5. /\ new \in ThreadStates /\ ThreadOK(logs, outside.gone, outside.now, new)
      /\ RequestOK(new) /\ PageOK(new, page[t]) /\ new.pc = "told" /\ GenOK(cache, new)
  <2>1. PICK cover \in Covers : cover = Found(t)
    BY <1>2
  <2>2. PICK th : th = [threads[t] EXCEPT !.pc = "told", !.got = cover]
    OBVIOUS
  <2>3. /\ th \in ThreadStates /\ ThreadOK(logs, outside.gone, outside.now, th)
        /\ RequestOK(th) /\ PageOK(th, page[t]) /\ th.pc = "told" /\ GenOK(cache, th)
    BY <1>3, <1>4, <2>1, <2>2, ToldIsOK
  <2>4. th = new
    BY <2>1, <2>2
  <2> HIDE DEF new
  <2> QED
    BY <2>3, <2>4
<1>6. threads' = Woken([threads EXCEPT ![t] = new])
  <2>1. [threads EXCEPT ![t].pc = "told", ![t].got = Found(t)] = [threads EXCEPT ![t] = new]
    BY DEF DashInv, ReadersInv, ThreadStates
  <2> QED
    BY <1>0, <2>1
<1>7. FlightInv'
  <2>1. fl \in FlightStates
    BY <1>2 DEF FlightStates
  <2>2. FlightOK(logs, outside.gone, outside.now, fl, Ask(t).gap)
    BY <1>2, <1>4 DEF FlightOK
  <2> HIDE DEF fl
  <2> QED
    BY <1>0, <1>1, <1>4, <2>1, <2>2 DEF DashInv, FlightInv, Quiet
<1> HIDE DEF new
<1>8. new.pc # "wait"
  BY <1>5
<1>9. ReadersInv' /\ RequestsInv' /\ RefreshersInv'
  BY <1>0, <1>1, <1>5, <1>6, <1>8, WokenKeeps
<1> QED
  BY <1>0, <1>1, <1>7, <1>9, LoadedRows, QuietWorld, QuietStore DEF DashInv

LEMMA WakeKeeps == ASSUME DashInv, NEW t \in Threads, Wake(t) PROVE DashInv'
<1>0. threads[t].pc = "woken" /\ UNCHANGED <<work, logs, outside, rows, flight, cache, page>>
  BY DEF Wake, At
<1>1. Quiet /\ WorldInv /\ Shares(threads[t]) /\ ThreadOK(logs, outside.gone, outside.now, threads[t])
  BY <1>0, QuietUnchanged DEF DashInv, Shares, ReadersInv
<1>2. Marked(threads[t].mark, outside.now) /\ Signed(logs, outside.gone, threads[t].mark)
  BY <1>0, <1>1 DEF ThreadOK, SignOK
<1>3. \A u \in Threads : GenOK(cache', threads[u])
  BY <1>0, GenStands
<1>4. ASSUME Shared(t).has, Step(t, [threads[t] EXCEPT !.pc = "told", !.got = Shared(t).cover])
      PROVE  ReadersInv' /\ RequestsInv' /\ RefreshersInv'
  <2>1. PICK new : new = [threads[t] EXCEPT !.pc = "told", !.got = Shared(t).cover]
    OBVIOUS
  <2>2. /\ new \in ThreadStates /\ ThreadOK(logs, outside.gone, outside.now, new)
        /\ RequestOK(new) /\ PageOK(new, page[t]) /\ GenOK(cache', new)
    BY <1>1, <1>4, <2>1, SharedIs, ToldIsOK
  <2> QED
    BY <1>0, <1>1, <1>3, <1>4, <2>1, <2>2, MoveAlone
<1>5. ASSUME Step(t, [threads[t] EXCEPT !.pc = "enter"])
      PROVE  ReadersInv' /\ RequestsInv' /\ RefreshersInv'
  <2> DEFINE new == [threads[t] EXCEPT !.pc = "enter"]
  <2>1. /\ new \in ThreadStates /\ new.pc = "enter" /\ new.asks = threads[t].asks
        /\ new.mark = threads[t].mark /\ Step(t, new)
    <3>1. threads[t] \in ThreadStates
      BY DEF DashInv, ReadersInv
    <3> QED
      BY <1>5, <3>1 DEF ThreadStates, Places
  <2> HIDE DEF new
  <2>2. ThreadOK(logs, outside.gone, outside.now, new)
    BY <1>2, <2>1 DEF ThreadOK, ListOK, StampOK, ReadOK, SignOK, Loading
  <2>3. AskOf(new) = Ask(t) /\ new.asks # <<>>
    BY <1>1, <2>1, SharerIs DEF AskOf
  <2>4. RequestOK(new) /\ GenOK(cache', new)
    BY <1>1, <2>1, <2>3, SharerIs DEF RequestOK, Shares, Loading, GenOK
  <2>5. PageOK(new, page[t])
    BY <1>1, <2>3, SharerIs DEF PageOK
  <2> QED
    BY <1>0, <1>1, <1>3, <2>1, <2>2, <2>4, <2>5, MoveAlone
<1>6. ReadersInv' /\ RequestsInv' /\ RefreshersInv'
  BY <1>4, <1>5 DEF Wake
<1> QED
  BY <1>0, <1>1, <1>6, QuietWorld, QuietRows, QuietFlight, QuietStore DEF DashInv

\* The page is told something on the way.
LEMMA ConnectKeeps == ASSUME DashInv, NEW t \in Threads, Connect(t) PROVE DashInv'
<1> DEFINE new == [threads[t] EXCEPT !.pc = "poll", !.last = Current]
           cover == IF page[t].shown.gap = Ask(t).gap THEN page[t].shown
                    ELSE [gap |-> Ask(t).gap, seen |-> Nothing]
           pg == [page[t] EXCEPT !.op = "watch", !.gap = Ask(t).gap, !.base = Current,
                                 !.mark = <<>>, !.shown = cover]
<1>0. /\ threads[t].pc = "ask" /\ threads[t].asks # <<>> /\ Ask(t).op = "watch" /\ Step(t, new)
      /\ UNCHANGED <<work, logs, outside, rows, flight, cache>>
  BY DEF Connect, At, Asks
<1>1. Quiet /\ WorldInv /\ threads[t] \in ThreadStates /\ page[t] \in PageStates
  BY <1>0, QuietUnchanged DEF DashInv, ReadersInv, RequestsInv
<1>2. Ask(t) = AskOf(threads[t]) /\ Ask(t).gap \in Nat
  BY <1>0, AskIs DEF DashInv
<1>3. Current \in Seens /\ Nothing \in Seens
  BY <1>1, PresentTypes, NothingTypes
<1>4. new \in ThreadStates /\ new.pc = "poll" /\ new.asks = threads[t].asks
  BY <1>1, <1>3 DEF ThreadStates, Places
<1>5. cover \in Covers /\ cover.gap = Ask(t).gap
  BY <1>1, <1>2, <1>3 DEF Covers, PageStates
<1>6. page' = [page EXCEPT ![t] = pg]
  BY <1>1 DEF Connect, DashInv, RequestsInv, PageStates
<1> HIDE DEF new, cover
<1>7. pg \in PageStates /\ pg.gap = Ask(t).gap /\ pg.shown = cover
  BY <1>1, <1>2, <1>3, <1>5 DEF PageStates, Ops
<1> HIDE DEF pg
<1>8. ThreadOK(logs, outside.gone, outside.now, new)
  BY <1>4, IdleIsOK DEF Loading
<1>9. RequestOK(new)
  BY <1>0, <1>2, <1>4 DEF RequestOK, Shares, Loading, AskOf
<1>10. PageOK(new, pg)
  BY <1>2, <1>4, <1>5, <1>7 DEF PageOK, AskOf
<1>11. GenOK(cache', new) /\ \A u \in Threads : GenOK(cache', threads[u])
  BY <1>0, <1>4, GenStands DEF GenOK
<1>12. ReadersInv' /\ RequestsInv' /\ RefreshersInv'
  BY <1>0, <1>1, <1>4, <1>6, <1>7, <1>8, <1>9, <1>10, <1>11, MoveKeeps
<1> QED
  BY <1>0, <1>1, <1>12, QuietWorld, QuietRows, QuietFlight, QuietStore DEF DashInv

\* A stream goes on with its request, and the page keeps what it was shown.
LEMMA StreamGoesOn ==
    ASSUME DashInv, NEW t \in Threads, UNCHANGED <<work, logs, outside, rows, flight, cache>>,
           threads[t].pc \in {"poll", "tell"}, NEW new \in ThreadStates,
           new.pc \in {"poll", "tell", "sign"}, new.asks = threads[t].asks, Step(t, new),
           NEW pg \in PageStates, pg.gap = page[t].gap, pg.shown = page[t].shown,
           page' = [page EXCEPT ![t] = pg]
    PROVE  DashInv'
<1>1. Quiet /\ WorldInv
  BY QuietUnchanged DEF DashInv
<1>2. RequestOK(threads[t]) /\ PageOK(threads[t], page[t])
  BY DEF DashInv, RequestsInv
<1>3. ThreadOK(logs, outside.gone, outside.now, new)
  BY IdleIsOK DEF Loading
<1>4. AskOf(new) = AskOf(threads[t])
  BY DEF AskOf
<1>5. RequestOK(new) /\ GenOK(cache', new)
  BY <1>2, <1>4 DEF RequestOK, Shares, Loading, GenOK
<1>6. PageOK(new, pg)
  BY <1>2, <1>4 DEF PageOK, Streaming
<1>7. \A u \in Threads : GenOK(cache', threads[u])
  BY GenStands
<1>8. ReadersInv' /\ RequestsInv' /\ RefreshersInv'
  BY <1>1, <1>3, <1>5, <1>6, <1>7, MoveKeeps
<1> QED
  BY <1>1, <1>8, QuietWorld, QuietRows, QuietFlight, QuietStore DEF DashInv

LEMMA PollKeeps == ASSUME DashInv, NEW t \in Threads, Poll(t) PROVE DashInv'
<1> DEFINE changed == {f \in Present : Current[f] # threads[t].last[f]}
           new == [threads[t] EXCEPT !.pc = "tell", !.seen = Current, !.next = changed]
           pg == [page[t] EXCEPT !.mark = Signature]
<1>0. /\ threads[t].pc = "poll" /\ Step(t, new)
      /\ UNCHANGED <<work, logs, outside, rows, flight, cache>>
  BY DEF Poll, At
<1>1. WorldInv /\ threads[t] \in ThreadStates /\ page[t] \in PageStates
  BY DEF DashInv, ReadersInv, RequestsInv
<1>2. Current \in Seens /\ Signature \in Marks /\ changed \in SUBSET Files
  BY <1>1, PresentTypes, MarkTypes DEF Marks
<1>3. page' = [page EXCEPT ![t] = pg]
  BY DEF Poll, DashInv, RequestsInv
<1> HIDE DEF changed
<1>4. new \in ThreadStates /\ new.pc = "tell" /\ new.asks = threads[t].asks
  BY <1>1, <1>2 DEF ThreadStates, Places
<1>5. pg \in PageStates /\ pg.gap = page[t].gap /\ pg.shown = page[t].shown
  BY <1>1, <1>2 DEF PageStates
<1> HIDE DEF new, pg
<1> QED
  BY <1>0, <1>3, <1>4, <1>5, StreamGoesOn

LEMMA TellKeeps == ASSUME DashInv, NEW t \in Threads, Tell(t) PROVE DashInv'
<1> DEFINE f == First(threads[t].next)
           new == [threads[t] EXCEPT !.next = threads[t].next \ {f}]
           pg == [page[t] EXCEPT !.told[f] = Length(f)]
<1>0. /\ threads[t].pc = "tell" /\ threads[t].next # {} /\ Step(t, new)
      /\ UNCHANGED <<work, logs, outside, rows, flight, cache>>
  BY DEF Tell, At
<1>1. WorldInv /\ threads[t] \in ThreadStates /\ page[t] \in PageStates
  BY DEF DashInv, ReadersInv, RequestsInv
<1>2. f \in Files /\ Length(f) \in Int
  <2>1. f \in Files
    BY <1>0, <1>1, FirstIsOne DEF ThreadStates
  <2> HIDE DEF f
  <2> QED
    BY <1>1, <2>1, PresentTypes
<1>3. page' = [page EXCEPT ![t] = pg]
  BY <1>1 DEF Tell, DashInv, RequestsInv, PageStates
<1> HIDE DEF f
<1>4. new \in ThreadStates /\ new.pc = "tell" /\ new.asks = threads[t].asks
  BY <1>0, <1>1 DEF ThreadStates
<1>5. pg \in PageStates /\ pg.gap = page[t].gap /\ pg.shown = page[t].shown
  BY <1>1, <1>2 DEF PageStates, Seens
<1> HIDE DEF new, pg
<1> QED
  BY <1>0, <1>3, <1>4, <1>5, StreamGoesOn

LEMMA TellRunsKeeps == ASSUME DashInv, NEW t \in Threads, TellRuns(t) PROVE DashInv'
<1> DEFINE new == [threads[t] EXCEPT !.pc = "sign", !.last = threads[t].seen]
           pg == [page[t] EXCEPT !.late = FALSE]
<1>0. /\ threads[t].pc = "tell" /\ Step(t, new)
      /\ UNCHANGED <<work, logs, outside, rows, flight, cache>>
  BY DEF TellRuns, At, Baseline
<1>1. threads[t] \in ThreadStates /\ page[t] \in PageStates
  BY DEF DashInv, ReadersInv, RequestsInv
<1>2. page' = [page EXCEPT ![t] = pg]
  BY DEF TellRuns, DashInv, RequestsInv
<1>3. new \in ThreadStates /\ new.pc = "sign" /\ new.asks = threads[t].asks
  BY <1>1 DEF ThreadStates, Places
<1>4. pg \in PageStates /\ pg.gap = page[t].gap /\ pg.shown = page[t].shown
  BY <1>1 DEF PageStates
<1> HIDE DEF new, pg
<1> QED
  BY <1>0, <1>2, <1>3, <1>4, StreamGoesOn

LEMMA ToldKeeps == ASSUME DashInv, NEW t \in Threads, Told(t) PROVE DashInv'
<1>0. threads[t].pc = "told" /\ UNCHANGED <<work, logs, outside, rows, flight, cache>>
  BY DEF Told, At
<1>1. Quiet /\ WorldInv /\ Shares(threads[t]) /\ ReadersInv
  BY <1>0, QuietUnchanged DEF DashInv, Shares
<1>2. /\ threads[t].asks # <<>> /\ Ask(t) = AskOf(threads[t]) /\ threads[t] \in ThreadStates
      /\ Ask(t).op \in {"watch", "warm"} /\ (Ask(t).op = "watch" => page[t].gap = Ask(t).gap)
      /\ page[t] \in PageStates
  BY <1>1, SharerIs
<1>3. threads[t].got.gap = Ask(t).gap /\ threads[t].got \in Covers
  BY <1>0, <1>2 DEF DashInv, RequestsInv, RequestOK, ThreadStates
<1>4. \A u \in Threads : GenOK(cache', threads[u])
  BY <1>0, GenStands
<1>5. ASSUME Step(t, Done(t)), page' = page PROVE ReadersInv' /\ RequestsInv' /\ RefreshersInv'
  <2>1. PICK new : new = Done(t)
    OBVIOUS
  <2>2. new \in ThreadStates /\ new.pc = "ask"
    BY <1>1, <1>2, <2>1, DoneIs
  <2>3. ThreadOK(logs, outside.gone, outside.now, new)
    BY <2>2, IdleIsOK DEF Loading
  <2>4. RequestOK(new) /\ ~Streaming(new) /\ GenOK(cache', new)
    BY <2>2 DEF RequestOK, Streaming, Shares, Loading, GenOK
  <2> QED
    BY <1>1, <1>4, <1>5, <2>1, <2>2, <2>3, <2>4, PageAlone, MoveAlone
<1>6. ASSUME Ask(t).op # "warm", page' = [page EXCEPT ![t].shown = threads[t].got],
             Step(t, [NoThread EXCEPT !.pc = "poll", !.asks = threads[t].asks, !.last = threads[t].last])
      PROVE  ReadersInv' /\ RequestsInv' /\ RefreshersInv'
  <2> DEFINE new == [NoThread EXCEPT !.pc = "poll", !.asks = threads[t].asks, !.last = threads[t].last]
             pg == [page[t] EXCEPT !.shown = threads[t].got]
  <2>1. threads[t].asks \in Seq(Asked) /\ threads[t].last \in Seens /\ NoThread \in ThreadStates
    BY <1>2, NothingTypes DEF ThreadStates
  <2>2. new \in ThreadStates /\ new.pc = "poll" /\ new.asks = threads[t].asks /\ Step(t, new)
    BY <1>6, <2>1 DEF ThreadStates, Places
  <2>3. pg \in PageStates /\ pg.gap = page[t].gap /\ pg.shown = threads[t].got
    BY <1>2, <1>3 DEF PageStates
  <2>4. page' = [page EXCEPT ![t] = pg]
    BY <1>6 DEF DashInv, RequestsInv
  <2> HIDE DEF new, pg
  <2>5. ThreadOK(logs, outside.gone, outside.now, new)
    BY <2>2, IdleIsOK DEF Loading
  <2>6. AskOf(new) = Ask(t) /\ Ask(t).op = "watch"
    BY <1>2, <1>6, <2>2 DEF AskOf
  <2>7. RequestOK(new) /\ GenOK(cache', new)
    BY <1>2, <2>2, <2>6 DEF RequestOK, Shares, Loading, GenOK
  <2>8. PageOK(new, pg)
    BY <1>2, <1>3, <2>3, <2>6 DEF PageOK
  <2> QED
    BY <1>1, <1>4, <2>2, <2>3, <2>4, <2>5, <2>7, <2>8, MoveKeeps
<1>7. ReadersInv' /\ RequestsInv' /\ RefreshersInv'
  BY <1>5, <1>6 DEF Told
<1> QED
  BY <1>0, <1>1, <1>7, QuietWorld, QuietRows, QuietFlight, QuietStore DEF DashInv

-----------------------------------------------------------------------------
(* A parse that fails.                                                     *)

\* Whoever asked is refused, and asks on.
LEMMA RefusedIs ==
    ASSUME DashInv, NEW t \in Threads, threads[t].asks # <<>>, NEW new, new = Refused(t)
    PROVE  /\ new \in ThreadStates /\ new.pc = "ask"
           /\ ThreadOK(logs, outside.gone, outside.now, new) /\ RequestOK(new)
           /\ ~Streaming(new) /\ PageOK(new, page[t]) /\ \A c : GenOK(c, new)
<1>1. PICK done : done = Done(t)
  OBVIOUS
<1>2. done \in ThreadStates /\ done.pc = "ask"
  BY <1>1, DoneIs DEF DashInv
<1>3. threads[t].asks \in Seq(Asked) /\ done.asks \in Seq(Asked) /\ <<>> \in Seq(Asked)
  BY <1>2 DEF DashInv, ReadersInv, ThreadStates
<1>4. PICK asks \in Seq(Asked) : new = [done EXCEPT !.asks = asks]
  BY <1>1, <1>3 DEF Refused
<1>5. new \in ThreadStates /\ new.pc = "ask"
  BY <1>2, <1>4 DEF ThreadStates
<1>6. ThreadOK(logs, outside.gone, outside.now, new)
  BY <1>5, IdleIsOK DEF Loading
<1>7. RequestOK(new) /\ ~Streaming(new) /\ \A c : GenOK(c, new)
  BY <1>5 DEF RequestOK, Streaming, Shares, Loading, GenOK
<1> QED
  BY <1>5, <1>6, <1>7, PageAlone

LEMMA FailKeeps == ASSUME DashInv, NEW t \in Threads \cup Refreshers, Fail(t) PROVE DashInv'
<1>0. /\ threads[t].pc = "look" /\ outside' = [outside EXCEPT !.failed = outside.failed + 1]
      /\ UNCHANGED <<work, logs, rows, page>>
  BY DEF Fail, At
<1>1. Quiet /\ WorldInv /\ cache \in CacheStates /\ ReadersInv
  <2>1. outside \in [now : Nat, gone : SUBSET Files, failed : Nat]
    BY DEF DashInv, WorldInv
  <2>2. outside.failed + 1 \in Nat
    BY <2>1
  <2> QED
    BY <1>0, <2>1, <2>2 DEF DashInv, StoreInv, Quiet
<1>2. ASSUME \/ cache' = [cache EXCEPT !.refreshing = FALSE]
             \/ cache' = [cache EXCEPT !.due = FALSE, !.refreshing = FALSE]
      PROVE  StoreInv' /\ \A u \in Threads : GenOK(cache', threads[u])
  <2>1. /\ cache' \in CacheStates /\ cache'.gen = cache.gen /\ cache'.cover = cache.cover
        /\ cache'.has = cache.has /\ cache'.mark = cache.mark /\ cache'.missed = cache.missed
        /\ cache'.derived = cache.derived /\ cache'.lineage = cache.lineage
    BY <1>1, <1>2 DEF CacheStates
  <2> QED
    BY <1>1, <2>1, GenStands DEF DashInv, StoreInv, StoredOK, CacheOK, Quiet
<1>3. CASE t \in Threads
  <2>1. RequestOK(threads[t])
    BY <1>3 DEF DashInv, RequestsInv
  <2>2. threads[t].asks # <<>> /\ threads[t].ret \in {"install", "direct", "publish"}
    BY <1>0, <2>1 DEF RequestOK, Loading
  <2>3. PICK new : new = Refused(t)
    OBVIOUS
  <2>4. /\ new \in ThreadStates /\ new.pc = "ask"
        /\ ThreadOK(logs, outside.gone, outside.now, new) /\ RequestOK(new)
        /\ PageOK(new, page[t]) /\ GenOK(cache, new) /\ GenOK(cache', new)
    BY <1>3, <2>2, <2>3, RefusedIs
  <2>5. ASSUME Step(t, new), \A u \in Threads : GenOK(cache', threads[u])
        PROVE  ReadersInv' /\ RequestsInv' /\ RefreshersInv'
    BY <1>0, <1>1, <1>3, <2>4, <2>5, MoveAlone
  <2>6. ASSUME threads[t].ret = "install" PROVE DashInv'
    <3>1. cache' = [cache EXCEPT !.refreshing = FALSE] /\ Step(t, new) /\ flight' = flight
      BY <2>3, <2>6 DEF Fail
    <3>2. ReadersInv' /\ RequestsInv' /\ RefreshersInv' /\ StoreInv'
      BY <1>2, <2>5, <3>1
    <3> QED
      BY <1>0, <1>1, <3>1, <3>2, QuietWorld, QuietRows, QuietFlight DEF DashInv
  <2>7. ASSUME threads[t].ret = "direct" PROVE DashInv'
    <3>1. cache' = cache /\ Step(t, new) /\ flight' = flight
      BY <2>3, <2>7 DEF Fail
    <3>2. ReadersInv' /\ RequestsInv' /\ RefreshersInv'
      BY <2>5, <3>1, GenStands
    <3> QED
      BY <1>0, <1>1, <3>1, <3>2, QuietWorld, QuietRows, QuietFlight, QuietStore DEF DashInv
  <2>8. ASSUME threads[t].ret = "publish" PROVE DashInv'
    <3>1. /\ flight' = [flight EXCEPT ![Ask(t).gap].busy = FALSE] /\ cache' = cache
          /\ threads' = Woken([threads EXCEPT ![t] = new])
      BY <2>3, <2>8 DEF Fail
    <3>2. new.pc # "wait"
      BY <2>4
    <3>3. ReadersInv' /\ RequestsInv' /\ RefreshersInv'
      BY <1>0, <1>1, <1>3, <2>4, <3>1, <3>2, WokenKeeps
    <3>4. FlightInv'
      <4>1. PICK gap \in Gaps : gap = Ask(t).gap
        BY <1>1, <1>3, <2>2, AskIs
      <4>2. flight \in [Gaps -> FlightStates] /\ \A g \in Gaps : flight[g] \in FlightStates
        BY DEF DashInv, FlightInv
      <4>3. /\ flight' \in [Gaps -> FlightStates]
            /\ \A g \in Gaps : /\ flight'[g].has = flight[g].has /\ flight'[g].sig = flight[g].sig
                               /\ flight'[g].cover = flight[g].cover
        BY <3>1, <4>1, <4>2 DEF FlightStates
      <4> QED
        BY <1>1, <4>3 DEF DashInv, FlightInv, FlightOK, Quiet
    <3> QED
      BY <1>0, <1>1, <3>1, <3>3, <3>4, QuietWorld, QuietRows, QuietStore DEF DashInv
  <2> QED
    BY <2>2, <2>6, <2>7, <2>8
<1>4. CASE t \in Refreshers
  <2>1. threads[t].ret = "replace"
    BY <1>0, <1>4 DEF DashInv, RefreshersInv, RefresherOK, Loading
  <2>2. /\ cache' = [cache EXCEPT !.due = FALSE, !.refreshing = FALSE]
        /\ Step(t, NoThread) /\ flight' = flight
    BY <2>1 DEF Fail
  <2>3. StoreInv' /\ \A u \in Threads : GenOK(cache', threads[u])
    BY <1>2, <2>2
  <2>4. NoThread \in ThreadStates /\ NoThread.pc = "off"
    BY NothingTypes DEF NoThread
  <2>5. ThreadOK(logs, outside.gone, outside.now, NoThread) /\ RefresherOK(NoThread)
    BY <2>4, IdleIsOK DEF Loading, RefresherOK
  <2>6. ReadersInv'
    BY <1>1, <2>2, <2>4, <2>5, ReadersStep
  <2>7. RequestsInv' /\ RefreshersInv'
    BY <1>0, <1>1, <1>4, <2>2, <2>3, <2>5, RefresherSteps DEF DashInv
  <2> QED
    BY <1>0, <1>1, <2>2, <2>3, <2>6, <2>7, QuietWorld, QuietRows, QuietFlight DEF DashInv
<1> QED
  BY <1>3, <1>4

-----------------------------------------------------------------------------
(* The invariant.                                                          *)

LEMMA InitIsOK == Init => DashInv
<1> SUFFICES ASSUME Init PROVE DashInv
  OBVIOUS
<1>1. /\ work \in Works /\ work.written \in [Files -> Nat]
      /\ work.asks \in [Threads -> Seq(Asked)]
  BY DashboardAssumption DEF Init, Asked, Ops
<1>2. outside = [now |-> 0, gone |-> {}, failed |-> 0]
  BY DEF Init
<1>3. WorldInv
  <2>1. outside \in [now : Nat, gone : SUBSET Files, failed : Nat]
    BY <1>2
  <2>2. ASSUME NEW f \in Files PROVE [i \in 1..work.written[f] |-> 0] \in Seq(0..0)
    <3>1. work.written[f] \in Nat
      BY <1>1
    <3> QED
      BY <3>1
  <2>3. logs \in [Files -> Seq(0..outside.now)]
    <3>1. outside.now = 0
      BY <1>2
    <3>2. logs = [f \in Files |-> [i \in 1..work.written[f] |-> 0]]
      BY DEF Init
    <3> QED
      BY <2>2, <3>1, <3>2
  <2> QED
    BY <1>1, <2>1, <2>3 DEF WorldInv
<1>4. RowsInv
  <2>1. \A f \in Files : Len(logs[f]) \in Nat
    BY <1>3 DEF WorldInv
  <2>2. rows = [f \in Files |-> NoRow] /\ NoRow \in RowStates /\ NoRow.stamp[2] = 0 /\ NoRow.read = 0
    BY DEF Init, NoRow, RowStates
  <2> QED
    BY <2>1, <2>2 DEF RowsInv, RowOK
<1>5. FlightInv
  <2>1. EmptyFlight \in FlightStates /\ ~EmptyFlight.has
    BY NothingTypes DEF EmptyFlight, FlightStates
  <2> QED
    BY <2>1 DEF Init, FlightInv, FlightOK
<1>6. StoreInv
  <2>1. EmptyCache \in CacheStates /\ ~EmptyCache.has /\ EmptyCache.derived.gen = 0
    BY NothingTypes DEF EmptyCache, CacheStates
  <2> QED
    BY <2>1 DEF Init, StoreInv, StoredOK, CacheOK
<1> DEFINE first(t) == [NoThread EXCEPT !.pc = "ask", !.asks = work.asks[t]]
<1>7. \A t \in Threads : first(t) \in ThreadStates /\ first(t).pc = "ask"
  <2>1. NoThread \in ThreadStates
    BY NothingTypes
  <2> QED
    BY <1>1, <2>1 DEF ThreadStates, Places
<1>8. /\ threads = [t \in Threads \cup Refreshers |-> IF t \in Threads THEN first(t) ELSE NoThread]
      /\ page = [t \in Threads |-> NoPage]
  BY DEF Init
<1> HIDE DEF first
<1>9. NoThread \in ThreadStates /\ NoThread.pc = "off"
  BY NothingTypes DEF NoThread
<1>10. ReadersInv
  <2>1. \A t \in Threads \cup Refreshers :
          threads[t] \in ThreadStates /\ threads[t].pc \in {"ask", "off"}
    BY <1>7, <1>8, <1>9
  <2>2. \A t \in Threads \cup Refreshers : ThreadOK(logs, outside.gone, outside.now, threads[t])
    BY <2>1, IdleIsOK DEF Loading
  <2> QED
    BY <1>8, <2>1, <2>2 DEF ReadersInv
<1>11. RequestsInv
  <2>1. NoPage \in PageStates /\ NoPage.shown.gap = NoPage.gap
    BY NothingTypes DEF NoPage, PageStates, NoCover
  <2>2. \A t \in Threads : threads[t].pc = "ask"
    BY <1>7, <1>8
  <2>3. \A t \in Threads : RequestOK(threads[t]) /\ ~Streaming(threads[t]) /\ GenOK(cache, threads[t])
    BY <2>2 DEF RequestOK, Streaming, Shares, Loading, GenOK
  <2> QED
    BY <1>8, <2>1, <2>3 DEF RequestsInv, PageOK
<1>12. RefreshersInv
  <2>1. \A b \in Refreshers : threads[b] = NoThread
    BY <1>8, DashboardAssumption
  <2> QED
    BY <1>9, <2>1 DEF RefreshersInv, RefresherOK, Loading
<1> QED
  BY <1>3, <1>4, <1>5, <1>6, <1>10, <1>11, <1>12 DEF DashInv

LEMMA StutterKeeps == ASSUME DashInv, UNCHANGED vars PROVE DashInv'
<1>1. UNCHANGED <<work, logs, outside, rows, flight, cache, threads, page>>
  BY DEF vars
<1>2. Quiet
  BY <1>1, QuietUnchanged DEF DashInv
<1>3. ReadersInv' /\ RequestsInv' /\ RefreshersInv'
  BY <1>1 DEF DashInv, ReadersInv, RequestsInv, RefreshersInv
<1> QED
  BY <1>1, <1>2, <1>3, QuietWorld, QuietRows, QuietFlight, QuietStore DEF DashInv

LEMMA NextKeeps == DashInv /\ [Next]_vars => DashInv'
<1> SUFFICES ASSUME DashInv, [Next]_vars PROVE DashInv'
  OBVIOUS
<1>1. ASSUME NEW f \in Files, Write(f) \/ Delete(f) PROVE DashInv'
  BY <1>1, WriteKeeps, DeleteKeeps
<1>2. CASE Window
  BY <1>2, WindowKeeps
<1>3. ASSUME NEW t \in Threads \cup Refreshers, Loads(t) PROVE DashInv'
  BY <1>3, LookKeeps, ParseKeeps, StoreKeeps DEF Loads
<1>4. ASSUME NEW t \in Threads, Requests(t) PROVE DashInv'
  BY <1>4, EnsureBlocksKeeps, EnsuresKeeps, InstallKeeps, ReadCacheKeeps, DirectKeeps,
     DeriveKeeps, MemoKeeps DEF Requests
<1>5. ASSUME NEW t \in Threads, Streams(t) PROVE DashInv'
  BY <1>5, SignKeeps, EnterKeeps, PublishKeeps, WakeKeeps, ConnectKeeps, PollKeeps, TellKeeps,
     TellRunsKeeps, ToldKeeps DEF Streams
<1>6. ASSUME NEW b \in Refreshers, Refreshes(b) PROVE DashInv'
  BY <1>6, RefreshKeeps, ReplaceKeeps DEF Refreshes
<1>7. ASSUME NEW t \in Threads \cup Refreshers, Fail(t) PROVE DashInv'
  BY <1>7, FailKeeps
<1>8. ASSUME Next PROVE DashInv'
  BY <1>1, <1>2, <1>3, <1>4, <1>5, <1>6, <1>7, <1>8 DEF Next, Runs
<1> QED
  BY <1>8, StutterKeeps

\* Whatever the database, the shared parse of each gap, the page's sessions and a thread
\* half way through the logs hold, each agrees with what the logs were under the mark it
\* is kept by, and belongs to the gap it is kept for.
THEOREM DashInvariant == Spec => []DashInv
<1>1. Init => DashInv
  BY InitIsOK
<1>2. DashInv /\ [Next]_vars => DashInv'
  BY NextKeeps
<1> QED
  BY <1>1, <1>2, PTL DEF Spec

LEMMA NothingLooksFresh == DashInv => NothingStaleLooksFresh
<1> SUFFICES ASSUME DashInv PROVE NothingStaleLooksFresh
  OBVIOUS
<1>1. WorldInv
  BY DEF DashInv
<1>2. ASSUME NEW f \in Present, rows[f].stamp = Stamp(f) PROVE rows[f].read = Len(logs[f])
  <2>1. f \in Files /\ f \notin outside.gone /\ logs[f] \in Seq(0..outside.now)
    BY <1>1, PresentTypes DEF WorldInv
  <2>2. rows[f].stamp[2] = Len(logs[f]) /\ Len(logs[f]) \in Nat /\ rows[f].read \in Nat
    BY <1>2, <2>1 DEF Stamp, DashInv, RowsInv, RowStates
  <2> QED
    BY <2>1, <2>2 DEF DashInv, RowsInv, RowOK
<1>3. ASSUME NEW gap \in Gaps, flight[gap].has, flight[gap].sig = Signature
      PROVE  SaysWhatLogsSay(flight[gap].cover, flight[gap].sig)
  <2>1. Faithful(logs, outside.gone, {}, flight[gap].cover.seen, flight[gap].sig)
    BY <1>3 DEF DashInv, FlightInv, FlightOK, KeptOK
  <2>2. flight[gap].sig[1] = Cardinality(Present) /\ flight[gap].sig[2] = Newest(Present)
    BY <1>1, <1>3, MarkTypes
  <2> QED
    BY <2>1, <2>2, FaithfulSays
<1>4. ASSUME cache.has, cache.mark = Fingerprint, ~cache.missed
      PROVE  SaysWhatLogsSay(cache.cover, cache.mark)
  <2>1. cache.mark[1] = Cardinality(Present) /\ cache.mark[2] = Newest(Present) /\ cache.mark # <<>>
    <3>1. PICK a, b, c : Fingerprint = <<a, b, c>>
      BY DEF Fingerprint
    <3>2. Fingerprint # <<>>
      BY <3>1
    <3>3. Fingerprint[1] = Cardinality(Present) /\ Fingerprint[2] = Newest(Present)
      BY <1>1, MarkTypes
    <3> QED
      BY <1>4, <3>2, <3>3
  <2>2. Faithful(logs, outside.gone, {}, cache.cover.seen, cache.mark)
    BY <1>4, <2>1 DEF DashInv, StoreInv, StoredOK, KeptOK
  <2> QED
    BY <2>1, <2>2, FaithfulSays
<1> QED
  BY <1>2, <1>3, <1>4 DEF NothingStaleLooksFresh

\* Whatever is kept under the mark the logs have now - a row of the database, the shared
\* parse of a gap, the page's sessions - is what the logs say now, but for a log that came
\* after the mark and went, and for the sessions stamped when a parse was over.
THEOREM NothingStale == Spec => []NothingStaleLooksFresh
BY DashInvariant, NothingLooksFresh, PTL

LEMMA AnswersAreOwn == DashInv => AnswersAreTheirOwn
BY DEF DashInv, RequestsInv, PageOK, StoreInv, StoredOK, CacheOK, AnswersAreTheirOwn

\* No page is shown the runs of another gap than it asked for, and the totals that are
\* kept were derived from the sessions that are kept.
THEOREM EachItsOwnAnswer == Spec => []AnswersAreTheirOwn
BY DashInvariant, AnswersAreOwn, PTL

-----------------------------------------------------------------------------
(* What was read of each log.                                              *)

\* Of a log that was read, no more than there is; and it had been begun.
Heard(ls, seen) == \A f \in Files : seen[f] # Absent => ls[f] # <<>> /\ seen[f] \in 0..Len(ls[f])
ReaderHeard(ls, th) ==
    /\ Heard(ls, th.seen) /\ Heard(ls, th.got.seen)
    /\ th.pc = "store" => th.read <= Len(ls[First(th.next)])
CoversInv ==
    /\ \A t \in Threads \cup Refreshers : ReaderHeard(logs, threads[t])
    /\ \A t \in Threads : Heard(logs, page[t].shown.seen)
    /\ Heard(logs, cache.cover.seen) /\ Heard(logs, cache.derived.cover.seen)
    /\ \A gap \in Gaps : Heard(logs, flight[gap].cover.seen)

LEMMA HeardAtFirst == ASSUME NEW ls PROVE Heard(ls, Nothing) /\ ReaderHeard(ls, NoThread)
BY DEF Heard, ReaderHeard, Nothing, NoThread, NoCover

LEMMA HeardNow == ASSUME WorldInv PROVE Heard(logs, Current)
BY PresentTypes DEF Heard, WorldInv

\* One more log has been read.
LEMMA HeardReads ==
    ASSUME NEW th \in ThreadStates, NEW f \in Files, NEW n \in Int, ReaderHeard(logs, th),
           n # Absent => logs[f] # <<>> /\ n \in 0..Len(logs[f])
    PROVE  ReaderHeard(logs, Covered(th, f, n))
<1>1. /\ Covered(th, f, n).pc = "look" /\ Covered(th, f, n).got = th.got
      /\ Covered(th, f, n).seen = [th.seen EXCEPT ![f] = n]
  BY DEF Covered, ThreadStates
<1>2. th.seen \in Seens
  BY DEF ThreadStates
<1> QED
  BY <1>1, <1>2 DEF ReaderHeard, Heard, Seens

\* A step that leaves the logs alone has to answer for what it changes.
LEMMA CoversStep ==
    ASSUME CoversInv, logs' = logs,
           \A t \in Threads \cup Refreshers : threads'[t] = threads[t] \/ ReaderHeard(logs, threads'[t]),
           \A t \in Threads : page'[t].shown = page[t].shown \/ Heard(logs, page'[t].shown.seen),
           cache'.cover = cache.cover \/ Heard(logs, cache'.cover.seen),
           cache'.derived.cover = cache.derived.cover \/ Heard(logs, cache'.derived.cover.seen),
           \A gap \in Gaps :
             flight'[gap].cover = flight[gap].cover \/ Heard(logs, flight'[gap].cover.seen)
    PROVE  CoversInv'
BY DEF CoversInv

\* One thread moves and its page may be told; nothing else is touched.
LEMMA CoversMove ==
    ASSUME DashInv, CoversInv, UNCHANGED <<logs, cache, flight>>,
           NEW t \in Threads \cup Refreshers, NEW th, Step(t, th), ReaderHeard(logs, th),
           \A u \in Threads : page'[u].shown = page[u].shown \/ Heard(logs, page'[u].shown.seen)
    PROVE  CoversInv'
<1>1. \A u \in Threads \cup Refreshers : threads'[u] = IF u = t THEN th ELSE threads[u]
  BY DEF DashInv, ReadersInv, Step
<1> QED
  BY <1>1, CoversStep

LEMMA LookHears ==
    ASSUME DashInv, CoversInv, NEW t \in Threads \cup Refreshers, Look(t)
    PROVE  CoversInv'
<1> DEFINE th == threads[t]
           f == First(th.next)
<1>0. /\ th.pc = "look" /\ th.next # {} /\ WorldInv
      /\ UNCHANGED <<work, logs, outside, rows, flight, cache, page>>
  BY DEF Look, At, DashInv
<1>1. /\ th \in ThreadStates /\ ThreadOK(logs, outside.gone, outside.now, th)
      /\ ReaderHeard(logs, th)
  BY DEF DashInv, ReadersInv, CoversInv
<1>2. f \in Files /\ logs[f] # <<>> /\ logs[f] \in Seq(0..outside.now)
  BY <1>0, <1>1, FirstIsOne DEF ThreadStates, ThreadOK, ListOK, Loading, WorldInv
<1>3. Length(f) \in 0..Len(logs[f])
  BY <1>2 DEF Length
<1>4. f \notin outside.gone => rows[f].read \in 0..Len(logs[f])
  BY <1>2 DEF DashInv, RowsInv, RowOK, RowStates
<1> HIDE DEF th, f
<1>5. ASSUME NEW n \in Int, n # Absent => n \in 0..Len(logs[f]), Step(t, Covered(th, f, n))
      PROVE  CoversInv'
  <2>1. ReaderHeard(logs, Covered(th, f, n))
    BY <1>1, <1>2, <1>5, HeardReads
  <2> QED
    BY <1>0, <1>5, <2>1, CoversMove
<1>6. ASSUME Step(t, [th EXCEPT !.pc = "parse", !.stamp = Stamp(f)]) PROVE CoversInv'
  <2>1. ReaderHeard(logs, [th EXCEPT !.pc = "parse", !.stamp = Stamp(f)])
    BY <1>1 DEF ReaderHeard, ThreadStates
  <2> QED
    BY <1>0, <1>6, <2>1, CoversMove
<1>7. \/ Step(t, Covered(th, f, Absent))
      \/ Step(t, Covered(th, f, Length(f)))
      \/ f \notin outside.gone /\ Step(t, Covered(th, f, rows[f].read))
      \/ Step(t, [th EXCEPT !.pc = "parse", !.stamp = Stamp(f)])
  BY DEF Look, th, f, Gone
<1>8. Absent \in Int
  BY DEF Absent
<1> QED
  BY <1>3, <1>4, <1>5, <1>6, <1>7, <1>8

LEMMA ParseHears ==
    ASSUME DashInv, CoversInv, NEW t \in Threads \cup Refreshers, Parse(t)
    PROVE  CoversInv'
<1> DEFINE th == threads[t]
           new == [th EXCEPT !.pc = "store", !.read = Length(First(th.next))]
<1>0. th.pc = "parse" /\ Step(t, new) /\ UNCHANGED <<work, logs, outside, rows, flight, cache, page>>
  BY DEF Parse, At
<1>1. th \in ThreadStates /\ ListOK(logs, th) /\ ReaderHeard(logs, th)
  BY DEF DashInv, ReadersInv, ThreadOK, CoversInv
<1>2. First(th.next) \in Files
  BY <1>0, <1>1, FirstIsOne DEF ThreadStates, ListOK
<1>3. Length(First(th.next)) <= Len(logs[First(th.next)])
  BY <1>2 DEF Length, DashInv, WorldInv
<1>4. ReaderHeard(logs, new)
  BY <1>1, <1>3 DEF ReaderHeard, ThreadStates
<1> HIDE DEF new
<1> QED
  BY <1>0, <1>4, CoversMove

LEMMA StoreHears ==
    ASSUME DashInv, CoversInv, NEW t \in Threads \cup Refreshers, Store(t)
    PROVE  CoversInv'
<1> DEFINE th == threads[t]
           f == First(th.next)
           new == Covered(th, f, th.read)
<1>0. th.pc = "store" /\ Step(t, new) /\ UNCHANGED <<work, logs, outside, flight, cache, page>>
  BY DEF Store, At
<1>1. th \in ThreadStates /\ ListOK(logs, th) /\ ReaderHeard(logs, th) /\ th.read \in Nat
  BY DEF DashInv, ReadersInv, ThreadOK, ThreadStates, CoversInv
<1>2. f \in Files /\ logs[f] # <<>> /\ th.read <= Len(logs[f]) /\ Len(logs[f]) \in Nat
  BY <1>0, <1>1, FirstIsOne DEF ThreadStates, ListOK, ReaderHeard, Loading, DashInv, WorldInv
<1>3. ReaderHeard(logs, new)
  <2>1. th.read \in Int /\ th.read \in 0..Len(logs[f])
    BY <1>1, <1>2
  <2> HIDE DEF f, th
  <2> QED
    BY <1>1, <1>2, <2>1, HeardReads
<1> HIDE DEF new
<1> QED
  BY <1>0, <1>3, CoversMove

\* What a reader has read when it is through.
LEMMA FoundHeard ==
    ASSUME DashInv, CoversInv, NEW t \in Threads \cup Refreshers, NEW ret, Loaded(t, ret)
    PROVE  Found(t) \in Covers /\ Heard(logs, Found(t).seen)
<1>1. Found(t) \in Covers /\ Found(t).seen = threads[t].seen
  BY FoundIs
<1>2. Heard(logs, threads[t].seen)
  BY DEF CoversInv, ReaderHeard
<1> QED
  BY <1>1, <1>2

\* A thread that reads the directory anew, that has its question, or that is done, has
\* read nothing yet.
LEMMA LoadHeard ==
    ASSUME NEW th \in ThreadStates, ReaderHeard(logs, th), NEW gap, NEW ret
    PROVE  ReaderHeard(logs, LoadFor(th, gap, ret))
<1>1. /\ LoadFor(th, gap, ret).pc = "look" /\ LoadFor(th, gap, ret).seen = Nothing
      /\ LoadFor(th, gap, ret).got = th.got
  BY DEF LoadFor, ThreadStates
<1> QED
  BY <1>1, HeardAtFirst DEF ReaderHeard

LEMMA BackHeard ==
    ASSUME NEW t \in Threads, NEW pc, pc # "store"
    PROVE  ReaderHeard(logs, Back(t, pc))
<1>1. Back(t, pc).pc = pc /\ Back(t, pc).seen = Nothing /\ Back(t, pc).got = NoCover
  BY DEF Back, NoThread
<1> QED
  BY <1>1, HeardAtFirst DEF ReaderHeard, NoThread

LEMMA DoneHeard ==
    ASSUME NEW t \in Threads PROVE ReaderHeard(logs, Done(t)) /\ ReaderHeard(logs, Refused(t))
<1>1. /\ Done(t).pc = "ask" /\ Done(t).seen = Nothing /\ Done(t).got = NoCover
      /\ Refused(t).pc = "ask" /\ Refused(t).seen = Nothing /\ Refused(t).got = NoCover
  BY DEF Done, Refused, NoThread
<1> QED
  BY <1>1, HeardAtFirst DEF ReaderHeard, NoThread

\* The steps of a thread that tell its page nothing of the runs.
LEMMA SignHears ==
    ASSUME DashInv, CoversInv, NEW t \in Threads, Sign(t) PROVE CoversInv'
<1> DEFINE new == [threads[t] EXCEPT !.pc = "enter", !.mark = Signature]
<1>1. Step(t, new) /\ UNCHANGED <<logs, cache, flight, page>>
  BY DEF Sign
<1>2. ReaderHeard(logs, new)
  BY DEF DashInv, ReadersInv, CoversInv, ReaderHeard, ThreadStates
<1> HIDE DEF new
<1> QED
  BY <1>1, <1>2, CoversMove

LEMMA PollHears ==
    ASSUME DashInv, CoversInv, NEW t \in Threads, Poll(t) PROVE CoversInv'
<1> DEFINE new == [threads[t] EXCEPT !.pc = "tell", !.seen = Current,
                      !.next = {f \in Present : Current[f] # threads[t].last[f]}]
<1>1. /\ Step(t, new) /\ UNCHANGED <<logs, cache, flight>>
      /\ page' = [page EXCEPT ![t].mark = Signature]
  BY DEF Poll
<1>2. new.pc = "tell" /\ new.seen = Current /\ new.got = threads[t].got
  BY DEF DashInv, ReadersInv, ThreadStates
<1> HIDE DEF new
<1>3. ReaderHeard(logs, new)
  BY <1>2, HeardNow DEF DashInv, CoversInv, ReaderHeard
<1>4. \A u \in Threads : page'[u].shown = page[u].shown
  BY <1>1 DEF DashInv, RequestsInv, PageStates
<1> QED
  BY <1>1, <1>3, <1>4, CoversMove

LEMMA TellHears ==
    ASSUME DashInv, CoversInv, NEW t \in Threads, Tell(t) PROVE CoversInv'
<1> DEFINE f == First(threads[t].next)
           new == [threads[t] EXCEPT !.next = threads[t].next \ {f}]
<1>1. /\ Step(t, new) /\ UNCHANGED <<logs, cache, flight>> /\ threads[t].pc = "tell"
      /\ page' = [page EXCEPT ![t].told[f] = Length(f)]
  BY DEF Tell, At
<1>2. ReaderHeard(logs, new)
  BY <1>1 DEF DashInv, ReadersInv, CoversInv, ReaderHeard, ThreadStates
<1> HIDE DEF new, f
<1>3. \A u \in Threads : page'[u].shown = page[u].shown
  BY <1>1 DEF DashInv, RequestsInv, PageStates
<1> QED
  BY <1>1, <1>2, <1>3, CoversMove

LEMMA TellRunsHears ==
    ASSUME DashInv, CoversInv, NEW t \in Threads, TellRuns(t) PROVE CoversInv'
<1> DEFINE new == [threads[t] EXCEPT !.pc = "sign", !.last = threads[t].seen]
<1>1. /\ Step(t, new) /\ UNCHANGED <<logs, cache, flight>>
      /\ page' = [page EXCEPT ![t].late = FALSE]
  BY DEF TellRuns, Baseline
<1>2. ReaderHeard(logs, new)
  BY DEF DashInv, ReadersInv, CoversInv, ReaderHeard, ThreadStates
<1> HIDE DEF new
<1>3. \A u \in Threads : page'[u].shown = page[u].shown
  BY <1>1 DEF DashInv, RequestsInv, PageStates
<1> QED
  BY <1>1, <1>2, <1>3, CoversMove

\* A thread takes what another's parse came to.
LEMMA TakesHeard ==
    ASSUME DashInv, CoversInv, NEW t \in Threads, threads[t].asks # <<>>
    PROVE  ReaderHeard(logs, [threads[t] EXCEPT !.pc = "told", !.got = Shared(t).cover])
<1>1. Ask(t).gap \in Gaps
  BY AskIs DEF DashInv
<1>2. Heard(logs, Shared(t).cover.seen)
  BY <1>1 DEF Shared, CoversInv
<1> QED
  BY <1>2 DEF DashInv, ReadersInv, CoversInv, ReaderHeard, ThreadStates

LEMMA WakeHears ==
    ASSUME DashInv, CoversInv, NEW t \in Threads, Wake(t) PROVE CoversInv'
<1>1. UNCHANGED <<logs, cache, flight, page>> /\ threads[t].pc = "woken"
  BY DEF Wake, At
<1>2. threads[t].asks # <<>>
  BY <1>1 DEF DashInv, RequestsInv, RequestOK
<1>3. CASE Step(t, [threads[t] EXCEPT !.pc = "told", !.got = Shared(t).cover])
  BY <1>1, <1>2, <1>3, TakesHeard, CoversMove
<1>4. CASE Step(t, [threads[t] EXCEPT !.pc = "enter"])
  <2>1. ReaderHeard(logs, [threads[t] EXCEPT !.pc = "enter"])
    BY DEF DashInv, ReadersInv, CoversInv, ReaderHeard, ThreadStates
  <2> QED
    BY <1>1, <1>4, <2>1, CoversMove
<1> QED
  BY <1>3, <1>4 DEF Wake

LEMMA EnterHears ==
    ASSUME DashInv, CoversInv, NEW t \in Threads, Enter(t) PROVE CoversInv'
<1>0. UNCHANGED <<logs, cache>> /\ threads[t].pc = "enter"
  BY DEF Enter, At
<1>1. /\ threads[t].asks # <<>> /\ threads[t] \in ThreadStates /\ ReaderHeard(logs, threads[t])
      /\ flight \in [Gaps -> FlightStates]
  BY <1>0 DEF DashInv, RequestsInv, RequestOK, ReadersInv, CoversInv, FlightInv
<1>2. CASE UNCHANGED <<flight, page>>
           /\ Step(t, [threads[t] EXCEPT !.pc = "told", !.got = Shared(t).cover])
  BY <1>0, <1>1, <1>2, TakesHeard, CoversMove
<1>3. CASE /\ Step(t, [threads[t] EXCEPT !.pc = "wait"]) /\ flight' = flight
           /\ page' = [page EXCEPT ![t].late = TRUE]
  <2>1. ReaderHeard(logs, [threads[t] EXCEPT !.pc = "wait"])
    BY <1>1 DEF ReaderHeard, ThreadStates
  <2>2. \A u \in Threads : page'[u].shown = page[u].shown
    BY <1>3 DEF DashInv, RequestsInv, PageStates
  <2> QED
    BY <1>0, <1>3, <2>1, <2>2, CoversMove
<1>4. CASE /\ flight' = [flight EXCEPT ![Ask(t).gap].busy = TRUE] /\ page' = page
           /\ Step(t, LoadFor(threads[t], Ask(t).gap, "publish"))
  <2>1. PICK new : new = LoadFor(threads[t], Ask(t).gap, "publish")
    OBVIOUS
  <2>2. ReaderHeard(logs, new)
    BY <1>1, <2>1, LoadHeard
  <2>3. \A u \in Threads \cup Refreshers : threads'[u] = IF u = t THEN new ELSE threads[u]
    BY <1>4, <2>1 DEF DashInv, ReadersInv, Step
  <2>4. \A gap \in Gaps : flight'[gap].cover = flight[gap].cover
    BY <1>1, <1>4 DEF FlightStates
  <2> QED
    BY <1>0, <1>4, <2>2, <2>3, <2>4, CoversStep
<1> QED
  BY <1>2, <1>3, <1>4 DEF Enter

\* A page is told what its thread has read or been given.
LEMMA ConnectHears ==
    ASSUME DashInv, CoversInv, NEW t \in Threads, Connect(t) PROVE CoversInv'
<1> DEFINE new == [threads[t] EXCEPT !.pc = "poll", !.last = Current]
<1>1. Step(t, new) /\ UNCHANGED <<logs, cache, flight>>
  BY DEF Connect
<1>2. ReaderHeard(logs, new)
  BY DEF DashInv, ReadersInv, CoversInv, ReaderHeard, ThreadStates
<1> HIDE DEF new
<1>3. \A u \in Threads : \/ page'[u].shown = page[u].shown
                        \/ page'[u].shown = [gap |-> Ask(t).gap, seen |-> Nothing]
  BY DEF Connect, DashInv, RequestsInv, PageStates
<1>4. \A u \in Threads : page'[u].shown = page[u].shown \/ Heard(logs, page'[u].shown.seen)
  BY <1>3, HeardAtFirst
<1> QED
  BY <1>1, <1>2, <1>4, CoversMove

LEMMA ToldHears ==
    ASSUME DashInv, CoversInv, NEW t \in Threads, Told(t) PROVE CoversInv'
<1>1. UNCHANGED <<logs, cache, flight>>
  BY DEF Told
<1>2. CASE Step(t, Done(t)) /\ page' = page
  BY <1>1, <1>2, DoneHeard, CoversMove
<1>3. CASE /\ page' = [page EXCEPT ![t].shown = threads[t].got]
           /\ Step(t, [NoThread EXCEPT !.pc = "poll", !.asks = threads[t].asks, !.last = threads[t].last])
  <2> DEFINE new == [NoThread EXCEPT !.pc = "poll", !.asks = threads[t].asks, !.last = threads[t].last]
  <2>1. ReaderHeard(logs, new)
    BY HeardAtFirst DEF ReaderHeard, NoThread
  <2>2. \A u \in Threads : page'[u].shown = page[u].shown \/ page'[u].shown = threads[t].got
    BY <1>3 DEF DashInv, RequestsInv, PageStates
  <2>3. Heard(logs, threads[t].got.seen)
    BY DEF CoversInv, ReaderHeard
  <2> HIDE DEF new
  <2>4. Step(t, new)
    BY <1>3 DEF new
  <2> QED
    BY <1>1, <2>1, <2>2, <2>3, <2>4, CoversMove
<1> QED
  BY <1>2, <1>3 DEF Told

\* Waking up changes nothing of it.
LEMMA WokenHears ==
    ASSUME DashInv, CoversInv, UNCHANGED <<logs, page>>, NEW t \in Threads, NEW th \in ThreadStates,
           ReaderHeard(logs, th), threads' = Woken([threads EXCEPT ![t] = th]),
           cache'.cover = cache.cover, cache'.derived.cover = cache.derived.cover,
           \A gap \in Gaps :
             flight'[gap].cover = flight[gap].cover \/ Heard(logs, flight'[gap].cover.seen)
    PROVE  CoversInv'
<1>1. threads \in [Threads \cup Refreshers -> ThreadStates]
  BY DEF DashInv, ReadersInv
<1>2. threads' = [u \in Threads \cup Refreshers |-> Wakes(IF u = t THEN th ELSE threads[u])]
  BY <1>1 DEF Woken, Wakes
<1>3. ASSUME NEW was \in ThreadStates, ReaderHeard(logs, was)
      PROVE  ReaderHeard(logs, Wakes(was))
  BY <1>3 DEF ReaderHeard, Wakes, ThreadStates
<1>4. ASSUME NEW u \in Threads \cup Refreshers PROVE ReaderHeard(logs, threads'[u])
  <2>1. PICK was \in ThreadStates : was = IF u = t THEN th ELSE threads[u]
    BY <1>1
  <2>2. threads'[u] = Wakes(was) /\ ReaderHeard(logs, was)
    BY <1>2, <2>1 DEF CoversInv
  <2> QED
    BY <1>3, <2>2
<1> QED
  BY <1>4, CoversStep

LEMMA PublishHears ==
    ASSUME DashInv, CoversInv, NEW t \in Threads, Publish(t) PROVE CoversInv'
<1> DEFINE new == [threads[t] EXCEPT !.pc = "told", !.got = Found(t)]
           shared == [has |-> TRUE, sig |-> threads[t].mark, cover |-> Found(t), busy |-> FALSE]
<1>0. Loaded(t, "publish") /\ UNCHANGED <<logs, cache, page>>
  BY DEF Publish
<1>1. threads \in [Threads \cup Refreshers -> ThreadStates] /\ flight \in [Gaps -> FlightStates]
  BY DEF DashInv, ReadersInv, FlightInv
<1>2. Heard(logs, Found(t).seen) /\ Found(t) \in Covers
  BY <1>0, FoundHeard
<1>3. new \in ThreadStates /\ ReaderHeard(logs, new)
  <2>1. PICK cover \in Covers : cover = Found(t)
    BY <1>2
  <2>2. threads[t] \in ThreadStates /\ new = [threads[t] EXCEPT !.pc = "told", !.got = cover]
    BY <1>1, <2>1
  <2>3. /\ new \in ThreadStates /\ new.pc = "told" /\ new.got = cover
        /\ new.seen = threads[t].seen
    BY <2>1, <2>2 DEF ThreadStates, Places
  <2> HIDE DEF new
  <2> QED
    BY <1>2, <2>1, <2>3 DEF ReaderHeard, CoversInv
<1>4. threads' = Woken([threads EXCEPT ![t] = new])
  <2>1. [threads EXCEPT ![t].pc = "told", ![t].got = Found(t)] = [threads EXCEPT ![t] = new]
    BY <1>1
  <2> QED
    BY <2>1 DEF Publish
<1>5. \A gap \in Gaps :
        flight'[gap].cover = flight[gap].cover \/ Heard(logs, flight'[gap].cover.seen)
  <2>1. flight' = [flight EXCEPT ![Ask(t).gap] = shared] /\ shared.cover = Found(t)
    BY DEF Publish
  <2> HIDE DEF shared
  <2>2. \A gap \in Gaps : flight'[gap] = flight[gap] \/ flight'[gap] = shared
    BY <1>1, <2>1
  <2> QED
    BY <1>2, <2>1, <2>2
<1> HIDE DEF new
<1> QED
  BY <1>0, <1>3, <1>4, <1>5, WokenHears

\* What is installed is what was read; the totals start again.
LEMMA InstalledHeard ==
    ASSUME DashInv, NEW c, c \in CacheStates, NEW gap \in Nat, NEW cover \in Covers, Heard(logs, cover.seen),
           NEW mark \in Marks \cup {<<>>}
    PROVE  /\ Heard(logs, Installed(c, gap, cover, mark).cover.seen)
           /\ Heard(logs, Installed(c, gap, cover, mark).derived.cover.seen)
<1>1. /\ Installed(c, gap, cover, mark).cover = cover
      /\ Installed(c, gap, cover, mark).derived = EmptyCache.derived
  BY DEF Installed, CacheStates
<1>2. EmptyCache.derived.cover = NoCover
  BY DEF EmptyCache
<1> QED
  BY <1>1, <1>2, HeardAtFirst DEF NoCover

LEMMA WindowHears == ASSUME DashInv, CoversInv, Window PROVE CoversInv'
<1>1. cache' = [cache EXCEPT !.due = TRUE] /\ UNCHANGED <<logs, flight, threads, page>>
  BY DEF Window
<1>2. cache'.cover = cache.cover /\ cache'.derived = cache.derived
  BY <1>1 DEF DashInv, StoreInv, CacheStates
<1> QED
  BY <1>1, <1>2, CoversStep

LEMMA EnsureBlocksHears ==
    ASSUME DashInv, CoversInv, NEW t \in Threads, EnsureBlocks(t) PROVE CoversInv'
<1>1. PICK new : new = LoadFor(threads[t], Ask(t).gap, "install")
  OBVIOUS
<1>2. /\ cache' = [cache EXCEPT !.refreshing = TRUE] /\ Step(t, new)
      /\ UNCHANGED <<logs, flight, page>>
  BY <1>1 DEF EnsureBlocks
<1>3. cache'.cover = cache.cover /\ cache'.derived = cache.derived
  BY <1>2 DEF DashInv, StoreInv, CacheStates
<1>4. ReaderHeard(logs, new)
  BY <1>1, LoadHeard DEF DashInv, ReadersInv, CoversInv
<1>5. \A u \in Threads \cup Refreshers : threads'[u] = IF u = t THEN new ELSE threads[u]
  BY <1>2 DEF DashInv, ReadersInv, Step
<1> QED
  BY <1>2, <1>3, <1>4, <1>5, CoversStep

LEMMA EnsuresHears ==
    ASSUME DashInv, CoversInv, NEW t \in Threads, Ensures(t) PROVE CoversInv'
<1> DEFINE kept == IF cache.has THEN cache ELSE Placeholder(cache, Ask(t).gap)
<1>1. /\ UNCHANGED <<logs, flight, page>> /\ threads[t].asks # <<>>
      /\ cache' = kept \/ cache' = [kept EXCEPT !.refreshing = TRUE]
  BY DEF Ensures, Asks
<1>2. \A u \in Threads \cup Refreshers : ReaderHeard(logs, threads'[u])
  <2>1. threads \in [Threads \cup Refreshers -> ThreadStates]
    BY DEF DashInv, ReadersInv
  <2>2. \A u \in Threads \cup Refreshers :
          /\ threads'[u].seen = threads[u].seen /\ threads'[u].got = threads[u].got
          /\ threads'[u].pc = "store" => threads'[u] = threads[u]
    <3>1. ASSUME Step(t, [threads[t] EXCEPT !.pc = "read"]), NEW u \in Threads \cup Refreshers
          PROVE  /\ threads'[u].seen = threads[u].seen /\ threads'[u].got = threads[u].got
                 /\ threads'[u].pc = "store" => threads'[u] = threads[u]
      BY <2>1, <3>1 DEF Step, ThreadStates
    <3>2. ASSUME NEW b \in Refreshers, NEW u \in Threads \cup Refreshers,
                 threads' = [threads EXCEPT ![t].pc = "read", ![b].pc = "refresh",
                                            ![b].gap = Ask(t).gap]
          PROVE  /\ threads'[u].seen = threads[u].seen /\ threads'[u].got = threads[u].got
                 /\ threads'[u].pc = "store" => threads'[u] = threads[u]
      <4>1. PICK read : read = [threads[t] EXCEPT !.pc = "read"]
        OBVIOUS
      <4>2. PICK one : one = [threads EXCEPT ![t] = read]
        OBVIOUS
      <4>3. PICK next : next = [one[b] EXCEPT !.pc = "refresh", !.gap = Ask(t).gap]
        OBVIOUS
      <4>4. threads[t] \in ThreadStates
        BY <2>1
      <4>5. /\ read.pc = "read" /\ read.seen = threads[t].seen /\ read.got = threads[t].got
            /\ DOMAIN read = DOMAIN threads[t]
        BY <4>1, <4>4 DEF ThreadStates
      <4>6. \A v \in Threads \cup Refreshers : one[v] = IF v = t THEN read ELSE threads[v]
        BY <2>1, <4>2
      <4>7. DOMAIN one[b] = DOMAIN threads[b] /\ threads[b] \in ThreadStates
        BY <2>1, <4>5, <4>6 DEF ThreadStates
      <4>8. next.seen = one[b].seen /\ next.got = one[b].got /\ next.pc = "refresh"
        BY <4>3, <4>7 DEF ThreadStates
      <4>9. threads'[u] = IF u = b THEN next ELSE one[u]
        BY <2>1, <3>2, <4>1, <4>2, <4>3
      <4> QED
        BY <4>5, <4>6, <4>8, <4>9
    <3>3. \/ Step(t, [threads[t] EXCEPT !.pc = "read"])
          \/ \E b \in Refreshers :
               threads' = [threads EXCEPT ![t].pc = "read", ![b].pc = "refresh", ![b].gap = Ask(t).gap]
      <4>1. ASSUME \E b \in Refreshers : At(b, "off"),
                   LET b == CHOOSE r \in Refreshers : At(r, "off")
                   IN  threads' = [threads EXCEPT ![t].pc = "read", ![b].pc = "refresh",
                                                  ![b].gap = Ask(t).gap]
            PROVE  \E b \in Refreshers :
               threads' = [threads EXCEPT ![t].pc = "read", ![b].pc = "refresh", ![b].gap = Ask(t).gap]
        <5>1. PICK b : b = CHOOSE r \in Refreshers : At(r, "off")
          OBVIOUS
        <5>2. b \in Refreshers
          BY <4>1, <5>1
        <5> QED
          BY <4>1, <5>1, <5>2
      <4> QED
        BY <4>1 DEF Ensures
    <3> QED
      BY <3>1, <3>2, <3>3
  <2> QED
    BY <2>2 DEF CoversInv, ReaderHeard
<1>3. cache' \in CacheStates /\ Heard(logs, cache'.cover.seen) /\ Heard(logs, cache'.derived.cover.seen)
  <2>1. kept \in CacheStates /\ Heard(logs, kept.cover.seen) /\ Heard(logs, kept.derived.cover.seen)
    <3>1. PICK gap \in Nat : gap = Ask(t).gap
      BY <1>1, AskIs DEF DashInv
    <3>2. PICK cover : cover = [gap |-> gap, seen |-> Nothing]
      OBVIOUS
    <3>3. cover \in Covers /\ Heard(logs, cover.seen) /\ <<>> \in Marks \cup {<<>>}
      BY <3>2, NothingTypes, HeardAtFirst DEF Covers
    <3>4. cache \in CacheStates /\ ReadersInv
      BY DEF DashInv, StoreInv
    <3>5. PICK fresh : fresh = Installed(cache, gap, cover, <<>>)
      OBVIOUS
    <3>6. fresh \in CacheStates /\ Heard(logs, fresh.cover.seen) /\ Heard(logs, fresh.derived.cover.seen)
      BY <3>3, <3>4, <3>5, InstalledIs, InstalledHeard
    <3>7. fresh = Placeholder(cache, Ask(t).gap)
      BY <3>1, <3>2, <3>5 DEF Placeholder
    <3> QED
      BY <3>4, <3>6, <3>7 DEF CoversInv
  <2> HIDE DEF kept
  <2>2. /\ cache' \in CacheStates
        /\ cache'.cover = kept.cover /\ cache'.derived = kept.derived
    BY <1>1, <2>1 DEF CacheStates
  <2> QED
    BY <2>1, <2>2
<1> QED
  BY <1>1, <1>2, <1>3, CoversStep

LEMMA InstallHears ==
    ASSUME DashInv, CoversInv, NEW t \in Threads, Install(t) PROVE CoversInv'
<1>1. Loaded(t, "install") /\ UNCHANGED <<logs, flight, page>> /\ Step(t, Back(t, "read"))
  BY DEF Install
<1>2. PICK gap \in Nat : gap = threads[t].gap
  BY DEF DashInv, ReadersInv, ThreadStates
<1>3. PICK cover \in Covers : cover = Found(t) /\ Heard(logs, cover.seen)
  BY <1>1, FoundHeard
<1>4. PICK c : c = Installed(cache, gap, cover, Fingerprint)
  OBVIOUS
<1>5. c \in CacheStates /\ Heard(logs, c.cover.seen) /\ Heard(logs, c.derived.cover.seen)
  <2>1. cache \in CacheStates /\ ReadersInv
    BY DEF DashInv, StoreInv
  <2>2. PICK mark \in Marks \cup {<<>>} : mark = Fingerprint
    BY MarkTypes DEF DashInv, Marks
  <2> QED
    BY <1>3, <1>4, <2>1, <2>2, InstalledIs, InstalledHeard
<1>6. PICK missed : cache' = [c EXCEPT !.refreshing = FALSE, !.missed = missed]
  BY <1>2, <1>3, <1>4 DEF Install
<1>7. cache'.cover = c.cover /\ cache'.derived = c.derived
  BY <1>5, <1>6 DEF CacheStates
<1>8. PICK new : new = Back(t, "read")
  OBVIOUS
<1>9. ReaderHeard(logs, new)
  BY <1>8, BackHeard
<1>10. \A u \in Threads \cup Refreshers : threads'[u] = IF u = t THEN new ELSE threads[u]
  BY <1>1, <1>8 DEF DashInv, ReadersInv, Step
<1> QED
  BY <1>1, <1>5, <1>7, <1>9, <1>10, CoversStep

\* The request goes on with what it has, or shows it.
LEMMA AnswerHears ==
    ASSUME DashInv, CoversInv, NEW t \in Threads, NEW cover \in Covers, Heard(logs, cover.seen),
           Answer(t, cover), logs' = logs, flight' = flight,
           cache'.cover = cache.cover,
           cache'.derived.cover = cache.derived.cover \/ Heard(logs, cache'.derived.cover.seen)
    PROVE  CoversInv'
<1>1. Step(t, Done(t)) /\ page' = [page EXCEPT ![t].op = Ask(t).op, ![t].gap = Ask(t).gap, ![t].shown = cover]
  BY DEF Answer
<1>2. PICK new : new = Done(t) /\ ReaderHeard(logs, new)
  BY DoneHeard
<1>3. \A u \in Threads \cup Refreshers : threads'[u] = IF u = t THEN new ELSE threads[u]
  BY <1>1, <1>2 DEF DashInv, ReadersInv, Step
<1>4. \A u \in Threads : page'[u].shown = page[u].shown \/ page'[u].shown = cover
  BY <1>1 DEF DashInv, RequestsInv, PageStates
<1> QED
  BY <1>2, <1>3, <1>4, CoversStep

LEMMA GoesOnHears ==
    ASSUME DashInv, CoversInv, NEW t \in Threads, NEW cover \in Covers, Heard(logs, cover.seen),
           NEW gen, GoesOn(t, cover, gen), UNCHANGED <<logs, flight, cache>>
    PROVE  CoversInv'
<1>1. CASE Answer(t, cover)
  BY <1>1, AnswerHears
<1>2. CASE Step(t, [Back(t, "derive") EXCEPT !.got = cover, !.gen = gen]) /\ page' = page
  <2>1. PICK new : new = [Back(t, "derive") EXCEPT !.got = cover, !.gen = gen]
    OBVIOUS
  <2>2. new.pc = "derive" /\ new.seen = Nothing /\ new.got = cover
    BY <2>1 DEF Back, NoThread
  <2>3. ReaderHeard(logs, new)
    BY <2>2, HeardAtFirst DEF ReaderHeard
  <2> QED
    BY <1>2, <2>1, <2>3, CoversMove
<1> QED
  BY <1>1, <1>2 DEF GoesOn

LEMMA ReadCacheHears ==
    ASSUME DashInv, CoversInv, NEW t \in Threads, ReadCache(t) PROVE CoversInv'
<1>1. UNCHANGED <<logs, cache, flight>>
  BY DEF ReadCache
<1>2. cache.cover \in Covers /\ Heard(logs, cache.cover.seen)
  BY DEF DashInv, StoreInv, CacheStates, CoversInv
<1>3. CASE GoesOn(t, cache.cover, cache.gen)
  BY <1>1, <1>2, <1>3, GoesOnHears
<1>4. ASSUME Step(t, [Back(t, "ask") EXCEPT !.tries = Back(t, "ask").tries + 1]), page' = page
      PROVE  CoversInv'
  <2>1. PICK new : new = [Back(t, "ask") EXCEPT !.tries = Back(t, "ask").tries + 1]
    OBVIOUS
  <2>2. new.pc = "ask" /\ new.seen = Nothing /\ new.got = NoCover
    BY <2>1 DEF Back, NoThread
  <2>3. ReaderHeard(logs, new)
    BY <2>2, HeardAtFirst DEF ReaderHeard, NoThread
  <2> QED
    BY <1>1, <1>4, <2>1, <2>3, CoversMove
<1>5. ASSUME Step(t, LoadFor(threads[t], Ask(t).gap, "direct")), page' = page PROVE CoversInv'
  <2>1. ReaderHeard(logs, LoadFor(threads[t], Ask(t).gap, "direct"))
    BY LoadHeard DEF DashInv, ReadersInv, CoversInv
  <2> QED
    BY <1>1, <1>5, <2>1, CoversMove
<1> QED
  BY <1>3, <1>4, <1>5 DEF ReadCache

LEMMA DirectHears ==
    ASSUME DashInv, CoversInv, NEW t \in Threads, Direct(t) PROVE CoversInv'
<1>1. Loaded(t, "direct") /\ GoesOn(t, Found(t), Absent) /\ UNCHANGED <<logs, flight, cache>>
  BY DEF Direct
<1>2. PICK cover \in Covers : cover = Found(t) /\ Heard(logs, cover.seen)
  BY <1>1, FoundHeard
<1> QED
  BY <1>1, <1>2, GoesOnHears

LEMMA DeriveHears ==
    ASSUME DashInv, CoversInv, NEW t \in Threads, Derive(t) PROVE CoversInv'
<1>1. UNCHANGED <<logs, flight, cache>>
  BY DEF Derive
<1>2. cache.derived.cover \in Covers /\ Heard(logs, cache.derived.cover.seen)
  BY DEF DashInv, StoreInv, CacheStates, CoversInv
<1>3. CASE Answer(t, cache.derived.cover)
  BY <1>1, <1>2, <1>3, AnswerHears
<1>4. CASE Step(t, [threads[t] EXCEPT !.pc = "memo"]) /\ page' = page
  <2>1. ReaderHeard(logs, [threads[t] EXCEPT !.pc = "memo"])
    BY DEF DashInv, ReadersInv, CoversInv, ReaderHeard, ThreadStates
  <2> QED
    BY <1>1, <1>4, <2>1, CoversMove
<1> QED
  BY <1>3, <1>4 DEF Derive

LEMMA MemoHears ==
    ASSUME DashInv, CoversInv, NEW t \in Threads, Memo(t) PROVE CoversInv'
<1>1. UNCHANGED <<logs, flight>> /\ Answer(t, threads[t].got)
  BY DEF Memo
<1>2. threads[t].got \in Covers /\ Heard(logs, threads[t].got.seen) /\ cache \in CacheStates
  BY DEF DashInv, ReadersInv, ThreadStates, CoversInv, ReaderHeard, StoreInv
<1>3. cache'.cover = cache.cover /\ (cache'.derived.cover = cache.derived.cover \/ cache'.derived.cover = threads[t].got)
  BY <1>2 DEF Memo, CacheStates
<1> QED
  BY <1>1, <1>2, <1>3, AnswerHears

LEMMA RefreshHears ==
    ASSUME DashInv, CoversInv, NEW b \in Refreshers, Refresh(b) PROVE CoversInv'
<1>1. UNCHANGED <<logs, cache, flight, page>>
  BY DEF Refresh
<1>2. PICK load : load = LoadFor(threads[b], threads[b].gap, "replace")
  OBVIOUS
<1>3. PICK new : new = [load EXCEPT !.mark = Fingerprint]
  OBVIOUS
<1>4. load \in ThreadStates /\ ReaderHeard(logs, load)
  <2>1. /\ WorldInv /\ threads[b] \in ThreadStates /\ threads[b].gap \in Nat
        /\ ReaderHeard(logs, threads[b])
    BY DEF DashInv, ReadersInv, ThreadStates, CoversInv
  <2> QED
    BY <1>2, <2>1, LoadForTypes, LoadHeard
<1>5. new.pc = load.pc /\ new.seen = load.seen /\ new.got = load.got /\ new.read = load.read /\ new.next = load.next
  BY <1>3, <1>4 DEF ThreadStates
<1>6. ReaderHeard(logs, new)
  BY <1>4, <1>5 DEF ReaderHeard
<1>7. Step(b, new)
  BY <1>2, <1>3 DEF Refresh
<1> QED
  BY <1>1, <1>6, <1>7, CoversMove

LEMMA ReplaceHears ==
    ASSUME DashInv, CoversInv, NEW b \in Refreshers, Replace(b) PROVE CoversInv'
<1>1. Loaded(b, "replace") /\ UNCHANGED <<logs, flight, page>> /\ Step(b, NoThread)
  BY DEF Replace
<1>2. PICK gap \in Nat : gap = threads[b].gap
  BY DEF DashInv, ReadersInv, ThreadStates
<1>3. PICK cover \in Covers : cover = Found(b) /\ Heard(logs, cover.seen)
  BY <1>1, FoundHeard
<1>4. PICK mark \in Marks \cup {<<>>} : mark = threads[b].mark
  BY <1>1, FoundIs
<1>5. PICK c : c = IF cache.lineage = gap THEN Installed(cache, gap, cover, mark) ELSE cache
  OBVIOUS
<1>6. c \in CacheStates /\ Heard(logs, c.cover.seen) /\ Heard(logs, c.derived.cover.seen)
  <2>1. cache \in CacheStates /\ ReadersInv
    BY DEF DashInv, StoreInv
  <2>2. CASE c = cache
    BY <2>1, <2>2 DEF CoversInv
  <2>3. CASE c = Installed(cache, gap, cover, mark)
    BY <1>3, <2>1, <2>3, InstalledIs, InstalledHeard
  <2> QED
    BY <1>5, <2>2, <2>3
<1>7. cache' = [c EXCEPT !.refreshing = FALSE]
  BY <1>2, <1>3, <1>4, <1>5 DEF Replace
<1>8. cache'.cover = c.cover /\ cache'.derived = c.derived
  BY <1>6, <1>7 DEF CacheStates
<1>9. \A u \in Threads \cup Refreshers : threads'[u] = IF u = b THEN NoThread ELSE threads[u]
  BY <1>1 DEF DashInv, ReadersInv, Step
<1>10. ReaderHeard(logs, NoThread)
  BY HeardAtFirst
<1> QED
  BY <1>1, <1>6, <1>8, <1>9, <1>10, CoversStep

LEMMA FailHears ==
    ASSUME DashInv, CoversInv, NEW t \in Threads \cup Refreshers, Fail(t) PROVE CoversInv'
<1>0. threads[t].pc = "look" /\ UNCHANGED <<work, logs, rows, page>>
  BY DEF Fail, At
<1>1. cache \in CacheStates /\ threads \in [Threads \cup Refreshers -> ThreadStates]
  BY DEF DashInv, StoreInv, ReadersInv
<1>2. ASSUME \/ cache' = cache
             \/ cache' = [cache EXCEPT !.refreshing = FALSE]
             \/ cache' = [cache EXCEPT !.due = FALSE, !.refreshing = FALSE]
      PROVE  cache'.cover = cache.cover /\ cache'.derived = cache.derived
  BY <1>1, <1>2 DEF CacheStates
<1>3. ASSUME NEW new, Step(t, new), ReaderHeard(logs, new), flight' = flight,
             cache'.cover = cache.cover /\ cache'.derived = cache.derived
      PROVE  CoversInv'
  <2>1. \A u \in Threads \cup Refreshers : threads'[u] = IF u = t THEN new ELSE threads[u]
    BY <1>1, <1>3 DEF Step
  <2> QED
    BY <1>0, <1>3, <2>1, CoversStep
<1>4. CASE t \in Threads
  <2>1. PICK new : new = Refused(t) /\ ReaderHeard(logs, new)
    BY <1>4, DoneHeard
  <2>2. threads[t].ret \in {"install", "direct", "publish"} /\ threads[t].asks # <<>>
    BY <1>0, <1>4 DEF DashInv, RequestsInv, RequestOK, Loading
  <2>3. CASE threads[t].ret \in {"install", "direct"}
    <3>1. /\ Step(t, new) /\ flight' = flight
          /\ cache' = cache \/ cache' = [cache EXCEPT !.refreshing = FALSE]
      BY <2>1, <2>3 DEF Fail
    <3> QED
      BY <1>2, <1>3, <2>1, <3>1
  <2>4. CASE threads[t].ret = "publish"
    <3>1. /\ flight' = [flight EXCEPT ![Ask(t).gap].busy = FALSE] /\ cache' = cache
          /\ threads' = Woken([threads EXCEPT ![t] = new])
      BY <2>1, <2>4 DEF Fail
    <3>2. new \in ThreadStates
      BY <1>4, <2>1, <2>2, RefusedIs
    <3>3. \A gap \in Gaps : flight'[gap].cover = flight[gap].cover
      BY <3>1 DEF DashInv, FlightInv, FlightStates
    <3> QED
      BY <1>0, <1>4, <2>1, <3>1, <3>2, <3>3, WokenHears
  <2> QED
    BY <2>2, <2>3, <2>4
<1>5. CASE t \in Refreshers
  <2>1. threads[t].ret = "replace"
    BY <1>0, <1>5 DEF DashInv, RefreshersInv, RefresherOK, Loading
  <2>2. /\ cache' = [cache EXCEPT !.due = FALSE, !.refreshing = FALSE]
        /\ Step(t, NoThread) /\ flight' = flight
    BY <2>1 DEF Fail
  <2> QED
    BY <1>2, <1>3, <2>2, HeardAtFirst
<1> QED
  BY <1>4, <1>5

\* A log that grows has all it had.
LEMMA HeardGrows ==
    ASSUME NEW ls, NEW ms, NEW g, NEW now, Grown(ls, ms, g, now), NEW seen, Heard(ls, seen)
    PROVE  Heard(ms, seen)
BY LineLengths DEF Heard

LEMMA WriteHears ==
    ASSUME DashInv, CoversInv, NEW f \in Files, Write(f) PROVE CoversInv'
<1>1. UNCHANGED <<flight, cache, threads, page>> /\ Grown(logs, logs', f, outside.now)
  BY DEF Write, Grown, DashInv, WorldInv
<1>2. ASSUME NEW t \in Threads \cup Refreshers, threads[t].pc = "store"
      PROVE  threads[t].read <= Len(logs'[First(threads[t].next)])
  <2>1. /\ threads[t] \in ThreadStates /\ ListOK(logs, threads[t]) /\ ReaderHeard(logs, threads[t])
    BY DEF DashInv, ReadersInv, ThreadOK, CoversInv
  <2>2. PICK g \in Files : g = First(threads[t].next)
    BY <1>2, <2>1, FirstIsOne DEF ListOK, ThreadStates
  <2>3. threads[t].read <= Len(logs[g]) /\ threads[t].read \in Nat
    BY <1>2, <2>1, <2>2 DEF ReaderHeard, ThreadStates
  <2>4. Len(logs[g]) \in Nat /\ Len(logs'[g]) \in Nat /\ Len(logs[g]) <= Len(logs'[g])
    BY <1>1, LineLengths
  <2> QED
    BY <2>2, <2>3, <2>4
<1>3. \A t \in Threads \cup Refreshers : ReaderHeard(logs', threads'[t])
  BY <1>1, <1>2, HeardGrows DEF CoversInv, ReaderHeard
<1>4. /\ \A t \in Threads : Heard(logs', page'[t].shown.seen)
      /\ Heard(logs', cache'.cover.seen) /\ Heard(logs', cache'.derived.cover.seen)
      /\ \A gap \in Gaps : Heard(logs', flight'[gap].cover.seen)
  BY <1>1, HeardGrows DEF CoversInv
<1> QED
  BY <1>3, <1>4 DEF CoversInv

LEMMA InitHears == Init => CoversInv
<1> SUFFICES ASSUME Init PROVE CoversInv
  OBVIOUS
<1>1. \A t \in Threads \cup Refreshers : threads[t].pc \in {"ask", "off"} /\ threads[t].seen = Nothing /\ threads[t].got = NoCover
  BY DEF Init, NoThread
<1>2. \A t \in Threads : page[t].shown = NoCover
  BY DEF Init, NoPage
<1>3. cache.cover = NoCover /\ cache.derived.cover = NoCover
  BY DEF Init, EmptyCache
<1>4. \A gap \in Gaps : flight[gap].cover = NoCover
  BY DEF Init, EmptyFlight
<1>5. Heard(logs, Nothing) /\ NoCover.seen = Nothing
  BY HeardAtFirst DEF NoCover
<1> QED
  BY <1>1, <1>2, <1>3, <1>4, <1>5 DEF CoversInv, ReaderHeard

LEMMA NextHears == DashInv /\ CoversInv /\ [Next]_vars => CoversInv'
<1> SUFFICES ASSUME DashInv, CoversInv, [Next]_vars PROVE CoversInv'
  OBVIOUS
<1>1. ASSUME NEW f \in Files, Write(f) PROVE CoversInv'
  BY <1>1, WriteHears
<1>2. ASSUME NEW f \in Files, Delete(f) PROVE CoversInv'
  BY <1>2 DEF Delete, CoversInv
<1>3. CASE Window
  BY <1>3, WindowHears
<1>4. ASSUME NEW t \in Threads \cup Refreshers, Loads(t) PROVE CoversInv'
  BY <1>4, LookHears, ParseHears, StoreHears DEF Loads
<1>5. ASSUME NEW t \in Threads, Requests(t) PROVE CoversInv'
  BY <1>5, EnsureBlocksHears, EnsuresHears, InstallHears, ReadCacheHears, DirectHears,
     DeriveHears, MemoHears DEF Requests
<1>6. ASSUME NEW t \in Threads, Streams(t) PROVE CoversInv'
  BY <1>6, SignHears, EnterHears, PublishHears, WakeHears, ConnectHears, PollHears, TellHears,
     TellRunsHears, ToldHears DEF Streams
<1>7. ASSUME NEW b \in Refreshers, Refreshes(b) PROVE CoversInv'
  BY <1>7, RefreshHears, ReplaceHears DEF Refreshes
<1>8. ASSUME NEW t \in Threads \cup Refreshers, Fail(t) PROVE CoversInv'
  BY <1>8, FailHears
<1>9. CASE UNCHANGED vars
  BY <1>9 DEF vars, CoversInv
<1> QED
  BY <1>1, <1>2, <1>3, <1>4, <1>5, <1>6, <1>7, <1>8, <1>9 DEF Next, Runs

\* Whatever is kept, shown or being read of a log is no more than the log has, and of a
\* log that was begun.
THEOREM CoversInvariant == Spec => []CoversInv
<1>1. Init => CoversInv
  BY InitHears
<1>2. DashInv /\ CoversInv /\ [Next]_vars => CoversInv'
  BY NextHears
<1> QED
  BY <1>1, <1>2, DashInvariant, PTL DEF Spec

-----------------------------------------------------------------------------
(* A finite set in order.                                                  *)

\* A strict order in which any two members of the set are one before the other.
Ranks(S, before) ==
    /\ \A x \in S : <<x, x>> \notin before
    /\ \A x, y \in S : x # y => <<x, y>> \in before \/ <<y, x>> \in before
    /\ \A x, y, z \in S : <<x, y>> \in before /\ <<y, z>> \in before => <<x, z>> \in before

\* Each member has a place of its own, and each place has a member.
LEMMA InOrderIs ==
    ASSUME NEW S, IsFiniteSet(S), NEW before, Ranks(S, before)
    PROVE  /\ InOrder(S, before) \in [1..Cardinality(S) -> S]
           /\ \A i, j \in 1..Cardinality(S) :
                InOrder(S, before)[i] = InOrder(S, before)[j] => i = j
           /\ \A x \in S : \E i \in 1..Cardinality(S) : InOrder(S, before)[i] = x
<1> DEFINE n == Cardinality(S)
           Before(x) == {y \in S : <<y, x>> \in before}
           rank == [x \in S |-> Cardinality(Before(x))]
<1>1. n \in Nat
  BY FS_CardinalityType
<1>2. ASSUME NEW x \in S PROVE IsFiniteSet(Before(x)) /\ rank[x] \in 0..(n - 1)
  <2>1. Before(x) \subseteq S \ {x}
    BY DEF Ranks
  <2>2. IsFiniteSet(S \ {x}) /\ Cardinality(S \ {x}) = n - 1
    BY FS_RemoveElement
  <2> HIDE DEF Before, n
  <2>3. IsFiniteSet(Before(x)) /\ Cardinality(Before(x)) <= n - 1
    BY <2>1, <2>2, FS_Subset
  <2>4. Cardinality(Before(x)) \in Nat
    BY <2>3, FS_CardinalityType
  <2> QED
    BY <1>1, <2>3, <2>4
<1>3. ASSUME NEW x \in S, NEW y \in S, <<x, y>> \in before PROVE rank[x] < rank[y]
  <2>1. Before(x) \cup {x} \subseteq Before(y) /\ x \notin Before(x)
    BY <1>3 DEF Ranks
  <2>2. IsFiniteSet(Before(x)) /\ IsFiniteSet(Before(y))
    BY <1>2
  <2> HIDE DEF Before
  <2>3. IsFiniteSet(Before(x) \cup {x}) /\ Cardinality(Before(x) \cup {x}) = Cardinality(Before(x)) + 1
    BY <2>1, <2>2, FS_AddElement
  <2>4. Cardinality(Before(x) \cup {x}) <= Cardinality(Before(y))
    BY <2>1, <2>2, FS_Subset
  <2>5. Cardinality(Before(x)) \in Nat /\ Cardinality(Before(y)) \in Nat
    BY <2>2, FS_CardinalityType
  <2> QED
    BY <2>3, <2>4, <2>5
<1> HIDE DEF rank
<1>4. rank \in Injection(S, 0..(n - 1))
  <2>1. rank \in [S -> 0..(n - 1)]
    BY <1>2 DEF rank
  <2>2. ASSUME NEW x \in S, NEW y \in S, rank[x] = rank[y] PROVE x = y
    <3>1. ~ (rank[x] < rank[y]) /\ ~ (rank[y] < rank[x])
      BY <2>1, <2>2
    <3> QED
      BY <1>3, <3>1 DEF Ranks
  <2> QED
    BY <2>1, <2>2 DEF Injection, IsInjective
<1>5. IsFiniteSet(0..(n - 1)) /\ Cardinality(0..(n - 1)) = n
  <2>1. 0 \in Int /\ n - 1 \in Int
    BY <1>1
  <2>2. IsFiniteSet(0..(n - 1)) /\ Cardinality(0..(n - 1)) = IF 0 > n - 1 THEN 0 ELSE (n - 1) - 0 + 1
    BY <2>1, FS_Interval
  <2> QED
    BY <1>1, <2>2
<1>6. rank \in Surjection(S, 0..(n - 1))
  BY <1>4, <1>5, FS_Injection
<1>7. ASSUME NEW k \in 1..n
      PROVE  InOrder(S, before)[k] \in S /\ rank[InOrder(S, before)[k]] = k - 1
  <2>1. k - 1 \in 0..(n - 1)
    BY <1>1, <1>7
  <2>2. \E x \in S : rank[x] = k - 1
    BY <1>6, <2>1 DEF Surjection
  <2>3. InOrder(S, before)[k] = CHOOSE x \in S : Cardinality(Before(x)) = k - 1
    BY DEF InOrder
  <2> QED
    BY <2>2, <2>3 DEF rank
<1>8. InOrder(S, before) \in [1..n -> S]
  BY <1>7 DEF InOrder
<1>9. ASSUME NEW i \in 1..n, NEW j \in 1..n, InOrder(S, before)[i] = InOrder(S, before)[j]
      PROVE  i = j
  <2>1. i - 1 = j - 1
    BY <1>7, <1>9
  <2> QED
    BY <1>1, <2>1
<1>10. ASSUME NEW x \in S PROVE \E i \in 1..n : InOrder(S, before)[i] = x
  <2>1. rank[x] \in 0..(n - 1)
    BY <1>2
  <2>2. rank[x] + 1 \in 1..n
    BY <1>1, <2>1
  <2>3. rank[InOrder(S, before)[rank[x] + 1]] = rank[x] /\ InOrder(S, before)[rank[x] + 1] \in S
    BY <1>7, <2>1, <2>2
  <2>4. \A y \in S : rank[y] = rank[x] => y = x
    BY <1>4 DEF Injection, IsInjective
  <2> QED
    BY <2>2, <2>3, <2>4
<1> QED
  BY <1>8, <1>9, <1>10

LEMMA FilesRank ==
    ASSUME NEW S \in SUBSET Files
    PROVE  IsFiniteSet(S) /\ Ranks(S, {p \in Files \X Files : p[1] < p[2]})
<1>1. Files \subseteq Nat
  BY DashboardAssumption, FS_CardinalityType
<1>2. IsFiniteSet(S)
  BY FilesAreFinite
<1> QED
  BY <1>1, <1>2 DEF Ranks

-----------------------------------------------------------------------------
(* Folds: what is true at first and kept by each step is true at the end.  *)

LEMMA UpTo ==
    ASSUME NEW n \in Nat, NEW G, 0 \in G, \A k \in 1..n : k - 1 \in G => k \in G
    PROVE  0..n \subseteq G
<1> DEFINE Missed == {k \in Nat : k \in 0..n /\ k \notin G}
<1> SUFFICES ASSUME Missed # {} PROVE FALSE
  OBVIOUS
<1>1. PICK k \in Missed : \A j \in Missed : k <= j
  BY LeastOf
<1>2. k \in Nat /\ k \in 0..n /\ k \notin G /\ k # 0
  BY <1>1
<1>3. k - 1 \in Nat /\ k - 1 \in 0..n /\ k \in 1..n
  BY <1>2
<1>4. k - 1 \in Missed
  BY <1>2, <1>3
<1> QED
  BY <1>1, <1>2, <1>4

\* Steps on the values of a type can be taken one after the other.
Steps(step, n, T) == step \in [1..n -> [T -> T]]
FoldOf(f, n, T, first, step) ==
    /\ f \in [0..n -> T]
    /\ \A k \in 0..n : f[k] = IF k = 0 THEN first ELSE step[k][f[k - 1]]
LEMMA Folds ==
    ASSUME NEW n \in Nat, NEW T, NEW first \in T, NEW step, Steps(step, n, T)
    PROVE  \E f : FoldOf(f, n, T, first, step)
<1> DEFINE G == {m \in 0..n : \E f : FoldOf(f, m, T, first, step)}
<1> USE DEF Steps
<1>1. 0 \in G
  <2>1. PICK f : FoldOf(f, 0, T, first, step)
    <3>1. FoldOf([k \in 0..0 |-> first], 0, T, first, step)
      BY DEF FoldOf
    <3> QED
      BY <3>1
  <2>2. 0 \in 0..n
    OBVIOUS
  <2> QED
    BY <2>1, <2>2
<1>2. ASSUME NEW m \in 1..n, m - 1 \in G PROVE m \in G
  <2>1. PICK f : FoldOf(f, m - 1, T, first, step)
    BY <1>2
  <2> DEFINE g == [k \in 0..m |-> IF k = m THEN step[m][f[m - 1]] ELSE f[k]]
  <2>2. m - 1 \in 0..(m - 1) /\ f[m - 1] \in T /\ step[m][f[m - 1]] \in T
    BY <2>1 DEF FoldOf
  <2>3. \A k \in 0..m : k # m => k \in 0..(m - 1)
    OBVIOUS
  <2>4. g \in [0..m -> T]
    BY <2>1, <2>2, <2>3 DEF FoldOf
  <2>5. ASSUME NEW k \in 0..m
        PROVE  g[k] = IF k = 0 THEN first ELSE step[k][g[k - 1]]
    <3>1. CASE k = m
      <4>1. k - 1 \in 0..m /\ k - 1 # m /\ k # 0
        BY <3>1
      <4> QED
        BY <3>1, <4>1
    <3>2. CASE k # m
      <4>1. k \in 0..(m - 1) /\ (k # 0 => k - 1 \in 0..m /\ k - 1 # m)
        BY <3>2
      <4>2. g[k] = f[k] /\ (k # 0 => g[k - 1] = f[k - 1])
        BY <3>2, <4>1
      <4> HIDE DEF g
      <4> QED
        BY <2>1, <4>1, <4>2 DEF FoldOf
    <3> QED
      BY <3>1, <3>2
  <2> HIDE DEF g
  <2>6. FoldOf(g, m, T, first, step)
    BY <2>4, <2>5 DEF FoldOf
  <2> QED
    BY <2>6
<1>3. n \in G
  <2> HIDE DEF G
  <2>1. 0..n \subseteq G
    BY <1>1, <1>2, UpTo
  <2> QED
    BY <2>1
<1> QED
  BY <1>3

-----------------------------------------------------------------------------
(* The calls of the runs, counted.                                         *)

\* Calls and transcripts that began and ended at some time, and runs of them.
Timed(kept) == \A r \in kept : r.started \in Int /\ r.mtime \in Int
RunsOf(calls, bss) ==
    [id : Int, started : Int, ended : Int, calls : Seq(calls), brainstorm : bss \cup {NoBrainstorm}]
AreRuns(sessions, calls, bss, n) ==
    /\ sessions \in Seq(RunsOf(calls, bss))
    /\ IsFiniteSet(Positions(sessions)) /\ Cardinality(Positions(sessions)) = n

LEMMA PositionsAre ==
    ASSUME NEW sessions
    PROVE  /\ \A p : p \in Positions(sessions) <=>
                /\ p = <<p[1], p[2]>> /\ p[1] \in DOMAIN sessions
                /\ p[2] \in DOMAIN sessions[p[1]].calls
           /\ \A i, j : <<i, j>> \in Positions(sessions) <=>
                i \in DOMAIN sessions /\ j \in DOMAIN sessions[i].calls
<1>1. \A i, j : <<i, j>> \in Positions(sessions) <=>
                i \in DOMAIN sessions /\ j \in DOMAIN sessions[i].calls
  BY DEF Positions
<1>2. \A p \in Positions(sessions) : p = <<p[1], p[2]>>
  BY DEF Positions
<1> QED
  BY <1>1, <1>2

\* One call more.
LEMMA OneMore ==
    ASSUME NEW sessions, NEW calls, NEW bss, NEW n \in Nat, AreRuns(sessions, calls, bss, n),
           NEW more \in Seq(RunsOf(calls, bss)), NEW p, p \notin Positions(sessions),
           Positions(more) = Positions(sessions) \cup {p}
    PROVE  AreRuns(more, calls, bss, n + 1)
<1>1. IsFiniteSet(Positions(sessions)) /\ Cardinality(Positions(sessions)) = n
  BY DEF AreRuns
<1>2. /\ IsFiniteSet(Positions(sessions) \cup {p})
      /\ Cardinality(Positions(sessions) \cup {p}) = n + 1
  BY <1>1, FS_AddElement
<1> QED
  BY <1>2 DEF AreRuns

LEMMA NoRuns == ASSUME NEW calls, NEW bss PROVE AreRuns(<<>>, calls, bss, 0)
<1>1. Positions(<<>>) = {}
  BY PositionsAre
<1> QED
  BY <1>1, FS_EmptySet DEF AreRuns

\* A run more, of one call or of none.
LEMMA RunMore ==
    ASSUME NEW calls, NEW bss, NEW sessions, NEW n \in Nat, AreRuns(sessions, calls, bss, n),
           NEW run \in RunsOf(calls, bss)
    PROVE  /\ run.calls = <<>> => AreRuns(Append(sessions, run), calls, bss, n)
           /\ Len(run.calls) = 1 => AreRuns(Append(sessions, run), calls, bss, n + 1)
<1> DEFINE more == Append(sessions, run)
           m == Len(sessions) + 1
<1>1. sessions \in Seq(RunsOf(calls, bss)) /\ run.calls \in Seq(calls)
  BY DEF AreRuns, RunsOf
<1>2. /\ more \in Seq(RunsOf(calls, bss)) /\ DOMAIN more = 1..m /\ DOMAIN sessions = 1..(m - 1)
      /\ m \in Nat \ {0} /\ more[m] = run /\ \A i \in DOMAIN sessions : more[i] = sessions[i]
  BY <1>1
<1> HIDE DEF more, m
<1>3. ASSUME NEW p
      PROVE  p \in Positions(more) <=>
                \/ p \in Positions(sessions)
                \/ p = <<p[1], p[2]>> /\ p[1] = m /\ p[2] \in DOMAIN run.calls
  <2>1. DOMAIN more = DOMAIN sessions \cup {m} /\ m \notin DOMAIN sessions
    BY <1>2
  <2> QED
    BY <1>2, <2>1, PositionsAre
<1>4. ASSUME run.calls = <<>> PROVE AreRuns(more, calls, bss, n)
  <2>1. DOMAIN run.calls = {}
    BY <1>4
  <2>2. Positions(more) = Positions(sessions)
    BY <1>3, <2>1
  <2> QED
    BY <1>2, <2>2 DEF AreRuns
<1>5. ASSUME Len(run.calls) = 1 PROVE AreRuns(more, calls, bss, n + 1)
  <2>1. DOMAIN run.calls = {1}
    BY <1>1, <1>5
  <2>2. Positions(more) = Positions(sessions) \cup {<<m, 1>>}
    BY <1>3, <2>1
  <2>3. <<m, 1>> \notin Positions(sessions)
    BY <1>2, PositionsAre
  <2> QED
    BY <1>2, <2>2, <2>3, OneMore
<1> QED
  BY <1>4, <1>5 DEF more

\* A call more in one of the runs.
LEMMA CallMore ==
    ASSUME NEW calls, Timed(calls), NEW bss, NEW sessions, NEW n \in Nat, AreRuns(sessions, calls, bss, n),
           NEW b \in DOMAIN sessions, NEW call \in calls
    PROVE  AreRuns([sessions EXCEPT ![b] = Join(sessions[b], call)], calls, bss, n + 1)
<1> DEFINE joined == Join(sessions[b], call)
           more == [sessions EXCEPT ![b] = joined]
           m == Len(sessions[b].calls) + 1
<1>1. sessions \in Seq(RunsOf(calls, bss)) /\ sessions[b] \in RunsOf(calls, bss)
  BY DEF AreRuns
<1>2. EndedAt(call) \in Int
  BY DEF Timed, EndedAt
<1>4. sessions[b].calls \in Seq(calls) /\ sessions[b].ended \in Int
  BY <1>1 DEF RunsOf
<1>3. /\ joined \in RunsOf(calls, bss) /\ joined.calls = Append(sessions[b].calls, call)
  <2>1. Append(sessions[b].calls, call) \in Seq(calls)
    BY <1>4
  <2>2. PICK ended \in Int :
          joined = [sessions[b] EXCEPT !.calls = Append(sessions[b].calls, call), !.ended = ended]
    BY <1>2, <1>4 DEF Join
  <2> QED
    BY <1>1, <2>1, <2>2 DEF RunsOf
<1>5. DOMAIN joined.calls = 1..m /\ DOMAIN sessions[b].calls = 1..(m - 1) /\ m \in Nat \ {0}
  BY <1>3, <1>4
<1> HIDE DEF joined, m
<1>6. /\ more \in Seq(RunsOf(calls, bss)) /\ DOMAIN more = DOMAIN sessions
      /\ \A i \in DOMAIN sessions : more[i] = IF i = b THEN joined ELSE sessions[i]
  BY <1>1, <1>3
<1> HIDE DEF more
<1>7. ASSUME NEW p
      PROVE  p \in Positions(more) <=> p \in Positions(sessions) \/ p = <<b, m>>
  <2>1. DOMAIN joined.calls = DOMAIN sessions[b].calls \cup {m}
    BY <1>5
  <2>2. CASE p = <<p[1], p[2]>>
    BY <1>6, <2>1, <2>2, PositionsAre
  <2>3. CASE p # <<p[1], p[2]>>
    BY <2>3, PositionsAre
  <2> QED
    BY <2>2, <2>3
<1>8. Positions(more) = Positions(sessions) \cup {<<b, m>>}
  BY <1>7
<1>9. <<b, m>> \notin Positions(sessions)
  BY <1>5, PositionsAre
<1>10. AreRuns(more, calls, bss, n + 1)
  BY <1>6, <1>8, <1>9, OneMore
<1> QED
  BY <1>10 DEF more, joined

\* Grouping: each call joins the last run or begins one.
GroupStep(done, call, gap) ==
    IF done # <<>> /\ Belongs(Last(done), call, gap)
    THEN [done EXCEPT ![Len(done)] = Join(done[Len(done)], call)]
    ELSE Append(done, NewSession(call))
Groups(f, calls, gap) ==
    f = [k \in 0..Len(calls) |-> IF k = 0 THEN <<>> ELSE GroupStep(f[k - 1], calls[k], gap)]

LEMMA GroupStepKeeps ==
    ASSUME NEW calls, Timed(calls), NEW bss, NEW n \in Nat, NEW done, AreRuns(done, calls, bss, n),
           NEW call \in calls, NEW gap
    PROVE  AreRuns(GroupStep(done, call, gap), calls, bss, n + 1)
<1>1. CASE done # <<>> /\ Belongs(Last(done), call, gap)
  <2>1. Len(done) \in DOMAIN done
    BY <1>1 DEF AreRuns
  <2>2. AreRuns([done EXCEPT ![Len(done)] = Join(done[Len(done)], call)], calls, bss, n + 1)
    BY <2>1, CallMore
  <2> QED
    BY <1>1, <2>2 DEF GroupStep
<1>2. CASE ~(done # <<>> /\ Belongs(Last(done), call, gap))
  <2>1. NewSession(call) \in RunsOf(calls, bss) /\ Len(NewSession(call).calls) = 1
    BY DEF NewSession, RunsOf, Timed, EndedAt
  <2>2. AreRuns(Append(done, NewSession(call)), calls, bss, n + 1)
    BY <2>1, RunMore
  <2> QED
    BY <1>2, <2>2 DEF GroupStep
<1> QED
  BY <1>1, <1>2

\* Every call is in one run, once.
LEMMA GroupedAreRuns ==
    ASSUME NEW calls, Timed(calls), NEW bss, NEW cs \in Seq(calls), NEW gap
    PROVE  AreRuns(Grouped(cs, gap), calls, bss, Len(cs))
<1> DEFINE n == Len(cs)
           T == {s \in Seq(RunsOf(calls, bss)) : \E m \in Nat : AreRuns(s, calls, bss, m)}
           step == [k \in 1..n |-> [s \in T |-> GroupStep(s, cs[k], gap)]]
           up == CHOOSE f : Groups(f, cs, gap)
<1>1. n \in Nat /\ \A k \in 1..n : cs[k] \in calls
  OBVIOUS
<1>2. step \in [1..n -> [T -> T]]
  <2>1. ASSUME NEW k \in 1..n, NEW s \in T PROVE GroupStep(s, cs[k], gap) \in T
    <3>1. PICK m \in Nat : AreRuns(s, calls, bss, m)
      OBVIOUS
    <3>2. AreRuns(GroupStep(s, cs[k], gap), calls, bss, m + 1)
      BY <1>1, <3>1, GroupStepKeeps
    <3> QED
      BY <3>1, <3>2 DEF AreRuns
  <2> HIDE DEF T
  <2> QED
    BY <2>1
<1>3. <<>> \in T
  BY NoRuns DEF AreRuns
<1>4. PICK f \in [0..n -> T] : \A k \in 0..n : f[k] = IF k = 0 THEN <<>> ELSE step[k][f[k - 1]]
  <2>1. PICK first : first = <<>>
    OBVIOUS
  <2>2. n \in Nat /\ first \in T /\ Steps(step, n, T)
    BY <1>1, <1>2, <1>3, <2>1 DEF Steps
  <2> HIDE DEF step, T, n
  <2>3. PICK f : FoldOf(f, n, T, first, step)
    BY <2>2, Folds
  <2> QED
    BY <2>1, <2>3 DEF FoldOf
<1>5. Groups(f, cs, gap)
  <2>1. ASSUME NEW k \in 0..n
        PROVE  f[k] = IF k = 0 THEN <<>> ELSE GroupStep(f[k - 1], cs[k], gap)
    <3>1. CASE k # 0
      <4>1. k \in 1..n /\ k - 1 \in 0..n
        BY <1>1, <3>1
      <4> HIDE DEF T
      <4>2. f[k - 1] \in T /\ f[k] = step[k][f[k - 1]]
        BY <1>4, <3>1, <4>1
      <4> QED
        BY <3>1, <4>1, <4>2
    <3> HIDE DEF step
    <3> QED
      BY <1>4, <3>1
  <2> HIDE DEF T
  <2> QED
    BY <1>4, <2>1 DEF Groups
<1>6. Groups(up, cs, gap)
  BY <1>5
<1>7. Grouped(cs, gap) = up[n]
  BY DEF Grouped, Groups, GroupStep
<1> HIDE DEF up, T, step
<1> DEFINE G == {k \in 0..n : AreRuns(up[k], calls, bss, k)}
<1>8. 0 \in G
  BY <1>1, <1>6, NoRuns DEF Groups
<1>9. ASSUME NEW k \in 1..n, k - 1 \in G PROVE k \in G
  <2>1. up[k] = GroupStep(up[k - 1], cs[k], gap) /\ k - 1 \in Nat
    BY <1>1, <1>6 DEF Groups
  <2>2. AreRuns(up[k], calls, bss, (k - 1) + 1)
    BY <1>1, <1>9, <2>1, GroupStepKeeps
  <2> QED
    BY <1>1, <2>2
<1>10. n \in G
  <2> HIDE DEF G
  <2>1. 0..n \subseteq G
    BY <1>1, <1>8, <1>9, UpTo
  <2> QED
    BY <1>1, <2>1
<1> QED
  BY <1>7, <1>10

\* A transcript joins a run or stands alone; the calls stay where they are.
LEMMA AttachedKeeps ==
    ASSUME NEW calls, NEW bss, Timed(bss), NEW n \in Nat, NEW sessions, AreRuns(sessions, calls, bss, n),
           NEW bs \in bss, NEW gap
    PROVE  AreRuns(Attached(sessions, bs, gap), calls, bss, n)
<1> DEFINE near == {i \in DOMAIN sessions :
                      /\ sessions[i].started - gap <= bs.started
                      /\ bs.started <= sessions[i].ended + gap}
           alone == [id |-> bs.started, started |-> bs.started, ended |-> bs.mtime,
                     calls |-> <<>>, brainstorm |-> bs]
           best == CHOOSE i \in near : \A j \in near : j <= i
           more == [sessions EXCEPT ![best].brainstorm = bs, ![best].id = bs.started]
<1>0. sessions \in Seq(RunsOf(calls, bss))
  BY DEF AreRuns
<1>1. CASE near = {}
  <2>1. alone \in RunsOf(calls, bss) /\ alone.calls = <<>>
    BY DEF Timed, RunsOf
  <2> HIDE DEF alone, near
  <2>2. AreRuns(Append(sessions, alone), calls, bss, n)
    BY <2>1, RunMore
  <2>3. Attached(sessions, bs, gap) = Append(sessions, alone)
    BY <1>1 DEF Attached, near, alone
  <2> QED
    BY <2>2, <2>3
<1>2. CASE near # {}
  <2>1. best \in DOMAIN sessions
    <3>1. near \in SUBSET (0..Len(sessions)) /\ Len(sessions) \in Nat
      BY <1>0
    <3>2. near \subseteq DOMAIN sessions
      OBVIOUS
    <3> HIDE DEF near
    <3>3. \E i \in near : \A j \in near : j <= i
      BY <1>2, <3>1, LatestOf
    <3> QED
      BY <3>2, <3>3
  <2>2. Attached(sessions, bs, gap) = more
    BY <1>2 DEF Attached
  <2> HIDE DEF best, near
  <2>3. sessions[best] \in RunsOf(calls, bss) /\ bs.started \in Int
    BY <1>0, <2>1 DEF Timed
  <2> DEFINE run == [sessions[best] EXCEPT !.brainstorm = bs, !.id = bs.started]
  <2>4. run \in RunsOf(calls, bss) /\ run.calls = sessions[best].calls
    BY <2>3 DEF RunsOf
  <2>5. more = [sessions EXCEPT ![best] = run]
    BY <1>0, <2>1
  <2> HIDE DEF run
  <2>6. /\ more \in Seq(RunsOf(calls, bss)) /\ DOMAIN more = DOMAIN sessions
        /\ \A i \in DOMAIN sessions : more[i].calls = sessions[i].calls
    BY <1>0, <2>1, <2>4, <2>5
  <2> HIDE DEF more
  <2>7. Positions(more) = Positions(sessions)
    BY <2>6 DEF Positions
  <2> QED
    BY <2>2, <2>6, <2>7 DEF AreRuns
<1> QED
  BY <1>1, <1>2

\* Sorting moves the runs and leaves each as it is.
LEMMA NewestFirstKeeps ==
    ASSUME NEW calls, NEW bss, NEW n \in Nat, NEW sessions, AreRuns(sessions, calls, bss, n)
    PROVE  AreRuns(NewestFirst(sessions), calls, bss, n)
<1> DEFINE all == DOMAIN sessions
           Newer(i, j) == sessions[i].started > sessions[j].started
           before == {p \in all \X all : \/ Newer(p[1], p[2])
                                         \/ ~Newer(p[2], p[1]) /\ p[1] < p[2]}
           order == InOrder(all, before)
           sorted == [k \in all |-> sessions[order[k]]]
<1>1. /\ sessions \in Seq(RunsOf(calls, bss)) /\ all = 1..Len(sessions) /\ Len(sessions) \in Nat
      /\ IsFiniteSet(Positions(sessions)) /\ Cardinality(Positions(sessions)) = n
  BY DEF AreRuns
<1>2. \A i \in all : sessions[i] \in RunsOf(calls, bss) /\ sessions[i].started \in Int
  <2>1. \A i \in all : sessions[i] \in RunsOf(calls, bss)
    BY <1>1
  <2> QED
    BY <2>1 DEF RunsOf
<1>3. IsFiniteSet(all) /\ Cardinality(all) = Len(sessions)
  <2>1. 1 \in Int /\ Len(sessions) \in Int
    BY <1>1
  <2>2. /\ IsFiniteSet(1..Len(sessions))
        /\ Cardinality(1..Len(sessions)) = IF 1 > Len(sessions) THEN 0 ELSE Len(sessions) - 1 + 1
    BY <2>1, FS_Interval
  <2> QED
    BY <1>1, <2>2
<1>4. Ranks(all, before)
  <2>1. \A i, j \in all : <<i, j>> \in before <=> Newer(i, j) \/ (~Newer(j, i) /\ i < j)
    OBVIOUS
  <2>2. \A i, j \in all : Newer(i, j) <=> sessions[i].started > sessions[j].started
    OBVIOUS
  <2> HIDE DEF before, Newer
  <2>3. ASSUME NEW i \in all, NEW j \in all
        PROVE  /\ i \in Int /\ j \in Int /\ sessions[i].started \in Int /\ sessions[j].started \in Int
               /\ <<i, j>> \in before <=>
                    \/ sessions[i].started > sessions[j].started
                    \/ ~(sessions[j].started > sessions[i].started) /\ i < j
    BY <1>1, <1>2, <2>1, <2>2
  <2>4. \A x \in all : <<x, x>> \notin before
    BY <2>3
  <2>5. \A x, y \in all : x # y => <<x, y>> \in before \/ <<y, x>> \in before
    BY <2>3
  <2>6. ASSUME NEW x \in all, NEW y \in all, NEW z \in all, <<x, y>> \in before, <<y, z>> \in before
        PROVE  <<x, z>> \in before
    BY <2>3, <2>6
  <2> QED
    BY <2>4, <2>5, <2>6 DEF Ranks
<1>5. NewestFirst(sessions) = sorted
  BY DEF NewestFirst
<1> HIDE DEF before, all
<1>6. /\ order \in [all -> all]
      /\ \A i, j \in all : order[i] = order[j] => i = j
      /\ \A x \in all : \E i \in all : order[i] = x
  <2>1. all = 1..Cardinality(all)
    BY <1>1, <1>3
  <2>2. /\ order \in [1..Cardinality(all) -> all]
        /\ \A i, j \in 1..Cardinality(all) : order[i] = order[j] => i = j
        /\ \A x \in all : \E i \in 1..Cardinality(all) : order[i] = x
    BY <1>3, <1>4, InOrderIs, Zenon
  <2> QED
    BY <2>1, <2>2, Zenon
<1> HIDE DEF order
<1>7. /\ sorted \in Seq(RunsOf(calls, bss)) /\ DOMAIN sorted = all
      /\ \A k \in all : sorted[k] = sessions[order[k]]
  <2>1. \A k \in all : order[k] \in all /\ sessions[order[k]] \in RunsOf(calls, bss)
    BY <1>2, <1>6
  <2> QED
    BY <1>1, <2>1
<1> HIDE DEF sorted
<1> DEFINE moved == [p \in Positions(sorted) |-> <<order[p[1]], p[2]>>]
<1>8. moved \in [Positions(sorted) -> Positions(sessions)]
  <2>1. ASSUME NEW p \in Positions(sorted) PROVE <<order[p[1]], p[2]>> \in Positions(sessions)
    <3>1. p[1] \in all /\ p[2] \in DOMAIN sorted[p[1]].calls
      BY <1>7, PositionsAre
    <3>2. order[p[1]] \in DOMAIN sessions /\ p[2] \in DOMAIN sessions[order[p[1]]].calls
      BY <1>6, <1>7, <3>1 DEF all
    <3> QED
      BY <3>2, PositionsAre
  <2> QED
    BY <2>1
<1>9. moved \in Injection(Positions(sorted), Positions(sessions))
  <2>1. ASSUME NEW p \in Positions(sorted), NEW q \in Positions(sorted), moved[p] = moved[q]
        PROVE  p = q
    <3>1. p = <<p[1], p[2]>> /\ q = <<q[1], q[2]>> /\ p[1] \in all /\ q[1] \in all
      BY <1>7, PositionsAre
    <3>2. order[p[1]] = order[q[1]] /\ p[2] = q[2]
      BY <2>1
    <3> QED
      BY <1>6, <3>1, <3>2
  <2> QED
    BY <1>8, <2>1 DEF Injection, IsInjective
<1>10. moved \in Surjection(Positions(sorted), Positions(sessions))
  <2>1. ASSUME NEW q \in Positions(sessions) PROVE \E p \in Positions(sorted) : moved[p] = q
    <3>1. q = <<q[1], q[2]>> /\ q[1] \in all /\ q[2] \in DOMAIN sessions[q[1]].calls
      BY PositionsAre DEF all
    <3>2. PICK i \in all : order[i] = q[1]
      BY <1>6, <3>1
    <3>3. <<i, q[2]>> \in Positions(sorted)
      BY <1>7, <3>1, <3>2, PositionsAre
    <3> QED
      BY <3>1, <3>2, <3>3
  <2> QED
    BY <1>8, <2>1 DEF Surjection
<1>11. IsFiniteSet(Positions(sorted)) /\ Cardinality(Positions(sorted)) = n
  <2> HIDE DEF moved
  <2> QED
    BY <1>1, <1>9, <1>10, FS_Injection
<1> QED
  BY <1>5, <1>7, <1>11 DEF AreRuns

Attaches(f, first, bss, gap) ==
    f = [k \in 0..Len(bss) |-> IF k = 0 THEN first ELSE Attached(f[k - 1], bss[k], gap)]

\* The runs have every call once, whatever the transcripts and however they are sorted.
LEMMA ClustersAreRuns ==
    ASSUME NEW calls, Timed(calls), NEW bss, Timed(bss), NEW cs \in Seq(calls),
           NEW brainstorms \in Seq(bss), NEW gap
    PROVE  AreRuns(ClusterSessions(cs, brainstorms, gap), calls, bss, Len(cs))
<1> DEFINE n == Len(brainstorms)
           T == {s \in Seq(RunsOf(calls, bss)) : AreRuns(s, calls, bss, Len(cs))}
           step == [k \in 1..n |-> [s \in T |-> Attached(s, brainstorms[k], gap)]]
           first == Grouped(cs, gap)
           up == CHOOSE f : Attaches(f, first, brainstorms, gap)
<1>1. n \in Nat /\ Len(cs) \in Nat /\ \A k \in 1..n : brainstorms[k] \in bss
  OBVIOUS
<1>2. Steps(step, n, T)
  <2>1. ASSUME NEW k \in 1..n, NEW s \in T PROVE Attached(s, brainstorms[k], gap) \in T
    <3>1. AreRuns(Attached(s, brainstorms[k], gap), calls, bss, Len(cs))
      BY <1>1, AttachedKeeps
    <3> QED
      BY <3>1 DEF AreRuns
  <2> HIDE DEF T
  <2> QED
    BY <2>1 DEF Steps
<1>3. first \in T
  BY GroupedAreRuns DEF AreRuns
<1> HIDE DEF first
<1>4. PICK f : FoldOf(f, n, T, first, step)
  <2> HIDE DEF step, T, n
  <2> QED
    BY <1>1, <1>2, <1>3, Folds
<1>5. Attaches(f, first, brainstorms, gap)
  <2>1. ASSUME NEW k \in 0..n
        PROVE  f[k] = IF k = 0 THEN first ELSE Attached(f[k - 1], brainstorms[k], gap)
    <3>1. CASE k # 0
      <4>1. k \in 1..n /\ k - 1 \in 0..n
        BY <1>1, <3>1
      <4> HIDE DEF T
      <4>2. f[k - 1] \in T /\ f[k] = step[k][f[k - 1]]
        BY <1>4, <3>1, <4>1 DEF FoldOf
      <4> QED
        BY <3>1, <4>1, <4>2
    <3> HIDE DEF step
    <3> QED
      BY <1>4, <3>1 DEF FoldOf
  <2> HIDE DEF T
  <2> QED
    BY <1>4, <2>1 DEF Attaches, FoldOf
<1>6. Attaches(up, first, brainstorms, gap)
  BY <1>5
<1>7. ClusterSessions(cs, brainstorms, gap) = NewestFirst(up[n])
  BY DEF ClusterSessions, Attaches, first
<1> HIDE DEF up, step
<1> DEFINE G == {k \in 0..n : up[k] \in T}
<1>8. 0 \in G
  BY <1>1, <1>3, <1>6 DEF Attaches
<1>9. ASSUME NEW k \in 1..n, k - 1 \in G PROVE k \in G
  <2>1. up[k] = Attached(up[k - 1], brainstorms[k], gap) /\ k \in 0..n
    BY <1>1, <1>6 DEF Attaches
  <2>2. AreRuns(up[k], calls, bss, Len(cs))
    BY <1>1, <1>9, <2>1, AttachedKeeps
  <2> QED
    BY <2>1, <2>2 DEF AreRuns
<1>10. n \in G
  <2> HIDE DEF G
  <2>1. 0..n \subseteq G
    BY <1>1, <1>8, <1>9, UpTo
  <2> QED
    BY <1>1, <2>1
<1>11. AreRuns(up[n], calls, bss, Len(cs))
  BY <1>10
<1> QED
  BY <1>1, <1>7, <1>11, NewestFirstKeeps

-----------------------------------------------------------------------------
(* What an answer covers.                                                  *)

CallOf(cover, f) ==
    CallRow(work.logs[f], SubSeq(work.logs[f].lines, 1, cover.seen[f]), logs[f][1],
            IF cover.seen[f] = 0 THEN 0 ELSE logs[f][cover.seen[f]])
BrainstormOf(cover, f) ==
    BrainstormRow(work.logs[f], SubSeq(work.logs[f].lines, 1, cover.seen[f]), logs[f][1],
                  IF cover.seen[f] = 0 THEN logs[f][1] ELSE logs[f][cover.seen[f]])
OfKind(cover, kind) == {f \in Files : cover.seen[f] # Absent /\ work.logs[f].kind = kind}

\* A log that was read began at some time, and was last written at some time.
LEMMA TimesAreKnown ==
    ASSUME WorldInv, NEW cover, Heard(logs, cover.seen), NEW f \in Files, cover.seen[f] # Absent
    PROVE  /\ logs[f][1] \in Int
           /\ cover.seen[f] # 0 => logs[f][cover.seen[f]] \in Int
<1>1. logs[f] # <<>> /\ cover.seen[f] \in 0..Len(logs[f])
  BY DEF Heard
<1>2. logs[f] \in Seq(0..outside.now) /\ outside.now \in Nat
  BY DEF WorldInv
<1> QED
  BY <1>1, <1>2

LEMMA SeenIs ==
    ASSUME NEW cover, NEW kind
    PROVE  /\ IsFiniteSet(OfKind(cover, kind)) /\ Cardinality(OfKind(cover, kind)) \in Nat
           /\ Seen(cover, kind) \in [1..Cardinality(OfKind(cover, kind)) -> OfKind(cover, kind)]
<1>1. OfKind(cover, kind) \in SUBSET Files
  BY DEF OfKind
<1>2. /\ IsFiniteSet(OfKind(cover, kind))
      /\ Ranks(OfKind(cover, kind), {p \in Files \X Files : p[1] < p[2]})
  BY <1>1, FilesRank
<1>3. Seen(cover, kind) = InOrder(OfKind(cover, kind), {p \in Files \X Files : p[1] < p[2]})
  BY DEF Seen, OfKind
<1>4. Cardinality(OfKind(cover, kind)) \in Nat
  BY <1>2, FS_CardinalityType
<1>5. PICK S, before : S = OfKind(cover, kind) /\ before = {p \in Files \X Files : p[1] < p[2]}
  OBVIOUS
<1>6. InOrder(S, before) \in [1..Cardinality(S) -> S]
  BY <1>2, <1>5, InOrderIs, Zenon
<1> QED
  BY <1>2, <1>3, <1>4, <1>5, <1>6, Zenon

LEMMA CallsAre ==
    ASSUME WorldInv, NEW cover, Heard(logs, cover.seen), NEW calls,
           calls = {CallOf(cover, f) : f \in OfKind(cover, "call")}
    PROVE  CallsOf(cover) \in Seq(calls) /\ Timed(calls)
<1>1. PICK n \in Nat : Seen(cover, "call") \in [1..n -> OfKind(cover, "call")]
  BY SeenIs
<1>2. CallsOf(cover) = [i \in 1..n |-> CallOf(cover, Seen(cover, "call")[i])]
  BY <1>1 DEF CallsOf, CallOf
<1>3. CallsOf(cover) \in Seq(calls)
  BY <1>1, <1>2
<1>4. ASSUME NEW f \in OfKind(cover, "call")
      PROVE  CallOf(cover, f).started \in Int /\ CallOf(cover, f).mtime \in Int
  <2>1. f \in Files /\ cover.seen[f] # Absent
    BY DEF OfKind
  <2>2. /\ logs[f][1] \in Int
        /\ (IF cover.seen[f] = 0 THEN 0 ELSE logs[f][cover.seen[f]]) \in Int
    BY <2>1, TimesAreKnown
  <2>3. /\ CallOf(cover, f).started = logs[f][1]
        /\ CallOf(cover, f).mtime = IF cover.seen[f] = 0 THEN 0 ELSE logs[f][cover.seen[f]]
    BY Zenon DEF CallOf, CallRow
  <2> QED
    BY <2>2, <2>3
<1> QED
  BY <1>3, <1>4 DEF Timed

LEMMA TranscriptsAre ==
    ASSUME WorldInv, NEW cover, Heard(logs, cover.seen), NEW bss,
           bss = {BrainstormOf(cover, f) : f \in OfKind(cover, "md")}
    PROVE  TranscriptsOf(cover) \in Seq(bss) /\ Timed(bss)
<1>1. PICK n \in Nat : Seen(cover, "md") \in [1..n -> OfKind(cover, "md")]
  BY SeenIs
<1>2. TranscriptsOf(cover) = [i \in 1..n |-> BrainstormOf(cover, Seen(cover, "md")[i])]
  BY <1>1 DEF TranscriptsOf, BrainstormOf
<1>3. TranscriptsOf(cover) \in Seq(bss)
  BY <1>1, <1>2
<1>4. ASSUME NEW f \in OfKind(cover, "md")
      PROVE  BrainstormOf(cover, f).started \in Int /\ BrainstormOf(cover, f).mtime \in Int
  <2>1. f \in Files /\ cover.seen[f] # Absent
    BY DEF OfKind
  <2> QED
    BY <2>1, TimesAreKnown DEF BrainstormOf, BrainstormRow
<1> QED
  BY <1>3, <1>4 DEF Timed

\* Every call of an answer is in one of its runs, once.
LEMMA SessionsAre ==
    ASSUME WorldInv, NEW cover, Heard(logs, cover.seen), NEW calls,
           calls = {CallOf(cover, f) : f \in OfKind(cover, "call")}
    PROVE  \E bss : AreRuns(SessionsOf(cover), calls, bss, Len(CallsOf(cover)))
<1>1. PICK bss : bss = {BrainstormOf(cover, f) : f \in OfKind(cover, "md")}
  OBVIOUS
<1>2. AreRuns(SessionsOf(cover), calls, bss, Len(CallsOf(cover)))
  BY <1>1, CallsAre, TranscriptsAre, ClustersAreRuns DEF SessionsOf
<1> QED
  BY <1>2

-----------------------------------------------------------------------------
(* How a call ended.                                                       *)

Lines == Seq([what : STRING, who : STRING])

\* The last line of a log that ended with a footer, and the one before it.
LEMMA FooterIs ==
    ASSUME NEW lines \in Lines, NEW ends \in DOMAIN Footers, EndsAs(lines, ends)
    PROVE  /\ \A what : Footers[ends] = <<Line(what)>> =>
                lines # <<>> /\ lines[Len(lines)].what = what
           /\ \A mark, what : Footers[ends] = <<Line(mark), Line(what)>> =>
                /\ lines # <<>> /\ lines[Len(lines)].what = what
                /\ Front(lines) # <<>> /\ Front(lines)[Len(Front(lines))].what = mark
<1>1. PICK n : n = Len(lines)
  OBVIOUS
<1>2. n \in Nat /\ DOMAIN lines = 1..n /\ (n > 0 => lines # <<>>)
  BY <1>1 DEF Lines
<1>3. /\ Len(Footers[ends]) <= n
      /\ \A i \in DOMAIN Footers[ends] : lines[n - Len(Footers[ends]) + i] = Footers[ends][i]
  BY <1>1 DEF EndsAs
<1>4. ASSUME NEW what, Footers[ends] = <<Line(what)>>
      PROVE  lines # <<>> /\ lines[n].what = what
  <2>0. Line(what).what = what
    BY DEF Line
  <2>1. PICK line : line = Line(what) /\ line.what = what
    BY <2>0
  <2>2. Footers[ends] = <<line>>
    BY <1>4, <2>1
  <2>3. Len(Footers[ends]) = 1 /\ 1 \in DOMAIN Footers[ends] /\ Footers[ends][1] = line
    BY <2>2
  <2>4. n >= 1 /\ lines[n - 1 + 1] = line
    BY <1>3, <2>3
  <2>5. n - 1 + 1 = n
    BY <1>2
  <2> QED
    BY <1>2, <2>1, <2>4, <2>5
<1>5. ASSUME NEW mark, NEW what, Footers[ends] = <<Line(mark), Line(what)>>
      PROVE  /\ lines # <<>> /\ lines[n].what = what
             /\ Front(lines) # <<>> /\ Front(lines)[Len(Front(lines))].what = mark
  <2>0. Line(mark).what = mark /\ Line(what).what = what
    BY DEF Line
  <2>1. PICK first, line : /\ first = Line(mark) /\ first.what = mark
                           /\ line = Line(what) /\ line.what = what
    BY <2>0
  <2>2. Footers[ends] = <<first, line>>
    BY <1>5, <2>1
  <2>3. /\ Len(Footers[ends]) = 2 /\ 1 \in DOMAIN Footers[ends] /\ 2 \in DOMAIN Footers[ends]
        /\ Footers[ends][1] = first /\ Footers[ends][2] = line
    BY <2>2
  <2>4. n >= 2 /\ lines[n - 2 + 1] = first /\ lines[n - 2 + 2] = line
    BY <1>3, <2>3
  <2>5. n - 2 + 1 = n - 1 /\ n - 2 + 2 = n
    BY <1>2
  <2>6. Front(lines) = [i \in 1..(n - 1) |-> lines[i]]
    BY <1>1, <1>2 DEF Front
  <2>7. n - 1 \in Nat /\ n - 1 \in 1..(n - 1) /\ \A i \in 1..(n - 1) : i \in DOMAIN lines
    BY <1>2, <2>4
  <2>8. [i \in 1..(n - 1) |-> lines[i]] \in Seq([what : STRING, who : STRING])
    BY <2>7 DEF Lines
  <2>9. Len(Front(lines)) = n - 1 /\ Front(lines) # <<>> /\ Front(lines)[n - 1] = lines[n - 1]
    BY <2>6, <2>7, <2>8
  <2> QED
    BY <1>1, <1>2, <2>1, <2>4, <2>5, <2>9
<1> QED
  BY <1>1, <1>4, <1>5

LEMMA ExitIs ==
    ASSUME NEW lines \in Lines, NEW ends \in DOMAIN Footers, EndsAs(lines, ends)
    PROVE  /\ ends = "ok" => ExitOf(lines) = 0
           /\ ends = "failed" => ExitOf(lines) = 1
           /\ ends = "denied" => ExitOf(lines) = 401
           /\ ends = "timeout" => ExitOf(lines) = 124 /\ MarkedBy(lines, "timeout", 124)
           /\ ends = "silence" => ExitOf(lines) = 125 /\ MarkedBy(lines, "silence", 125)
           /\ ends = "killed" => ExitOf(lines) # 0
<1>1. ASSUME NEW what \in DOMAIN ExitCodes, lines # <<>>, lines[Len(lines)].what = what
      PROVE  ExitOf(lines) = ExitCodes[what]
  BY <1>1 DEF ExitOf
<1>2. ends = "ok" => ExitOf(lines) = 0
  BY <1>1, FooterIs DEF Footers, ExitCodes
<1>3. ends = "failed" => ExitOf(lines) = 1
  BY <1>1, FooterIs DEF Footers, ExitCodes
<1>4. ends = "denied" => ExitOf(lines) = 401
  BY <1>1, FooterIs DEF Footers, ExitCodes
<1>5. ASSUME ends = "timeout" PROVE ExitOf(lines) = 124 /\ MarkedBy(lines, "timeout", 124)
  <2>1. Footers[ends] = <<Line("timeout"), Line("exit124")>>
    BY <1>5 DEF Footers
  <2>2. ExitOf(lines) = 124
    BY <1>1, <2>1, FooterIs DEF ExitCodes
  <2> QED
    BY <2>1, <2>2, FooterIs DEF MarkedBy, BeforeExit, LastIs, NoExit
<1>6. ASSUME ends = "silence" PROVE ExitOf(lines) = 125 /\ MarkedBy(lines, "silence", 125)
  <2>1. Footers[ends] = <<Line("silence"), Line("exit125")>>
    BY <1>6 DEF Footers
  <2>2. ExitOf(lines) = 125
    BY <1>1, <2>1, FooterIs DEF ExitCodes
  <2> QED
    BY <2>1, <2>2, FooterIs DEF MarkedBy, BeforeExit, LastIs, NoExit
<1>7. ends = "killed" => ExitOf(lines) # 0
  BY DEF EndsAs
<1> QED
  BY <1>2, <1>3, <1>4, <1>5, <1>6, <1>7

\* What the last lines of a log say.
LEMMA SaysAre ==
    ASSUME NEW lines
    PROVE  LET says == Classified(lines)
           IN  /\ says.exit = ExitOf(lines)
               /\ says.timedOut <=> MarkedBy(lines, "timeout", 124)
               /\ says.silenced <=> MarkedBy(lines, "silence", 125)
               /\ says.completed <=> \/ says.exit # NoExit \/ says.timedOut \/ says.silenced
                                     \/ LooksLikeFailure(Body(lines))
               /\ says.hasError <=> \/ says.timedOut \/ says.silenced
                                    \/ IF says.exit # NoExit THEN says.exit # 0
                                       ELSE LooksLikeFailure(Body(lines))
BY Zenon DEF Classified

\* A log read to its end is classified as it ended.
LEMMA OutcomeTold ==
    ASSUME NEW lines \in Lines, NEW c, c.says = Classified(lines),
           work.logs[c.name].ends \in DOMAIN Footers, EndsAs(lines, work.logs[c.name].ends)
    PROVE  TellsOutcome(c)
<1> DEFINE ends == work.logs[c.name].ends
           fails == LooksLikeFailure(Body(lines))
<1>1. PICK says : /\ says = c.says
                  /\ says.exit = ExitOf(lines)
                  /\ says.timedOut <=> MarkedBy(lines, "timeout", 124)
                  /\ says.silenced <=> MarkedBy(lines, "silence", 125)
                  /\ says.completed <=> says.exit # NoExit \/ says.timedOut \/ says.silenced \/ fails
                  /\ says.hasError <=> \/ says.timedOut \/ says.silenced
                                       \/ IF says.exit # NoExit THEN says.exit # 0 ELSE fails
  BY SaysAre
<1>2. says.timedOut => says.exit \in {124, NoExit}
  BY <1>1 DEF MarkedBy
<1>3. says.silenced => says.exit \in {125, NoExit}
  BY <1>1 DEF MarkedBy
<1>4. /\ ends = "ok" => says.exit = 0
      /\ ends = "failed" => says.exit = 1
      /\ ends = "denied" => says.exit = 401
      /\ ends = "timeout" => says.exit = 124 /\ says.timedOut
      /\ ends = "silence" => says.exit = 125 /\ says.silenced
      /\ ends = "killed" => says.exit # 0
  BY <1>1, ExitIs
<1> HIDE DEF fails, ends
<1>5. ASSUME ends = "ok"
      PROVE  /\ says.completed /\ ~says.hasError
             /\ ClassifyCall(says) \notin {"error", "timeout"}
  <2>1. says.completed /\ ~says.hasError /\ ~says.timedOut /\ ~says.silenced /\ says.exit = 0
    BY <1>1, <1>2, <1>3, <1>4, <1>5 DEF NoExit
  <2> QED
    BY <2>1 DEF ClassifyCall
<1>6. ASSUME ends = "failed"
      PROVE  says.hasError /\ ClassifyCall(says) \notin {"ok", "empty", "timeout"}
  <2>1. says.hasError /\ ~says.timedOut /\ says.exit = 1
    BY <1>1, <1>2, <1>4, <1>6 DEF NoExit
  <2> QED
    BY <2>1 DEF ClassifyCall
<1>7. ASSUME ends = "denied"
      PROVE  says.hasError /\ ClassifyCall(says) \notin {"ok", "empty", "error", "timeout"}
  <2>1. says.hasError /\ ~says.timedOut /\ says.exit = 401
    BY <1>1, <1>2, <1>4, <1>7 DEF NoExit
  <2> QED
    BY <2>1 DEF ClassifyCall
<1>8. says.timedOut \/ says.silenced => says.hasError /\ ClassifyCall(says) # "ok"
  BY <1>1 DEF ClassifyCall
<1>9. ASSUME ends = "killed", says.completed PROVE says.hasError
  BY <1>1, <1>4, <1>9 DEF NoExit
<1>10. ends = "timeout" \/ ends = "silence" =>
            ClassifyCall(says) # "ok" /\ says.hasError
  BY <1>4, <1>8
<1>11. ends \in {"ok", "failed", "denied", "timeout", "silence", "killed"}
  BY DEF ends, Footers
<1>12. CASE ends = "ok"
  BY <1>1, <1>5, <1>12 DEF TellsOutcome, ends
<1>13. CASE ends = "failed"
  BY <1>1, <1>6, <1>13 DEF TellsOutcome, ends
<1>14. CASE ends = "denied"
  BY <1>1, <1>7, <1>14 DEF TellsOutcome, ends
<1>15. CASE ends = "timeout"
  BY <1>1, <1>4, <1>10, <1>15 DEF TellsOutcome, ends
<1>16. CASE ends = "silence"
  BY <1>1, <1>4, <1>10, <1>16 DEF TellsOutcome, ends
<1>17. CASE ends = "killed"
  BY <1>1, <1>9, <1>17 DEF TellsOutcome, CleanOk, ends
<1> QED
  BY <1>11, <1>12, <1>13, <1>14, <1>15, <1>16, <1>17

\* Of a log that was read to its end, all was read.
LEMMA ReadToTheEnd ==
    ASSUME NEW lines \in Lines PROVE SubSeq(lines, 1, Len(lines)) = lines
BY DEF Lines

\* A call of an answer tells how its log ended, once all of that log was read.
LEMMA CallTells ==
    ASSUME WorldInv, NEW cover, NEW f \in OfKind(cover, "call")
    PROVE  /\ CallOf(cover, f).name = f
           /\ cover.seen[f] = Len(work.logs[f].lines) => TellsOutcome(CallOf(cover, f))
<1>1. f \in Files /\ work.logs[f].kind = "call" /\ work \in Works
  BY DEF OfKind, WorldInv
<1>2. /\ work.logs[f].lines \in Lines /\ work.logs[f].name = f
      /\ work.logs[f].ends \in DOMAIN Footers
      /\ EndsAs(work.logs[f].lines, work.logs[f].ends)
  BY <1>1, WrittenAssumption DEF Lines
<1>3. /\ CallOf(cover, f).name = work.logs[f].name
      /\ CallOf(cover, f).says = Classified(SubSeq(work.logs[f].lines, 1, cover.seen[f]))
  BY Zenon DEF CallOf, CallRow
<1>4. ASSUME cover.seen[f] = Len(work.logs[f].lines) PROVE TellsOutcome(CallOf(cover, f))
  <2>1. PICK c, lines : c = CallOf(cover, f) /\ lines = work.logs[f].lines
    OBVIOUS
  <2>2. c.name = f /\ c.says = Classified(lines)
    BY <1>2, <1>3, <1>4, <2>1, ReadToTheEnd
  <2>3. TellsOutcome(c)
    BY <1>2, <2>1, <2>2, OutcomeTold
  <2> QED
    BY <2>1, <2>3
<1> QED
  BY <1>2, <1>3, <1>4

-----------------------------------------------------------------------------
(* The totals.                                                             *)

\* What is in a finite set and what is not make up the set.
LEMMA TwoParts ==
    ASSUME NEW S, IsFiniteSet(S), NEW A
    PROVE  /\ Cardinality(S) = Cardinality(S \cap A) + Cardinality(S \ A)
           /\ IsFiniteSet(S \cap A) /\ IsFiniteSet(S \ A)
           /\ Cardinality(S \cap A) \in Nat /\ Cardinality(S \ A) \in Nat
<1>1. IsFiniteSet(S \cap A) /\ IsFiniteSet(S \ A)
  BY FS_Intersection, FS_Difference
<1>2. (S \cap A) \cup (S \ A) = S /\ (S \cap A) \cap (S \ A) = {}
  OBVIOUS
<1>3. Cardinality((S \cap A) \cup (S \ A)) =
        Cardinality(S \cap A) + Cardinality(S \ A) - Cardinality((S \cap A) \cap (S \ A))
  BY <1>1, FS_Union
<1>4. Cardinality(S \cap A) \in Nat /\ Cardinality(S \ A) \in Nat /\ Cardinality({}) = 0
  BY <1>1, FS_CardinalityType, FS_EmptySet
<1>5. Cardinality(S) = Cardinality(S \cap A) + Cardinality(S \ A) - 0
  BY <1>2, <1>3, <1>4
<1> QED
  BY <1>1, <1>4, <1>5

\* The totals count each call once; of a run that is still going, one is still running.
LEMMA TotalsAddUp ==
    ASSUME NEW sessions, NEW n, IsFiniteSet(Positions(sessions)), Cardinality(Positions(sessions)) = n
    PROVE  LET stats == ComputeStats(sessions)
           IN  /\ stats.calls = n /\ stats.ok + stats.errors + stats.running = n
               /\ (\E p \in Positions(sessions) : ~SaysAt(sessions, p).completed) => stats.running > 0
<1> DEFINE all == Positions(sessions)
           completed == {p \in all : SaysAt(sessions, p).completed}
           failed == {p \in all : SaysAt(sessions, p).hasError}
           stats == ComputeStats(sessions)
<1>1. /\ stats.calls = Cardinality(all) /\ stats.running = Cardinality(all \ completed)
      /\ stats.errors = Cardinality(completed \cap failed)
      /\ stats.ok = Cardinality(completed \ failed)
  BY Zenon DEF ComputeStats
<1> HIDE DEF stats
<1>2. /\ Cardinality(all) = Cardinality(all \cap completed) + Cardinality(all \ completed)
      /\ IsFiniteSet(all \cap completed) /\ IsFiniteSet(all \ completed)
      /\ Cardinality(all \cap completed) \in Nat /\ Cardinality(all \ completed) \in Nat
  BY TwoParts
<1>3. all \cap completed = completed
  OBVIOUS
<1> HIDE DEF all, completed, failed
<1>4. /\ Cardinality(completed) = Cardinality(completed \cap failed) + Cardinality(completed \ failed)
      /\ Cardinality(completed \cap failed) \in Nat /\ Cardinality(completed \ failed) \in Nat
  BY <1>2, <1>3, TwoParts
<1>5. stats.calls = n /\ stats.ok + stats.errors + stats.running = n
  <2>1. Cardinality(all) = n
    BY DEF all
  <2>2. PICK going, bad, good \in Nat :
          /\ going = Cardinality(all \ completed) /\ bad = Cardinality(completed \cap failed)
          /\ good = Cardinality(completed \ failed) /\ n = (bad + good) + going
    BY <1>2, <1>3, <1>4, <2>1
  <2>3. good + bad + going = n
    BY <2>2
  <2> QED
    BY <1>1, <2>1, <2>2, <2>3
<1>6. ASSUME NEW p \in all, ~SaysAt(sessions, p).completed PROVE stats.running > 0
  <2>1. p \in all \ completed
    BY <1>6 DEF completed
  <2>2. Cardinality(all \ completed) # 0
    BY <1>2, <2>1, FS_EmptySet
  <2> QED
    BY <1>1, <1>2, <2>2
<1> QED
  BY <1>5, <1>6 DEF all, stats

-----------------------------------------------------------------------------
(* Each answer tells how the calls it covers ended, and counts them once.  *)

LEMMA AnswerTells ==
    ASSUME WorldInv, NEW cover, Heard(logs, cover.seen)
    PROVE  LET sessions == SessionsOf(cover)
               stats == ComputeStats(sessions)
               calls == CallsOf(cover)
           IN  /\ \A s \in Range(sessions) : \A c \in Calls(s) :
                     cover.seen[c.name] = Len(work.logs[c.name].lines) => TellsOutcome(c)
               /\ stats.calls = Len(calls) /\ stats.ok + stats.errors + stats.running = stats.calls
               /\ \A s \in Range(sessions) : ToSummary(s).running => stats.running > 0
<1>1. PICK calls : calls = {CallOf(cover, f) : f \in OfKind(cover, "call")}
  OBVIOUS
<1>2. PICK bss, sessions, n :
        /\ sessions = SessionsOf(cover) /\ n = Len(CallsOf(cover))
        /\ AreRuns(sessions, calls, bss, n)
  BY <1>1, SessionsAre
<1>3. PICK stats : stats = ComputeStats(sessions)
  OBVIOUS
<1>4. /\ stats.calls = n /\ stats.ok + stats.errors + stats.running = n
      /\ (\E p \in Positions(sessions) : ~SaysAt(sessions, p).completed) => stats.running > 0
  BY <1>2, <1>3, TotalsAddUp DEF AreRuns
<1>5. ASSUME NEW s \in Range(sessions), NEW c \in Calls(s)
      PROVE  c \in calls /\ \E p \in Positions(sessions) : SaysAt(sessions, p) = c.says
  <2>1. PICK i \in DOMAIN sessions : s = sessions[i]
    BY DEF Range
  <2>2. PICK j \in DOMAIN s.calls : c = s.calls[j]
    BY DEF Calls
  <2>3. s \in RunsOf(calls, bss)
    BY <1>2, <2>1 DEF AreRuns
  <2>4. s.calls \in Seq(calls)
    BY <2>3 DEF RunsOf
  <2>5. c \in calls
    BY <2>2, <2>4
  <2>6. <<i, j>> \in Positions(sessions)
    BY <2>1, <2>2, PositionsAre
  <2>7. SaysAt(sessions, <<i, j>>) = c.says
    BY <2>1, <2>2 DEF SaysAt
  <2> QED
    BY <2>5, <2>6, <2>7
<1>6. ASSUME NEW s \in Range(sessions), NEW c \in Calls(s),
             cover.seen[c.name] = Len(work.logs[c.name].lines)
      PROVE  TellsOutcome(c)
  <2>1. PICK f \in OfKind(cover, "call") : c = CallOf(cover, f)
    BY <1>1, <1>5
  <2> QED
    BY <1>6, <2>1, CallTells
<1>7. ASSUME NEW s \in Range(sessions), ToSummary(s).running PROVE stats.running > 0
  <2>1. PICK c \in Calls(s) : ~c.says.completed
    BY <1>7, Zenon DEF ToSummary, Running
  <2> QED
    BY <1>4, <1>5, <2>1
<1> QED
  BY <1>2, <1>3, <1>4, <1>6, <1>7

LEMMA OutcomesTold == DashInv /\ CoversInv => PageTellsOutcomes
BY AnswerTells DEF PageTellsOutcomes, DashInv, CoversInv

\* What a page shows of a call whose log was read to its end is how that call ended,
\* whatever the answer quotes; the totals count each call of the answer once, and a run
\* still going is among them: the answers of parser.py and server.py over any logs.
THEOREM OutcomesAreTold == Spec => []PageTellsOutcomes
BY DashInvariant, CoversInvariant, OutcomesTold, PTL
=============================================================================
