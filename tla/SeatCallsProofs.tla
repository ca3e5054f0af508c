--------------------------- MODULE SeatCallsProofs --------------------------
(* What is proved about SeatCalls: for any processes, threads, seats, schedule *)
(* of cooldowns and answers of the backends.                                   *)
EXTENDS SeatCalls, SequenceTheorems, TLAPS

-----------------------------------------------------------------------------
(* The store under its locks                                                  *)

Stores == [Keys -> [until : Nat, at : Nat, count : 0..Len(Schedule)]]

Jobs == [pc : {"idle", "lock", "flock", "load", "write"}, do : {"none", "record", "clear"},
         key : Keys, at : Nat, seen : Stores]

\* While no thread went on without a lock, who reads or writes the file holds its lock,
\* and what it has read is still the file.
Exclusive ==
    ~weak =>
      /\ file = ledger
      /\ \A t \in Threads :
           /\ job[t].pc \in {"load", "write"} => flock = t
           /\ job[t].pc = "write" => job[t].seen = file

StoreTypes ==
    /\ now \in Nat \ {0} /\ override \in Overrides
    /\ file \in Stores /\ ledger \in Stores /\ job \in [Threads -> Jobs]

-----------------------------------------------------------------------------
(* The calls                                                                  *)

GateLists ==
    {<<>>, <<"setup">>, <<"preflight">>, <<"setup", "preflight">>, <<"pictures">>,
     <<"cooldown", "setup">>, <<"cooldown", "setup", "preflight">>,
     <<"cooldown", "pictures">>, <<"unpaid", "setup">>, <<"unpaid", "setup", "preflight">>,
     <<"unpaid", "cooldown", "setup">>, <<"unpaid", "cooldown", "setup", "preflight">>,
     <<"unpaid", "cooldown", "pictures">>}

\* The lists of a seat that has a key in the store.
Cooled ==
    {<<"unpaid", "cooldown", "setup">>, <<"cooldown", "setup">>,
     <<"unpaid", "cooldown", "setup", "preflight">>, <<"cooldown", "setup", "preflight">>}
Picturing ==
    {<<"unpaid", "cooldown", "pictures">>, <<"cooldown", "pictures">>, <<"pictures">>}

\* What a call of the seat can still owe the store.
MayOwe(s) ==
    CASE Route(s) = "claude" ->
           {<<"cli">>, <<"api">>, <<"cli", "cli">>, <<"api", "cli">>}
      [] Route(s) = "opencode" -> {<<"opencode">>}
      [] OTHER -> {}
Owings == {<<>>} \cup UNION {MayOwe(s) : s \in Seats}

CallOK(c) ==
    c.pc \in {"gate", "asking", "called", "settle"} =>
      /\ c.seat \in Seats
      /\ c.gates \in GateLists
      /\ c.owed = <<>> \/ c.owed \in MayOwe(c.seat)
      /\ Pictorial(c.seat) /\ Len(c.owed) = 1 => c.owed = <<"cli">>
      /\ c.pc = "asking" => c.gates # <<>>
      /\ c.pc \in {"gate", "asking"} =>
           /\ c.gates \in Cooled => c.owed # <<>>
           /\ c.gates \in Picturing => Route(c.seat) = "claude" /\ c.owed = <<"cli">>

Calls ==
    [pc : {"idle", "gate", "asking", "called", "settle", "dead"}, n : Nat,
     seat : Seats, gates : GateLists,
     owed : Owings,
     tries : Nat, verdict : {"keep", "record", "clear"}]

CallInv ==
    /\ work \in Works
    /\ call \in [Threads -> Calls]
    /\ \A t \in Threads : CallOK(call[t])

-----------------------------------------------------------------------------
(* What a cooldown goes back to                                               *)

Since(k, at) == at <= chronicAt[k] \/ (k[2] = "cli" /\ at <= hearsay[k[1]])

Traced(store) ==
    \A k \in Keys : store[k] # NoEntry =>
      /\ store[k].at > 0 /\ Since(k, store[k].at)
      /\ \E n \in Lengths : store[k].until = store[k].at + n

TraceInv ==
    /\ chronicAt \in [Keys -> 0..now] /\ hearsay \in [Models -> 0..now]
    /\ Traced(file)
    /\ \A t \in Threads :
         /\ job[t].pc = "write" => Traced(job[t].seen)
         /\ job[t].pc # "idle" /\ job[t].do = "record"
              => job[t].at > 0 /\ Since(job[t].key, job[t].at)

DeniedInv ==
    /\ denied \in [Processes -> [Scopes -> {"unknown", "no", "yes"}]]
    /\ \A p \in Processes, m \in Models : denied[p][m] # "no"

SeatInv == StoreTypes /\ Exclusive /\ CallInv /\ TraceInv /\ DeniedInv

-----------------------------------------------------------------------------
(* Lists of gates                                                             *)

\* What the first gate of a list is, and what is left after it.
LEMMA GatesInOrder ==
    ASSUME NEW g \in GateLists, g # <<>>
    PROVE  /\ Head(g) \in {"unpaid", "setup", "cooldown", "preflight", "pictures"}
           /\ Tail(g) \in GateLists
           /\ Tail(g) \in Cooled => g \in Cooled
           /\ Tail(g) \in Picturing => g \in Picturing
           /\ Head(g) = "cooldown" =>
                \/ g \in Cooled /\ Tail(g) \in {<<"setup">>, <<"setup", "preflight">>}
                \/ g \in Picturing /\ Tail(g) = <<"pictures">>
           /\ Head(g) = "pictures" => g = <<"pictures">> /\ g \in Picturing
           /\ Head(g) = "preflight" => Tail(g) = <<>>
<1>1. CASE g = <<"setup">>
  BY <1>1 DEF GateLists, Cooled, Picturing
<1>2. CASE g = <<"preflight">>
  BY <1>2 DEF GateLists, Cooled, Picturing
<1>3. CASE g = <<"setup", "preflight">>
  BY <1>3 DEF GateLists, Cooled, Picturing
<1>4. CASE g = <<"pictures">>
  BY <1>4 DEF GateLists, Cooled, Picturing
<1>5. CASE g = <<"cooldown", "setup">>
  BY <1>5 DEF GateLists, Cooled, Picturing
<1>6. CASE g = <<"cooldown", "setup", "preflight">>
  BY <1>6 DEF GateLists, Cooled, Picturing
<1>7. CASE g = <<"cooldown", "pictures">>
  BY <1>7 DEF GateLists, Cooled, Picturing
<1>8. CASE g = <<"unpaid", "setup">>
  BY <1>8 DEF GateLists, Cooled, Picturing
<1>9. CASE g = <<"unpaid", "setup", "preflight">>
  BY <1>9 DEF GateLists, Cooled, Picturing
<1>10. CASE g = <<"unpaid", "cooldown", "setup">>
  BY <1>10 DEF GateLists, Cooled, Picturing
<1>11. CASE g = <<"unpaid", "cooldown", "setup", "preflight">>
  BY <1>11 DEF GateLists, Cooled, Picturing
<1>12. CASE g = <<"unpaid", "cooldown", "pictures">>
  BY <1>12 DEF GateLists, Cooled, Picturing
<1> QED
  BY <1>1, <1>2, <1>3, <1>4, <1>5, <1>6, <1>7, <1>8, <1>9, <1>10, <1>11, <1>12 DEF GateLists

\* What a call owes are keys of the store: its own, then an image call's.
LEMMA OwedIsKept ==
    ASSUME NEW s \in Seats, NEW o \in MayOwe(s)
    PROVE  /\ o # <<>> /\ (Tail(o) = <<>> \/ Tail(o) \in MayOwe(s))
           /\ <<s.model, Head(o)>> \in Keys
           /\ Len(o) = 1 => o = <<Head(o)>> /\ Tail(o) = <<>>
           /\ Len(o) = 2 => Tail(o) = <<"cli">>
           /\ Len(o) \in {1, 2}
           /\ Head(o) \in {"cli", "api", "opencode"}
<1>1. CASE Route(s) = "claude"
  <2>1. o \in {<<"cli">>, <<"api">>, <<"cli", "cli">>, <<"api", "cli">>}
    BY <1>1 DEF MayOwe
  <2>2. /\ Head(o) \in {"cli", "api"} /\ (Tail(o) = <<>> \/ Tail(o) = <<"cli">>) /\ o # <<>>
        /\ Len(o) \in {1, 2} /\ (Len(o) = 1 => o = <<Head(o)>> /\ Tail(o) = <<>>)
        /\ (Len(o) = 2 => Tail(o) = <<"cli">>)
    <3>1. CASE o = <<"cli">>
      BY <3>1
    <3>2. CASE o = <<"api">>
      BY <3>2
    <3>3. CASE o = <<"cli", "cli">>
      BY <3>3
    <3>4. CASE o = <<"api", "cli">>
      BY <3>4
    <3> QED BY <2>1, <3>1, <3>2, <3>3, <3>4
  <2>4. <<s.model, "cli">> \in Keys /\ <<s.model, "api">> \in Keys
    BY <1>1, SeatsAssumption
  <2>5. Tail(o) = <<"cli">> => Tail(o) \in MayOwe(s)
    BY <1>1 DEF MayOwe
  <2> QED BY <2>2, <2>4, <2>5
<1>2. CASE Route(s) # "claude"
  <2>1. Route(s) = "opencode" /\ o = <<"opencode">>
    BY <1>2 DEF MayOwe
  <2>2. Head(o) = "opencode" /\ Tail(o) = <<>> /\ o # <<>> /\ Len(o) = 1
    BY <2>1
  <2>3. <<s.model, "opencode">> \in Keys
    BY <2>1, SeatsAssumption
  <2> QED BY <2>1, <2>2, <2>3
<1> QED BY <1>1, <1>2

\* The gates of a plain call and what it owes.
LEMMA PlainCalls ==
    ASSUME NEW s \in Seats
    PROVE  /\ Plain(s).gates \in GateLists
           /\ Plain(s).kept = <<>> \/ Plain(s).kept \in MayOwe(s)
           /\ Plain(s).gates \in Cooled => Plain(s).kept # <<>>
           /\ Plain(s).gates \notin Picturing
           /\ Route(s) = "claude" => \E a \in {"cli", "api"} : Plain(s).kept = <<a>>
<1> DEFINE a == ClaudeAccess(work.env.mode, work.env.cli # "none", work.env.key)
<1>1. a \in {"cli", "api"} /\ Route(s) \in Routes
  BY DEF ClaudeAccess, Route, ResolveBackend, Routes
<1> HIDE DEF a
<1>2. Plain(s) = Adapter(Route(s), a, s.watch)
  BY DEF Plain, a
<1>3. CASE Route(s) = "claude"
  <2>1. Plain(s) = Claude(a) /\ MayOwe(s) = {<<"cli">>, <<"api">>, <<"cli", "cli">>, <<"api", "cli">>}
    BY <1>2, <1>3 DEF Adapter, MayOwe
  <2>2. Plain(s).gates = <<"unpaid", "cooldown", "setup">> /\ Plain(s).kept = <<a>>
    BY <2>1 DEF Claude
  <2> QED BY <1>1, <2>1, <2>2 DEF GateLists, Cooled, Picturing
<1>4. CASE Route(s) = "opencode"
  <2>1. Plain(s) = Opencode(s.watch) /\ MayOwe(s) = {<<"opencode">>}
    BY <1>2, <1>4 DEF Adapter, MayOwe
  <2>2. /\ Plain(s).gates = <<"unpaid", "cooldown", "setup", "preflight">>
        /\ Plain(s).kept = <<"opencode">>
    BY <2>1 DEF Opencode
  <2> QED BY <1>4, <2>1, <2>2 DEF GateLists, Cooled, Picturing
<1>5. CASE Route(s) \notin {"claude", "opencode"}
  <2>1. Plain(s) \in {Codex, Gemini, Zai, Commandcode, Openrouter, Omp}
    BY <1>1, <1>2, <1>5 DEF Adapter, Routes
  <2>2. /\ Plain(s).gates \in {<<"unpaid", "setup">>, <<"unpaid", "setup", "preflight">>}
        /\ Plain(s).kept = <<>>
    BY <2>1 DEF Codex, Gemini, Zai, Commandcode, Openrouter, Omp
  <2> QED BY <1>5, <2>2 DEF GateLists, Cooled, Picturing
<1> QED BY <1>3, <1>4, <1>5

\* A call that ends owes nothing, or what an image call owes.
LEMMA SettlingIsOK ==
    ASSUME NEW c \in Calls, c.pc = "settle", c.seat \in Seats, c.owed \in {<<>>, <<"cli">>},
           c.owed = <<>> \/ c.owed \in MayOwe(c.seat)
    PROVE  CallOK(c)
<1>1. c.gates \in GateLists
  BY DEF Calls
<1>2. Len(c.owed) = 1 => c.owed = <<"cli">>
  <2>1. CASE c.owed = <<>>
    BY <2>1
  <2>2. CASE c.owed = <<"cli">>
    BY <2>2
  <2> QED BY <2>1, <2>2
<1>3. c.pc \notin {"gate", "asking"}
  OBVIOUS
<1> QED BY <1>1, <1>2, <1>3 DEF CallOK

\* A call that is refused at a gate.
LEMMA RefusedIsOK ==
    ASSUME NEW c \in Calls, CallOK(c), c.pc \in {"gate", "asking"}, NEW v \in {"keep", "record"}
    PROVE  Refused(c, v) \in Calls /\ CallOK(Refused(c, v))
<1> DEFINE o == IF c.owed = <<>> THEN c.owed ELSE Tail(c.owed)
           d == [c EXCEPT !.pc = "settle", !.verdict = v, !.owed = o]
<1>1. c.seat \in Seats /\ (o = <<>> \/ o \in MayOwe(c.seat)) /\ o \in {<<>>, <<"cli">>}
  BY OwedIsKept DEF CallOK
<1>2. Refused(c, v) = d
  BY DEF Refused
<1> HIDE DEF o
<1>3. o \in Owings
  BY <1>1 DEF Owings
<1>4. d \in Calls /\ d.pc = "settle" /\ d.seat = c.seat /\ d.owed = o
  BY <1>3 DEF Calls
<1> HIDE DEF d
<1> QED BY <1>1, <1>2, <1>4, SettlingIsOK

\* A call that gets through a gate it was asked or waited at.
LEMMA PassIsOK ==
    ASSUME NEW c \in Calls, CallOK(c), c.pc \in {"gate", "asking"}, c.gates # <<>>
    PROVE  LET on == [Pass(c) EXCEPT !.pc = "gate"] IN on \in Calls /\ CallOK(on)
<1>1. c.gates \in GateLists
  BY DEF CallOK
<1> QED BY <1>1, GatesInOrder DEF Pass, Calls, CallOK

\* A call that gets through a gate at once.
LEMMA PassAtGateIsOK ==
    ASSUME NEW c \in Calls, CallOK(c), c.pc = "gate", c.gates # <<>>
    PROVE  Pass(c) \in Calls /\ CallOK(Pass(c))
<1>1. Pass(c) = [Pass(c) EXCEPT !.pc = "gate"]
  BY DEF Pass, Calls
<1> QED BY <1>1, PassIsOK

\* The gates that only look at the environment keep a call in order.
LEMMA LookAroundIsOK ==
    ASSUME NEW c \in Calls, CallOK(c)
    PROVE  LookAround(c) \in Calls /\ CallOK(LookAround(c))
<1>1. CASE c.pc = "gate" /\ c.gates # <<>>
  <2>1. LookAround(c) \in {c, Refused(c, "keep"), Pass(c)}
    BY DEF LookAround
  <2> QED BY <1>1, <2>1, RefusedIsOK, PassAtGateIsOK
<1>2. CASE ~(c.pc = "gate" /\ c.gates # <<>>)
  BY <1>2 DEF LookAround
<1> QED BY <1>1, <1>2

\* Two lists of one element, one after the other.
LEMMA Pairs ==
    ASSUME NEW S, NEW a \in S, NEW b \in S
    PROVE  <<a>> \o <<b>> = <<a, b>>
<1>1. <<a>> \in Seq(S) /\ <<b>> \in Seq(S) /\ <<a, b>> \in Seq(S)
  OBVIOUS
<1>2. Len(<<a>>) = 1 /\ Len(<<b>>) = 1 /\ Len(<<a, b>>) = 2
  OBVIOUS
<1>3. /\ <<a>> \o <<b>> \in Seq(S) /\ Len(<<a>> \o <<b>>) = 2
      /\ \A i \in 1..2 : (<<a>> \o <<b>>)[i] = IF i <= 1 THEN <<a>>[i] ELSE <<b>>[i - 1]
  BY <1>1, <1>2, ConcatProperties
<1>4. \A i \in 1..2 : (<<a>> \o <<b>>)[i] = <<a, b>>[i]
  <2>1. (<<a>> \o <<b>>)[1] = a
    BY <1>3
  <2>2. (<<a>> \o <<b>>)[2] = b
    BY <1>3
  <2> QED BY <2>1, <2>2
<1> QED BY <1>1, <1>2, <1>3, <1>4, SeqEqual

\* A thread at rest.
LEMMA RestIsOK ==
    ASSUME NEW n \in Nat
    PROVE  AtRest(n) \in Calls /\ CallOK(AtRest(n))
<1>1. AnySeat \in Seats
  BY SeatsAssumption DEF AnySeat
<1>2. <<>> \in GateLists /\ <<>> \in Owings
  BY DEF GateLists, Owings
<1> QED BY <1>1, <1>2 DEF AtRest, Calls, CallOK

\* Going on keeps a call in order.
LEMMA OnwardIsOK ==
    ASSUME NEW c \in Calls, CallOK(c)
    PROVE  Onward(c) \in Calls /\ CallOK(Onward(c))
<1> DEFINE d == LookAround(LookAround(c))
<1>1. d \in Calls /\ CallOK(d)
  BY LookAroundIsOK
<1> HIDE DEF d
<1>2. CASE d.pc = "gate" /\ d.gates = <<>>
  <2>1. Onward(c) = [d EXCEPT !.pc = "called"]
    BY <1>2 DEF Onward, d
  <2> QED BY <1>1, <1>2, <2>1 DEF Calls, CallOK
<1>3. CASE d.pc = "settle" /\ d.owed = <<>>
  <2>1. Onward(c) = AtRest(d.n) /\ d.n \in Nat
    BY <1>1, <1>3 DEF Onward, d, Calls
  <2> QED BY <2>1, RestIsOK
<1>4. CASE ~(d.pc = "gate" /\ d.gates = <<>>) /\ ~(d.pc = "settle" /\ d.owed = <<>>)
  <2>1. Onward(c) = d
    BY <1>4 DEF Onward, d
  <2> QED BY <1>1, <2>1
<1> QED BY <1>2, <1>3, <1>4

\* A step that puts one thread's call in order keeps all of them so.
LEMMA SetKeepsCalls ==
    ASSUME CallInv, NEW t \in Threads, NEW c \in Calls, CallOK(c), Set(t, c), work' = work
    PROVE  CallInv'
<1>1. Onward(c) \in Calls /\ CallOK(Onward(c))
  BY OnwardIsOK
<1>2. call' = [call EXCEPT ![t] = Onward(c)]
  BY DEF Set
<1> QED BY <1>1, <1>2 DEF CallInv

-----------------------------------------------------------------------------
(* The calls keep what is said of them                                        *)

LEMMA CallInit == Init => CallInv
<1> SUFFICES ASSUME Init PROVE CallInv
  OBVIOUS
<1>1. call = [t \in Threads |-> AtRest(0)] /\ work \in Works
  BY DEF Init
<1> QED BY <1>1, RestIsOK DEF CallInv

LEMMA CallStep == CallInv /\ [Next]_vars => CallInv'
<1> SUFFICES ASSUME CallInv, [Next]_vars PROVE CallInv'
  OBVIOUS
<1>0. ASSUME NEW t \in Threads PROVE call[t] \in Calls /\ CallOK(call[t])
  BY DEF CallInv
<1>1. ASSUME NEW t \in Threads, Start(t) PROVE CallInv'
  <2> DEFINE s == work.calls[t][call[t].n + 1]
             a == IF Pictorial(s) THEN ClaudeWithImages ELSE Plain(s)
             c == [AtRest(call[t].n + 1) EXCEPT
                     !.pc = "gate", !.seat = s, !.gates = a.gates, !.owed = a.kept]
  <2>1. s \in Seats /\ call[t].n + 1 \in Nat
    <3>1. work.calls[t] \in Seq(Seats) /\ call[t].n \in Nat
      BY <1>0, SeatsAssumption DEF CallInv, Calls
    <3>2. call[t].n + 1 \in 1..Len(work.calls[t])
      BY <1>1, <3>1 DEF Start
    <3> QED BY <3>1, <3>2, ElementOfSeq
  <2>2. Set(t, c) /\ work' = work
    BY <1>1 DEF Start
  <2>3. /\ a.gates \in GateLists /\ (a.kept = <<>> \/ a.kept \in MayOwe(s))
        /\ a.gates \in Cooled => a.kept # <<>>
        /\ a.gates \in Picturing => Route(s) = "claude" /\ a.kept = <<"cli">>
        /\ Pictorial(s) => a.kept = <<"cli">>
    <3>1. CASE Pictorial(s)
      <4>1. Route(s) = "claude" /\ a.kept = <<"cli">> /\ a.gates = <<"unpaid", "cooldown", "pictures">>
        BY <3>1 DEF Pictorial, ClaudeWithImages
      <4> HIDE DEF a
      <4>2. MayOwe(s) = {<<"cli">>, <<"api">>, <<"cli", "cli">>, <<"api", "cli">>}
        BY <4>1 DEF MayOwe
      <4>3. a.kept \in MayOwe(s)
        BY <4>1, <4>2
      <4>4. a.gates \in GateLists
        BY <4>1 DEF GateLists
      <4>5. <<"cli">> # <<>>
        OBVIOUS
      <4> QED BY <4>1, <4>3, <4>4, <4>5
    <3>2. CASE ~Pictorial(s)
      BY <2>1, <3>2, PlainCalls
    <3> QED BY <3>1, <3>2
  <2> HIDE DEF s, a
  <2>4. c \in Calls /\ CallOK(c)
    <3>1. a.kept \in Owings /\ AtRest(call[t].n + 1) \in Calls
      BY <2>1, <2>3, RestIsOK DEF Owings
    <3>2. c \in Calls
      BY <2>1, <2>3, <3>1 DEF Calls
    <3>3. c.pc = "gate" /\ c.seat = s /\ c.gates = a.gates /\ c.owed = a.kept
      BY <3>1 DEF Calls
    <3> QED BY <2>1, <2>3, <3>2, <3>3 DEF CallOK
  <2> QED BY <2>2, <2>4, SetKeepsCalls
<1>2. ASSUME NEW t \in Threads, CheckCooldown(t) PROVE CallInv'
  <2>1. call[t].pc = "gate" /\ call[t].gates # <<>>
    BY <1>2 DEF CheckCooldown, Gate, On
  <2>2. \/ Set(t, Refused(call[t], "record"))
        \/ Set(t, Pass(call[t]))
    BY <1>2 DEF CheckCooldown
  <2>3. work' = work
    BY <1>2 DEF CheckCooldown
  <2> QED BY <1>0, <2>1, <2>2, <2>3, RefusedIsOK, PassAtGateIsOK, SetKeepsCalls
<1>3. ASSUME NEW t \in Threads, FallBack(t) PROVE CallInv'
  <2> DEFINE c == call[t]
             plain == Plain(c.seat)
             d == [c EXCEPT !.gates = plain.gates, !.owed = plain.kept \o @]
  <2>1. c.pc = "gate" /\ c.gates # <<>> /\ Head(c.gates) = "pictures" /\ work' = work
    BY <1>3 DEF FallBack, Gate, On
  <2>2. c \in Calls /\ c.seat \in Seats /\ Route(c.seat) = "claude" /\ c.owed = <<"cli">>
    BY <1>0, <2>1, GatesInOrder DEF CallOK
  <2>3. Set(t, Pass(c)) \/ Set(t, d)
    BY <1>3 DEF FallBack
  <2>4. ASSUME Set(t, d) PROVE CallInv'
    <3>1. PICK a \in {"cli", "api"} : plain.kept = <<a>>
      BY <2>2, PlainCalls
    <3>2. d = [c EXCEPT !.gates = plain.gates, !.owed = <<a, "cli">>]
      BY <2>2, <3>1, Pairs
    <3>3. <<a, "cli">> \in MayOwe(c.seat) /\ <<a, "cli">> # <<>>
      BY <2>2, <3>1 DEF MayOwe
    <3>4. plain.gates \in GateLists /\ plain.gates \notin Picturing
      BY <2>2, PlainCalls
    <3> HIDE DEF plain
    <3> HIDE DEF c
    <3>5. d \in Calls
      <4>1. <<a, "cli">> \in Owings
        BY <2>2, <3>3 DEF Owings
      <4> QED BY <2>2, <3>2, <3>4, <4>1 DEF Calls
    <3>6. d.pc = "gate" /\ d.seat = c.seat /\ d.gates = plain.gates /\ d.owed = <<a, "cli">>
      BY <2>1, <2>2, <3>2 DEF Calls
    <3>7. Len(<<a, "cli">>) = 2
      OBVIOUS
    <3>8. CallOK(d)
      <4> HIDE DEF d
      <4> QED BY <2>2, <3>3, <3>4, <3>6, <3>7 DEF CallOK
    <3> QED BY <2>1, <2>4, <3>5, <3>8, SetKeepsCalls
  <2> QED BY <1>0, <2>1, <2>3, <2>4, PassAtGateIsOK, SetKeepsCalls
<1>4. ASSUME NEW t \in Threads, CheckAccount(t) PROVE CallInv'
  <2>1. call[t].pc = "gate" /\ call[t].gates # <<>> /\ work' = work
    BY <1>4 DEF CheckAccount, Gate, On
  <2>2. \/ Set(t, Refused(call[t], "keep"))
        \/ Set(t, Pass(call[t]))
        \/ Set(t, [call[t] EXCEPT !.pc = "asking"])
    BY <1>4 DEF CheckAccount
  <2>3. [call[t] EXCEPT !.pc = "asking"] \in Calls /\ CallOK([call[t] EXCEPT !.pc = "asking"])
    BY <1>0, <2>1 DEF Calls, CallOK
  <2> QED BY <1>0, <2>1, <2>2, <2>3, RefusedIsOK, PassAtGateIsOK, SetKeepsCalls
<1>5. ASSUME NEW t \in Threads, AccountAnswers(t) PROVE CallInv'
  <2>1. call[t].pc = "asking" /\ work' = work
    BY <1>5 DEF AccountAnswers, On
  <2>2. \/ Set(t, Refused(call[t], "keep"))
        \/ Set(t, [Pass(call[t]) EXCEPT !.pc = "gate"])
    BY <1>5 DEF AccountAnswers
  <2>3. call[t].gates # <<>>
    BY <1>0, <2>1 DEF CallOK
  <2> QED BY <1>0, <2>1, <2>2, <2>3, RefusedIsOK, PassIsOK, SetKeepsCalls
<1>6. ASSUME NEW t \in Threads, Answer(t) PROVE CallInv'
  <2>1. call[t].pc = "called" /\ work' = work
    BY <1>6 DEF Answer, On
  <2>2. PICK v \in {"keep", "record", "clear"} :
          \/ Set(t, [call[t] EXCEPT !.tries = @ + 1])
          \/ Set(t, [call[t] EXCEPT !.pc = "settle", !.verdict = v])
    BY <1>6 DEF Answer, Verdict
  <2>3. \A v1 \in {"keep", "record", "clear"} :
          LET c == [call[t] EXCEPT !.pc = "settle", !.verdict = v1] IN c \in Calls /\ CallOK(c)
    BY <1>0, <2>1 DEF Calls, CallOK
  <2>4. LET c == [call[t] EXCEPT !.tries = @ + 1] IN c \in Calls /\ CallOK(c)
    BY <1>0, <2>1 DEF Calls, CallOK
  <2> QED BY <2>1, <2>2, <2>3, <2>4, SetKeepsCalls
<1>7. ASSUME NEW t \in Threads, Settle(t) PROVE CallInv'
  <2> DEFINE c == call[t]
  <2>1. /\ c.pc = "settle" /\ c.owed # <<>> /\ work' = work
        /\ Set(t, [c EXCEPT !.owed = Tail(@)])
    BY <1>7 DEF Settle, On
  <2>2. c \in Calls /\ CallOK(c) /\ c.seat \in Seats /\ c.owed \in MayOwe(c.seat)
    BY <1>0, <2>1 DEF CallOK
  <2> DEFINE o == Tail(c.owed)
             d == [c EXCEPT !.owed = o]
  <2>3. (o = <<>> \/ o \in MayOwe(c.seat)) /\ o \in {<<>>, <<"cli">>}
    BY <2>2, OwedIsKept
  <2> HIDE DEF o
  <2>4. o \in Owings
    BY <2>2, <2>3 DEF Owings
  <2>5. d \in Calls /\ d.pc = "settle" /\ d.seat = c.seat /\ d.owed = o
    BY <2>1, <2>2, <2>4 DEF Calls
  <2>6. Set(t, d)
    BY <2>1 DEF o
  <2> HIDE DEF d
  <2>7. CallOK(d)
    BY <2>2, <2>3, <2>5, SettlingIsOK
  <2> QED BY <2>1, <2>5, <2>6, <2>7, SetKeepsCalls
<1>8. ASSUME NEW t \in Threads, Store(t) \/ Hang(t) PROVE CallInv'
  BY <1>8 DEF Store, Hang, callVars, CallInv
<1>9. ASSUME NEW p \in Processes, Kill(p) PROVE CallInv'
  <2> DEFINE dead == [AtRest(0) EXCEPT !.pc = "dead"]
             its == {t \in Threads : Process(t) = p}
  <2>1. dead \in Calls /\ CallOK(dead)
    BY RestIsOK DEF AtRest, Calls, CallOK
  <2>2. call' = [t \in Threads |-> IF t \in its THEN dead ELSE call[t]] /\ work' = work
    BY <1>9 DEF Kill
  <2> HIDE DEF dead, its
  <2> QED BY <2>1, <2>2 DEF CallInv
<1>10. CASE Time
  BY <1>10 DEF Time, callVars, CallInv
<1>11. CASE UNCHANGED vars
  BY <1>11 DEF vars, callVars, CallInv
<1> QED
  BY <1>1, <1>2, <1>3, <1>4, <1>5, <1>6, <1>7, <1>8, <1>9, <1>10, <1>11 DEF Next, ThreadStep

-----------------------------------------------------------------------------
(* The store keeps its types and, under its locks, its one order              *)

\* What a call owes is said of a key of the store.
LEMMA KeysAreKept ==
    ASSUME CallInv, NEW t \in Threads, call[t].pc \in {"gate", "asking", "called", "settle"},
           call[t].owed # <<>>
    PROVE  KeyOf(t) \in Keys
BY OwedIsKept DEF CallInv, CallOK, KeyOf

LEMMA IdleIsAJob == Idle \in Jobs
<1>1. (CHOOSE k \in Keys : TRUE) \in Keys
  BY SeatsAssumption
<1>2. EmptyStore \in Stores
  BY ScheduleAssumption DEF EmptyStore, NoEntry, Stores
<1> QED BY <1>1, <1>2 DEF Idle, Jobs

\* A new entry is of now, and lasts for one of the lengths.
LEMMA NewEntries ==
    ASSUME NEW prior \in [until : Nat, at : Nat, count : 0..Len(Schedule)], NEW at \in Nat,
           override \in Overrides
    PROVE  /\ NewEntry(prior, at) \in [until : Nat, at : Nat, count : 0..Len(Schedule)]
           /\ NewEntry(prior, at).at = at
           /\ \E n \in Lengths : NewEntry(prior, at).until = at + n
<1>0. Len(Schedule) \in Nat \ {0} /\ \A i \in 1..Len(Schedule) : Schedule[i] \in Nat
  BY ScheduleAssumption
<1>1. CASE override # Unset
  <2>1. override \in Nat /\ override \in Lengths
    BY <1>1, ScheduleAssumption DEF Lengths, Unset
  <2>2. NewEntry(prior, at) = [until |-> at + override, at |-> at, count |-> 1]
    BY <1>1 DEF NewEntry
  <2> QED BY <1>0, <2>1, <2>2
<1>2. CASE override = Unset
  <2> DEFINE n == FailCount(prior, at)
             i == IF n <= Len(Schedule) THEN n ELSE Len(Schedule)
  <2>1. n \in Nat \ {0}
    BY DEF FailCount
  <2>2. i \in 1..Len(Schedule)
    BY <1>0, <2>1
  <2>3. Schedule[i] \in Nat /\ Schedule[i] \in Lengths
    BY <1>0, <2>2 DEF Lengths
  <2>4. NewEntry(prior, at) = [until |-> at + Schedule[i], at |-> at, count |-> i]
    BY <1>2 DEF NewEntry, Ttl, Capped
  <2> HIDE DEF n, i
  <2> QED BY <2>2, <2>3, <2>4
<1> QED BY <1>1, <1>2

\* A store with one entry changed is a store.
LEMMA ChangesAreStores ==
    ASSUME StoreTypes, NEW store \in Stores, NEW t \in Threads
    PROVE  Changed(store, t) \in Stores
<1> DEFINE k == job[t].key
           e == IF job[t].do = "record" THEN NewEntry(store[k], job[t].at) ELSE NoEntry
<1>1. k \in Keys /\ job[t].at \in Nat /\ store[k] \in [until : Nat, at : Nat, count : 0..Len(Schedule)]
  BY DEF StoreTypes, Jobs, Stores
<1>2. e \in [until : Nat, at : Nat, count : 0..Len(Schedule)]
  <2>1. NoEntry \in [until : Nat, at : Nat, count : 0..Len(Schedule)]
    BY ScheduleAssumption DEF NoEntry
  <2>2. NewEntry(store[k], job[t].at) \in [until : Nat, at : Nat, count : 0..Len(Schedule)]
    BY <1>1, NewEntries DEF StoreTypes
  <2> QED BY <2>1, <2>2
<1>3. Changed(store, t) = [store EXCEPT ![k] = e]
  BY DEF Changed
<1> QED BY <1>1, <1>2, <1>3 DEF Stores

\* A job begins, goes on, ends, or is dropped.
LEMMA JobsBegin ==
    ASSUME job \in [Threads -> Jobs], now \in Nat, NEW t \in Threads, NEW k \in Keys
    PROVE  /\ StartRecord(t, k) => job' \in [Threads -> Jobs]
           /\ StartClear(t, k) => job' \in [Threads -> Jobs]
<1>1. ASSUME NEW do \in {"record", "clear"}, Begin(t, do, k) PROVE job' \in [Threads -> Jobs]
  <2>1. [Idle EXCEPT !.pc = "lock", !.do = do, !.key = k, !.at = now] \in Jobs
    BY IdleIsAJob DEF Jobs
  <2> QED BY <1>1, <2>1 DEF Begin
<1> QED BY <1>1 DEF StartRecord, StartClear

LEMMA EmptyIsAStore == EmptyStore \in Stores
BY ScheduleAssumption DEF EmptyStore, NoEntry, Stores

LEMMA StoreInitHolds == Init => StoreTypes /\ Exclusive
<1> SUFFICES ASSUME Init PROVE StoreTypes /\ Exclusive
  OBVIOUS
<1>1. EmptyStore \in Stores
  BY EmptyIsAStore
<1>2. StoreTypes
  BY <1>1, IdleIsAJob DEF Init, StoreInit, StoreTypes
<1>3. \A t \in Threads : job[t].pc = "idle"
  BY DEF Init, StoreInit, Idle
<1> QED BY <1>2, <1>3 DEF Init, StoreInit, Exclusive

LEMMA StoreTypesStep == StoreTypes /\ CallInv /\ [Next]_vars => StoreTypes'
<1> SUFFICES ASSUME StoreTypes, CallInv, [Next]_vars PROVE StoreTypes'
  OBVIOUS
<1>1. ASSUME NEW t \in Threads, TakeMutex(t) \/ MutexTimesOut(t) \/ TakeFlock(t) \/ FlockTimesOut(t)
      PROVE  StoreTypes'
  BY <1>1 DEF TakeMutex, MutexTimesOut, TakeFlock, FlockTimesOut, Goto, StoreTypes, Jobs
<1>2. ASSUME NEW t \in Threads, Load(t) PROVE StoreTypes'
  BY <1>2, EmptyIsAStore DEF Load, StoreTypes, Jobs
<1>3. ASSUME NEW t \in Threads, WriteBack(t) PROVE StoreTypes'
  <2>1. job[t].seen \in Stores
    BY DEF StoreTypes, Jobs
  <2>2. Changed(job[t].seen, t) \in Stores /\ Changed(ledger, t) \in Stores
    BY <2>1, ChangesAreStores DEF StoreTypes
  <2>3. job' = [job EXCEPT ![t] = Idle] /\ UNCHANGED <<now, override>>
        /\ \/ file' = Changed(job[t].seen, t) /\ ledger' = Changed(ledger, t)
           \/ UNCHANGED <<file, ledger>>
    BY <1>3 DEF WriteBack, Replace
  <2> QED BY <2>2, <2>3, IdleIsAJob DEF StoreTypes
<1>4. ASSUME NEW t \in Threads, Settle(t) PROVE StoreTypes'
  <2>1. KeyOf(t) \in Keys
    BY <1>4, KeysAreKept DEF Settle, On
  <2>2. StartRecord(t, KeyOf(t)) \/ StartClear(t, KeyOf(t)) \/ UNCHANGED job
    BY <1>4 DEF Settle
  <2>3. job' \in [Threads -> Jobs]
    BY <2>1, <2>2, JobsBegin DEF StoreTypes
  <2> QED BY <1>4, <2>3 DEF Settle, StoreTypes
<1>5. ASSUME NEW p \in Processes, Kill(p) PROVE StoreTypes'
  BY <1>5, IdleIsAJob DEF Kill, StoreTypes
<1>6. CASE Time
  BY <1>6 DEF Time, Tick, StoreTypes
<1>7. ASSUME UNCHANGED <<now, override, file, ledger, job>> PROVE StoreTypes'
  BY <1>7 DEF StoreTypes
<1>8. ASSUME NEW t \in Threads,
             Start(t) \/ CheckCooldown(t) \/ FallBack(t) \/ CheckAccount(t) \/ AccountAnswers(t)
               \/ Answer(t) \/ Hang(t)
      PROVE  StoreTypes'
  <2>1. UNCHANGED storeVars
    BY <1>8 DEF Start, CheckCooldown, FallBack, CheckAccount, AccountAnswers, Answer, Hang
  <2> QED BY <1>7, <2>1 DEF storeVars
<1>9. CASE UNCHANGED vars
  BY <1>7, <1>9 DEF vars, storeVars
<1> QED
  BY <1>1, <1>2, <1>3, <1>4, <1>5, <1>6, <1>8, <1>9 DEF Next, ThreadStep, Store, StoreStep

LEMMA ExclusiveStep == StoreTypes /\ CallInv /\ Exclusive /\ [Next]_vars => Exclusive'
<1> SUFFICES ASSUME StoreTypes, CallInv, Exclusive, [Next]_vars, ~weak' PROVE Exclusive'
  BY DEF Exclusive
<1>0. /\ job \in [Threads -> Jobs] /\ "free" \notin Threads
      /\ Idle.pc = "idle"
  BY SeatsAssumption DEF StoreTypes, Idle
<1>1. ASSUME NEW t \in Threads, TakeMutex(t) PROVE Exclusive'
  BY <1>0, <1>1 DEF TakeMutex, Goto, Exclusive, Jobs
<1>2. ASSUME NEW t \in Threads, MutexTimesOut(t) \/ FlockTimesOut(t) PROVE Exclusive'
  BY <1>2 DEF MutexTimesOut, FlockTimesOut, Exclusive
<1>3. ASSUME NEW t \in Threads, TakeFlock(t) PROVE Exclusive'
  BY <1>0, <1>3 DEF TakeFlock, At, Goto, Exclusive, Jobs
<1>4. ASSUME NEW t \in Threads, Load(t) PROVE Exclusive'
  BY <1>0, <1>4 DEF Load, At, Exclusive, Jobs
<1>5. ASSUME NEW t \in Threads, WriteBack(t) PROVE Exclusive'
  <2>1. /\ job[t].pc = "write" /\ weak' = weak /\ job' = [job EXCEPT ![t] = Idle]
        /\ \/ file' = Changed(job[t].seen, t) /\ ledger' = Changed(ledger, t)
           \/ UNCHANGED <<file, ledger>>
        /\ flock' = Freed(flock, {t})
    BY <1>5 DEF WriteBack, At, Replace, ReleaseBy
  <2>2. file = ledger /\ job[t].seen = file /\ flock = t
    BY <2>1 DEF Exclusive
  <2>3. \A u \in Threads : job'[u].pc \notin {"load", "write"}
    BY <1>0, <2>1, <2>2 DEF Exclusive
  <2> QED BY <2>1, <2>2, <2>3 DEF Exclusive
<1>6. ASSUME NEW t \in Threads, Settle(t) PROVE Exclusive'
  <2>1. \A u \in Threads : job'[u].pc = "lock" \/ job'[u] = job[u]
    BY <1>0, <1>6 DEF Settle, StartRecord, StartClear, Begin, Jobs, Idle
  <2>2. UNCHANGED <<weak, file, ledger, flock>>
    BY <1>6 DEF Settle
  <2> QED BY <2>1, <2>2 DEF Exclusive
<1>7. ASSUME NEW p \in Processes, Kill(p) PROVE Exclusive'
  <2>1. /\ UNCHANGED <<weak, file, ledger>>
        /\ flock' = Freed(flock, {t \in Threads : Process(t) = p})
        /\ job' = [t \in Threads |-> IF t \in {u \in Threads : Process(u) = p} THEN Idle ELSE job[t]]
    BY <1>7 DEF Kill, ReleaseBy
  <2> QED BY <1>0, <2>1 DEF Exclusive, Freed
<1>8. ASSUME UNCHANGED <<weak, file, ledger, flock, job>> PROVE Exclusive'
  BY <1>8 DEF Exclusive
<1>9. ASSUME NEW t \in Threads,
             Start(t) \/ CheckCooldown(t) \/ FallBack(t) \/ CheckAccount(t) \/ AccountAnswers(t)
               \/ Answer(t) \/ Hang(t)
      PROVE  Exclusive'
  <2>1. UNCHANGED storeVars
    BY <1>9 DEF Start, CheckCooldown, FallBack, CheckAccount, AccountAnswers, Answer, Hang
  <2> QED BY <1>8, <2>1 DEF storeVars
<1>10. CASE Time
  BY <1>8, <1>10 DEF Time, Tick
<1>11. CASE UNCHANGED vars
  BY <1>8, <1>11 DEF vars, storeVars
<1> QED
  BY <1>1, <1>2, <1>3, <1>4, <1>5, <1>6, <1>7, <1>9, <1>10, <1>11
    DEF Next, ThreadStep, Store, StoreStep

-----------------------------------------------------------------------------
(* Every entry goes back to a chronic result                                  *)

LEMMA SinceStays ==
    ASSUME \A k \in Keys : chronicAt[k] <= chronicAt'[k],
           \A m \in Models : hearsay[m] <= hearsay'[m],
           chronicAt \in [Keys -> Nat], chronicAt' \in [Keys -> Nat],
           hearsay \in [Models -> Nat], hearsay' \in [Models -> Nat]
    PROVE  \A k \in Keys, at \in Nat : Since(k, at) => Since(k, at)'
<1>1. \A k \in Keys : k[1] \in Models
  BY SeatsAssumption
<1> QED BY <1>1 DEF Since

LEMMA TraceInit == Init => TraceInv
BY DEF Init, StoreInit, TraceInv, Traced, EmptyStore, Idle

LEMMA TraceStep == StoreTypes /\ CallInv /\ TraceInv /\ [Next]_vars => TraceInv'
<1> SUFFICES ASSUME StoreTypes, CallInv, TraceInv, [Next]_vars PROVE TraceInv'
  OBVIOUS
<1>0. /\ job \in [Threads -> Jobs] /\ now \in Nat \ {0} /\ Idle.pc = "idle"
  BY DEF StoreTypes, Idle
<1>1. ASSUME NEW t \in Threads, TakeMutex(t) \/ MutexTimesOut(t) \/ TakeFlock(t) \/ FlockTimesOut(t),
             UNCHANGED callVars
      PROVE  TraceInv'
  BY <1>0, <1>1 DEF TakeMutex, MutexTimesOut, TakeFlock, FlockTimesOut, At, Goto, TraceInv,
    Traced, Since, Jobs, callVars
<1>2. ASSUME NEW t \in Threads, Load(t), UNCHANGED callVars PROVE TraceInv'
  <2>1. PICK seen : seen \in {file, EmptyStore} /\ job' = [job EXCEPT ![t].pc = "write", ![t].seen = seen]
    BY <1>2 DEF Load
  <2>2. Traced(seen)
    BY <2>1 DEF TraceInv, Traced, EmptyStore
  <2> QED
    BY <1>0, <1>2, <2>1, <2>2 DEF Load, At, TraceInv, Traced, Since, Jobs, callVars
<1>3. ASSUME NEW t \in Threads, WriteBack(t), Replace(t), UNCHANGED callVars PROVE TraceInv'
  <2> DEFINE k == job[t].key
             seen == job[t].seen
  <2>1. /\ job[t].pc = "write" /\ job' = [job EXCEPT ![t] = Idle] /\ UNCHANGED now
        /\ file' = Changed(seen, t) /\ UNCHANGED <<chronicAt, hearsay>>
    BY <1>3 DEF WriteBack, At, Replace, callVars
  <2>2. seen \in Stores /\ Traced(seen) /\ k \in Keys /\ job[t].at \in Nat
    BY <1>0, <2>1 DEF TraceInv, Jobs
  <2>3. /\ NewEntry(seen[k], job[t].at).at = job[t].at
        /\ \E n \in Lengths : NewEntry(seen[k], job[t].at).until = job[t].at + n
    BY <2>2, NewEntries DEF StoreTypes, Stores
  <2>4. /\ \A j \in Keys \ {k} : file'[j] = seen[j]
        /\ file'[k] = IF job[t].do = "record" THEN NewEntry(seen[k], job[t].at) ELSE NoEntry
    BY <2>1, <2>2 DEF Changed, Stores
  <2>5. job[t].do = "record" => job[t].at > 0 /\ Since(k, job[t].at)
    BY <2>1 DEF TraceInv
  <2>6. Traced(file')
    BY <2>2, <2>3, <2>4, <2>5 DEF Traced
  <2> QED BY <1>0, <2>1, <2>6 DEF TraceInv, Traced, Since
<1>4. ASSUME NEW t \in Threads, Settle(t) PROVE TraceInv'
  <2> DEFINE k == KeyOf(t)
             own == Len(call[t].owed) = 2 \/ ~Pictorial(call[t].seat) \/ TakesPictures
  <2>1. k \in Keys /\ k[1] \in Models /\ (~own => k[2] = "cli")
    <3>1. call[t].pc = "settle" /\ call[t].owed # <<>>
      BY <1>4 DEF Settle, On
    <3>2. k \in Keys
      BY <3>1, KeysAreKept
    <3>3. k[1] \in Models
      BY <3>2, SeatsAssumption
    <3>4. ASSUME ~own PROVE k[2] = "cli"
      <4>1. /\ call[t].owed \in MayOwe(call[t].seat) /\ call[t].seat \in Seats
            /\ Pictorial(call[t].seat) /\ Len(call[t].owed) # 2
        BY <3>1, <3>4 DEF CallInv, CallOK
      <4>2. call[t].owed = <<"cli">>
        BY <3>1, <4>1, OwedIsKept DEF CallInv, CallOK
      <4> QED BY <4>2 DEF KeyOf
    <3> QED BY <3>2, <3>3, <3>4
  <2>2. /\ UNCHANGED <<now, file>>
        /\ \/ call[t].verdict = "record" /\ StartRecord(t, k)
               /\ chronicAt' = (IF own THEN [chronicAt EXCEPT ![k] = now] ELSE chronicAt)
               /\ hearsay' = (IF own THEN hearsay ELSE [hearsay EXCEPT ![k[1]] = now])
           \/ /\ call[t].verdict # "record" /\ (StartClear(t, k) \/ UNCHANGED job)
              /\ UNCHANGED <<chronicAt, hearsay>>
    BY <1>4 DEF Settle
  <2> HIDE DEF k, own
  <2>3. /\ chronicAt' \in [Keys -> 0..now] /\ hearsay' \in [Models -> 0..now]
        /\ \A j \in Keys : chronicAt[j] <= chronicAt'[j]
        /\ \A m \in Models : hearsay[m] <= hearsay'[m]
    BY <1>0, <2>1, <2>2 DEF TraceInv
  <2>4. \A j \in Keys, at \in Nat : Since(j, at) => Since(j, at)'
    BY <1>0, <2>3, SinceStays DEF TraceInv
  <2>5. \A store \in Stores : Traced(store) =>
          \A j \in Keys : store[j] # NoEntry =>
             /\ store[j].at > 0 /\ Since(j, store[j].at)'
             /\ \E n \in Lengths : store[j].until = store[j].at + n
    BY <2>4 DEF Traced, Stores
  <2>6. Traced(file)'
    BY <2>2, <2>5 DEF Traced, TraceInv, StoreTypes
  <2>7. ASSUME NEW u \in Threads
        PROVE  /\ job'[u].pc = "write" => Traced(job[u].seen)'
               /\ job'[u].pc # "idle" /\ job'[u].do = "record"
                    => job'[u].at > 0 /\ Since(job[u].key, job[u].at)'
    <3>1. CASE job'[u] = job[u]
      BY <1>0, <2>4, <2>5, <3>1 DEF Traced, TraceInv, Jobs
    <3>2. CASE job'[u] # job[u]
      <4>1. CASE call[t].verdict = "record" /\ Begin(t, "record", k)
        <5>1. u = t /\ job'[u].key = k /\ job'[u].at = now /\ job'[u].pc = "lock"
          BY <1>0, <3>2, <4>1 DEF Begin, Idle
        <5>2. job[t] # job'[t] => chronicAt'[k] = now \/ (k[2] = "cli" /\ hearsay'[k[1]] = now)
          BY <2>1, <2>2, <4>1 DEF TraceInv, Begin
        <5> QED BY <1>0, <3>2, <5>1, <5>2 DEF Since
      <4>2. CASE Begin(t, "clear", k)
        <5>1. u = t /\ job'[u].do = "clear" /\ job'[u].pc = "lock"
          BY <1>0, <3>2, <4>2 DEF Begin, Idle
        <5> QED BY <5>1
      <4> QED BY <2>2, <3>2, <4>1, <4>2 DEF StartRecord, StartClear
    <3> QED BY <3>1, <3>2
  <2> QED BY <2>2, <2>3, <2>6, <2>7 DEF TraceInv
<1>5. ASSUME NEW p \in Processes, Kill(p) PROVE TraceInv'
  <2>1. UNCHANGED <<now, file, chronicAt, hearsay>>
        /\ job' = [t \in Threads |-> IF t \in {u \in Threads : Process(u) = p} THEN Idle ELSE job[t]]
    BY <1>5 DEF Kill
  <2> QED BY <1>0, <2>1 DEF TraceInv, Traced, Since
<1>6. CASE Time
  <2>1. now' = now + 1 /\ UNCHANGED <<file, job, chronicAt, hearsay>>
    BY <1>6 DEF Time, Tick, callVars
  <2> QED BY <1>0, <2>1 DEF TraceInv, Traced, Since
<1>7. ASSUME UNCHANGED <<now, file, job, chronicAt, hearsay>> PROVE TraceInv'
  BY <1>7 DEF TraceInv, Traced, Since
<1>8. ASSUME NEW t \in Threads,
             Start(t) \/ CheckCooldown(t) \/ FallBack(t) \/ CheckAccount(t) \/ AccountAnswers(t)
               \/ Answer(t) \/ Hang(t)
      PROVE  TraceInv'
  <2>1. UNCHANGED <<storeVars, chronicAt, hearsay>>
    BY <1>8 DEF Start, CheckCooldown, FallBack, CheckAccount, AccountAnswers, Answer, Hang
  <2> QED BY <1>7, <2>1 DEF storeVars
<1>9. CASE UNCHANGED vars
  BY <1>7, <1>9 DEF vars, storeVars, callVars
<1>10. ASSUME NEW t \in Threads, WriteBack(t), UNCHANGED <<file, ledger>>, UNCHANGED callVars
      PROVE  TraceInv'
  <2>1. job' = [job EXCEPT ![t] = Idle] /\ UNCHANGED <<now, chronicAt, hearsay>>
    BY <1>10 DEF WriteBack, callVars
  <2> QED BY <1>0, <1>10, <2>1 DEF TraceInv, Traced, Since
<1>11. ASSUME NEW t \in Threads, Store(t) PROVE TraceInv'
  <2>1. WriteBack(t) => Replace(t) \/ UNCHANGED <<file, ledger>>
    BY DEF WriteBack
  <2> QED BY <1>1, <1>2, <1>3, <1>10, <1>11, <2>1 DEF Store, StoreStep
<1> QED
  BY <1>4, <1>5, <1>6, <1>8, <1>9, <1>11 DEF Next, ThreadStep

-----------------------------------------------------------------------------
(* What a process was told about an account                                   *)

LEMMA DeniedInit == Init => DeniedInv
BY DEF Init, DeniedInv, Scopes

\* The invariant, and what it is for: a denial stands.
LEMMA DeniedStep ==
    CallInv /\ DeniedInv /\ [Next]_vars =>
      /\ DeniedInv'
      /\ \A p \in Processes, s \in Scopes : denied[p][s] = "yes" => denied'[p][s] = "yes"
<1> SUFFICES ASSUME CallInv, DeniedInv, [Next]_vars
             PROVE  /\ DeniedInv'
                    /\ \A p \in Processes, s \in Scopes :
                         denied[p][s] = "yes" => denied'[p][s] = "yes"
  OBVIOUS
<1>1. ASSUME NEW t \in Threads, AccountAnswers(t)
      PROVE  /\ DeniedInv'
             /\ \A p \in Processes, s \in Scopes : denied[p][s] = "yes" => denied'[p][s] = "yes"
  <2> DEFINE s == call[t].seat
             p == Process(t)
  <2>1. /\ s.model \in Models /\ s.model \in Scopes /\ s.provider \in Scopes
        /\ s.provider \notin Models /\ p \in Processes
    <3>1. s \in Seats
      BY <1>1 DEF AccountAnswers, On, CallInv, CallOK
    <3> QED BY <3>1, SeatsAssumption DEF Models, Providers, Scopes, Processes
  <2>2. \/ Paid(p, s)
        \/ denied' = [denied EXCEPT ![p][s.provider] = "yes"]
        \/ UNCHANGED denied
    BY <1>1 DEF AccountAnswers
  <2> HIDE DEF s, p
  <2>3. CASE Paid(p, s)
    BY <2>1, <2>3 DEF Paid, Known, DeniedInv
  <2>4. CASE denied' = [denied EXCEPT ![p][s.provider] = "yes"]
    BY <2>1, <2>4 DEF DeniedInv
  <2>5. CASE UNCHANGED denied
    BY <2>5 DEF DeniedInv
  <2> QED BY <2>2, <2>3, <2>4, <2>5
<1>2. ASSUME NEW t \in Threads, Answer(t)
      PROVE  /\ DeniedInv'
             /\ \A p \in Processes, s \in Scopes : denied[p][s] = "yes" => denied'[p][s] = "yes"
  <2>1. Process(t) \in Processes
    BY DEF Processes
  <2>2. call[t].seat \in Seats
    BY <1>2 DEF Answer, On, CallInv, CallOK
  <2>3. UNCHANGED denied \/ \E scope \in Scopes :
                                denied' = [denied EXCEPT ![Process(t)][scope] = "yes"]
    <3>1. call[t].seat.model \in Scopes /\ call[t].seat.provider \in Scopes
      BY <2>2 DEF Scopes, Models, Providers
    <3>2. UNCHANGED denied \/ \E o \in Results(call[t]) : LearnDenial(t, o)
      BY <1>2 DEF Answer
    <3>3. ASSUME NEW o \in Results(call[t]), LearnDenial(t, o)
          PROVE  \/ UNCHANGED denied
                 \/ \E scope \in {call[t].seat.provider, call[t].seat.model} :
                       denied' = [denied EXCEPT ![Process(t)][scope] = "yes"]
      BY <3>3 DEF LearnDenial
    <3> QED BY <3>1, <3>2, <3>3
  <2>4. CASE UNCHANGED denied
    BY <2>4 DEF DeniedInv
  <2>5. ASSUME NEW scope \in Scopes, denied' = [denied EXCEPT ![Process(t)][scope] = "yes"]
        PROVE  /\ DeniedInv'
               /\ \A p \in Processes, s \in Scopes : denied[p][s] = "yes" => denied'[p][s] = "yes"
    BY <2>1, <2>5 DEF DeniedInv
  <2> QED BY <2>3, <2>4, <2>5
<1>3. ASSUME UNCHANGED denied
      PROVE  /\ DeniedInv'
             /\ \A p \in Processes, s \in Scopes : denied[p][s] = "yes" => denied'[p][s] = "yes"
  BY <1>3 DEF DeniedInv
<1>4. ASSUME NEW t \in Threads,
             Start(t) \/ CheckCooldown(t) \/ FallBack(t) \/ CheckAccount(t) \/ Settle(t)
               \/ Store(t) \/ Hang(t)
      PROVE  UNCHANGED denied
  BY <1>4 DEF Start, CheckCooldown, FallBack, CheckAccount, Settle, Store, Hang, callVars
<1>5. ASSUME (\E p \in Processes : Kill(p)) \/ Time \/ UNCHANGED vars PROVE UNCHANGED denied
  BY <1>5 DEF Kill, Time, callVars, vars
<1> QED BY <1>1, <1>2, <1>3, <1>4, <1>5 DEF Next, ThreadStep

-----------------------------------------------------------------------------
(* The theorems                                                               *)

\* The store's file, the calls in flight and what is known of accounts have the shape
\* the code expects, and every cooldown goes back to a result, in every state.
THEOREM SeatInvariant == Spec => []SeatInv
<1>1. Init => SeatInv
  BY StoreInitHolds, CallInit, TraceInit, DeniedInit DEF SeatInv
<1>2. SeatInv /\ [Next]_vars => SeatInv'
  BY StoreTypesStep, ExclusiveStep, CallStep, TraceStep, DeniedStep DEF SeatInv
<1> QED BY <1>1, <1>2, PTL DEF Spec

\* No change of the store is lost while threads get their locks and read what the file
\* holds, and no denial of an account is forgotten.
THEOREM NothingIsForgotten == Spec => NothingLearntIsLost
<1>1. SeatInv => (~weak => file = ledger)
  BY DEF SeatInv, Exclusive
<1>2. SeatInv /\ [Next]_vars =>
        [\A p \in Processes, s \in Scopes : denied[p][s] = "yes" => denied'[p][s] = "yes"]_vars
  BY DeniedStep DEF SeatInv
<1>3. Spec => []SeatInv
  BY SeatInvariant
<1> QED BY <1>1, <1>2, <1>3, PTL DEF Spec, NothingLearntIsLost

-----------------------------------------------------------------------------
(* The file is the store of the contract                                      *)

\* What a recorded failure leaves is what the contract lets follow.
LEMMA EntriesFollow ==
    ASSUME override \in Overrides, NEW at \in Nat,
           NEW prior \in [until : Nat, at : Nat, count : 0..Len(Schedule)]
    PROVE  StoreKept!Follows(prior, NewEntry(prior, at))
<1> DEFINE entry == NewEntry(prior, at)
<1>0. Len(Schedule) \in Nat \ {0} /\ DOMAIN Schedule = 1..Len(Schedule) /\ ResetAfter \in Nat
  BY ScheduleAssumption
<1>1. CASE override # Unset
  <2>1. entry = [until |-> at + override, at |-> at, count |-> 1] /\ override \in Nat
    BY <1>1, ScheduleAssumption DEF NewEntry
  <2>2. entry.until - entry.at = override /\ override \in Lengths
    BY <1>1, <2>1 DEF Lengths
  <2>3. entry.count = 1
    BY <2>1
  <2> HIDE DEF entry
  <2>4. StoreKept!Follows(prior, entry)
    BY <2>2, <2>3 DEF StoreKept!Follows
  <2> QED BY <2>4 DEF entry
<1>2. CASE override = Unset
  <2> DEFINE n == FailCount(prior, at)
  <2>1. entry = [until |-> at + Ttl(n), at |-> at, count |-> Capped(n)]
    BY <1>2 DEF NewEntry
  <2>2. n \in Nat \ {0}
    BY <1>0 DEF FailCount
  <2>3. Ttl(n) \in Lengths /\ Ttl(n) \in Nat
    <3>1. (IF n <= Len(Schedule) THEN n ELSE Len(Schedule)) \in DOMAIN Schedule
      <4> HIDE DEF n
      <4> QED BY <1>0, <2>2
    <3> HIDE DEF n
    <3> QED BY <3>1, ScheduleAssumption DEF Ttl, Lengths
  <2>4. \/ Capped(n) = 1
        \/ /\ prior # StoreKept!None /\ at - prior.at \in 0..ResetAfter
           /\ Capped(n) = IF prior.count < Len(Schedule) THEN prior.count + 1 ELSE Len(Schedule)
    <3>1. CASE prior # NoEntry /\ at - prior.at \in 0..ResetAfter
      <4>1. n = prior.count + 1
        BY <3>1 DEF FailCount
      <4> HIDE DEF n
      <4> QED BY <1>0, <3>1, <4>1 DEF Capped, NoEntry, StoreKept!None
    <3>2. CASE ~(prior # NoEntry /\ at - prior.at \in 0..ResetAfter)
      <4>1. n = 1
        BY <3>2 DEF FailCount
      <4> HIDE DEF n
      <4> QED BY <1>0, <4>1 DEF Capped
    <3> QED BY <3>1, <3>2
  <2> HIDE DEF n
  <2>5. entry.until - entry.at = Ttl(n) /\ entry.at = at /\ entry.count = Capped(n)
    BY <2>1, <2>3
  <2> HIDE DEF entry
  <2>6. StoreKept!Follows(prior, entry)
    BY <2>3, <2>4, <2>5 DEF StoreKept!Follows
  <2> QED BY <2>6 DEF entry
<1> QED BY <1>1, <1>2

\* Under its locks a writer changes its one entry of what the file holds then.
LEMMA WritesAreChanges ==
    ASSUME StoreTypes, Exclusive, ~weak, NEW t \in Threads, WriteBack(t), Replace(t)
    PROVE  StoreKept!Next
<1> DEFINE k == job[t].key
           entry == IF job[t].do = "record" THEN NewEntry(file[k], job[t].at) ELSE NoEntry
<1>1. job[t] \in Jobs /\ file \in Stores /\ override \in Overrides
  BY DEF StoreTypes
<1>2. k \in Keys /\ job[t].at \in Nat
  BY <1>1 DEF Jobs
<1>3. job[t].seen = file /\ file' = Changed(job[t].seen, t)
  BY DEF WriteBack, At, Replace, Exclusive
<1>4. file' = [file EXCEPT ![k] = entry]
  BY <1>3 DEF Changed
<1>5. file[k] \in [until : Nat, at : Nat, count : 0..Len(Schedule)]
  BY <1>1, <1>2 DEF Stores
<1>6. CASE job[t].do = "record"
  <2>1. StoreKept!Follows(file[k], entry)
    BY <1>1, <1>2, <1>5, <1>6, EntriesFollow
  <2> HIDE DEF k, entry
  <2>2. file'[k] = entry
    BY <1>1, <1>2, <1>4 DEF Stores
  <2>3. StoreKept!Record(k)
    BY <1>4, <2>1, <2>2 DEF StoreKept!Record
  <2> QED BY <1>2, <2>3 DEF StoreKept!Next
<1>7. CASE job[t].do # "record"
  <2>1. entry = StoreKept!None
    BY <1>7 DEF NoEntry, StoreKept!None
  <2>2. StoreKept!Clear(k)
    BY <1>4, <2>1 DEF StoreKept!Clear
  <2> QED BY <1>2, <2>2 DEF StoreKept!Next
<1> QED BY <1>6, <1>7

\* No other step touches the file.
LEMMA OnlyWritersChange ==
    ASSUME StoreTypes, Exclusive, [Next]_vars, ~weak
    PROVE  [StoreKept!Next]_file
<1>1. ASSUME NEW t \in Threads, StoreStep(t) PROVE StoreKept!Next \/ file' = file
  BY <1>1, WritesAreChanges
    DEF StoreStep, TakeMutex, MutexTimesOut, TakeFlock, FlockTimesOut, Load, WriteBack
<1>2. ASSUME NEW t \in Threads,
             Start(t) \/ CheckCooldown(t) \/ FallBack(t) \/ CheckAccount(t) \/ AccountAnswers(t)
               \/ Answer(t) \/ Settle(t) \/ Hang(t)
      PROVE  file' = file
  BY <1>2 DEF Start, CheckCooldown, FallBack, CheckAccount, AccountAnswers, Answer, Settle,
    Hang, storeVars
<1>3. ASSUME NEW p \in Processes, Kill(p) PROVE file' = file
  BY <1>3 DEF Kill
<1>4. Time \/ UNCHANGED vars => file' = file
  BY DEF Time, Tick, vars, storeVars
<1> QED BY <1>1, <1>2, <1>3, <1>4 DEF Next, ThreadStep, Store

\* As long as every thread gets its locks and reads what the file holds, the file that all
\* the review processes share,
\* each reading and replacing it as a whole, is a store whose entries change one at a
\* time, each from what was there before (seat_cooldown.py's record_cooldown and
\* clear_cooldown under _locked).
THEOREM StoreImplementsContract == Spec /\ [](~weak) => StoreKept!Spec
<1>1. Init => StoreKept!Init
  BY DEF Init, StoreInit, EmptyStore, NoEntry, StoreKept!Init, StoreKept!None
<1>2. SeatInv /\ ~weak /\ [Next]_vars => [StoreKept!Next]_file
  BY OnlyWritersChange DEF SeatInv
<1>3. Spec => []SeatInv
  BY SeatInvariant
<1> QED BY <1>1, <1>2, <1>3, PTL DEF Spec, StoreKept!Spec

-----------------------------------------------------------------------------
(* Who is skipped                                                             *)

\* A ready seat that its cooldown gate lets through goes on to a gate or to its call.
LEMMA ReadyGoesOn ==
    ASSUME NEW c \in Calls, c.pc = "gate", c.seat.ready,
           c.gates \in {<<"setup">>, <<"setup", "preflight">>, <<"pictures">>}
    PROVE  Onward(c).pc \in {"gate", "called"}
<1>1. CASE c.gates = <<"setup">>
  <2>1. LookAround(c) = Pass(c) /\ Pass(c).pc = "gate" /\ Pass(c).gates = <<>>
    BY <1>1 DEF LookAround, Pass, Calls
  <2>2. LookAround(Pass(c)) = Pass(c)
    BY <2>1 DEF LookAround
  <2>3. Onward(c) = [Pass(c) EXCEPT !.pc = "called"]
    BY <2>1, <2>2 DEF Onward
  <2> QED BY <2>3 DEF Pass, Calls
<1>2. CASE c.gates = <<"setup", "preflight">>
  <2>1. LookAround(c) = Pass(c) /\ Pass(c).pc = "gate" /\ Pass(c).gates = <<"preflight">>
    BY <1>2 DEF LookAround, Pass, Calls
  <2>2. LookAround(Pass(c)) = Pass(c) /\ <<"preflight">> # <<>>
    BY <2>1 DEF LookAround
  <2> QED BY <2>1, <2>2 DEF Onward
<1>3. CASE c.gates = <<"pictures">>
  <2>1. LookAround(c) = c /\ <<"pictures">> # <<>>
    BY <1>3 DEF LookAround
  <2> QED BY <1>3, <2>1 DEF Onward
<1> QED BY <1>1, <1>2, <1>3

\* A step that takes a ready seat past its cooldown gate does not refuse it unless the
\* cooldown is active.
LEMMA OnlyCoolingIsSkipped ==
    ASSUME CallInv, [Next]_vars, NEW t \in Threads,
           Gate(t, "cooldown"), call'[t].pc \in {"settle", "idle"}, call[t].seat.ready
    PROVE  Cooling(t)
<1>1. call \in [Threads -> Calls] /\ CallOK(call[t]) /\ call[t].pc = "gate" /\ call[t].gates # <<>>
      /\ Head(call[t].gates) = "cooldown"
  BY DEF CallInv, Gate, On
<1>2. CheckCooldown(t)
  <2>1. call'[t].pc # call[t].pc /\ call'[t].pc # "dead"
    BY <1>1
  <2>2. ASSUME NEW u \in Threads, u # t, Start(u) \/ ThreadStep(u) \/ Hang(u)
        PROVE  call'[t] = call[t]
    BY <1>1, <2>2 DEF Start, ThreadStep, Hang, CheckCooldown, FallBack, CheckAccount,
      AccountAnswers, Answer, Settle, Store, Set, callVars
  <2>3. ~Start(t) /\ ~FallBack(t) /\ ~CheckAccount(t) /\ ~AccountAnswers(t) /\ ~Answer(t) /\ ~Settle(t)
    BY <1>1 DEF Start, FallBack, CheckAccount, AccountAnswers, Answer, Settle, Gate, On
  <2>4. Store(t) \/ Hang(t) \/ Time \/ UNCHANGED vars => call' = call
    BY DEF Store, Hang, Time, callVars, vars
  <2>5. ASSUME NEW p \in Processes, Kill(p) PROVE call'[t].pc \in {call[t].pc, "dead"}
    <3>1. [AtRest(0) EXCEPT !.pc = "dead"].pc = "dead"
      BY DEF AtRest
    <3> QED BY <2>5, <3>1 DEF Kill
  <2> QED BY <2>1, <2>2, <2>3, <2>4, <2>5 DEF Next, ThreadStep
<1>3. ASSUME ~Cooling(t) PROVE FALSE
  <2> DEFINE c == Pass(call[t])
  <2>1. call'[t] = Onward(c)
    BY <1>1, <1>2, <1>3 DEF CheckCooldown, Set
  <2>2. c.gates \in {<<"setup">>, <<"setup", "preflight">>, <<"pictures">>}
    BY <1>1, GatesInOrder DEF CallOK, Pass, Calls
  <2>3. c.pc = "gate" /\ c.seat.ready /\ c \in Calls /\ CallOK(c)
    BY <1>1, PassAtGateIsOK DEF Pass, Calls
  <2> HIDE DEF c
  <2> QED BY <2>1, <2>2, <2>3, ReadyGoesOn
<1> QED BY <1>3

\* What came no earlier than the start of a cooldown that still lasts is recent.
LEMMA LaterIsRecent ==
    ASSUME NEW at \in Nat, at > 0, NEW n \in Lengths, n \in Nat, now \in Nat, now < at + n,
           NEW x \in 0..now, at <= x
    PROVE  Recent(x)
<1>1. x # 0 /\ now < x + n
  OBVIOUS
<1> QED BY <1>1 DEF Recent

\* A seat that is skipped was skipped on the word of a chronic result of the same model
\* and transport that is no older than the longest cooldown, or of an image call.
THEOREM SkipsAreEarned == Spec => SkipIsEarned
<1>1. ASSUME SeatInv, [Next]_vars, NEW t \in Threads,
             Gate(t, "cooldown"), call'[t].pc \in {"settle", "idle"}, call[t].seat.ready
      PROVE  LET k == KeyOf(t)
             IN  Recent(chronicAt[k]) \/ (k[2] = "cli" /\ Recent(hearsay[k[1]]))
  <2> DEFINE k == KeyOf(t)
  <2>1. k \in Keys /\ k[1] \in Models
    <3>1. call[t] \in Calls /\ CallOK(call[t]) /\ call[t].pc = "gate" /\ call[t].gates # <<>>
          /\ Head(call[t].gates) = "cooldown"
      BY <1>1 DEF SeatInv, CallInv, Gate, On
    <3>2. call[t].owed # <<>>
      <4>1. call[t].gates \in GateLists
        BY <3>1 DEF CallOK
      <4>2. call[t].gates \in Cooled \/ call[t].gates \in Picturing
        BY <3>1, <4>1, GatesInOrder
      <4>3. CASE call[t].gates \in Cooled
        BY <3>1, <4>3 DEF CallOK
      <4>4. CASE call[t].gates \in Picturing
        <5>1. call[t].owed = <<"cli">>
          BY <3>1, <4>4 DEF CallOK
        <5> QED BY <5>1
      <4> QED BY <4>2, <4>3, <4>4
    <3>3. k \in Keys
      BY <1>1, <3>1, <3>2, KeysAreKept DEF SeatInv
    <3> QED BY <3>3, SeatsAssumption
  <2>2. file[k].until > now
    BY <1>1, OnlyCoolingIsSkipped DEF SeatInv, Cooling, ActiveCooldown
  <2> HIDE DEF k
  <2>3. /\ file[k] \in [until : Nat, at : Nat, count : 0..Len(Schedule)] /\ now \in Nat \ {0}
        /\ chronicAt[k] \in 0..now /\ hearsay[k[1]] \in 0..now
    BY <1>1, <2>1 DEF SeatInv, StoreTypes, Stores, TraceInv
  <2>4. file[k] # NoEntry
    BY <2>2, <2>3 DEF NoEntry
  <2>5. /\ file[k].at > 0 /\ Since(k, file[k].at)
        /\ \E n \in Lengths : file[k].until = file[k].at + n
    BY <1>1, <2>1, <2>4 DEF SeatInv, TraceInv, Traced
  <2>6. \A n \in Lengths : n \in Nat
    BY ScheduleAssumption DEF Lengths
  <2>7. Recent(chronicAt[k]) \/ (k[2] = "cli" /\ Recent(hearsay[k[1]]))
    <3>1. PICK n \in Lengths : file[k].until = file[k].at + n
      BY <2>5
    <3>2. n \in Nat /\ file[k].at \in Nat /\ file[k].at > 0 /\ now < file[k].at + n
      BY <2>2, <2>3, <2>5, <2>6, <3>1
    <3>3. ASSUME NEW x \in 0..now, file[k].at <= x PROVE Recent(x)
      BY <2>3, <3>2, <3>3, LaterIsRecent
    <3>4. CASE file[k].at <= chronicAt[k]
      BY <2>3, <3>3, <3>4
    <3>5. CASE k[2] = "cli" /\ file[k].at <= hearsay[k[1]]
      BY <2>3, <3>3, <3>5
    <3> QED BY <2>5, <3>4, <3>5 DEF Since
  <2> QED BY <2>7 DEF k
<1>2. SeatInv /\ [Next]_vars =>
        [\A t \in Threads :
           (Gate(t, "cooldown") /\ call'[t].pc \in {"settle", "idle"} /\ call[t].seat.ready) =>
              LET k == KeyOf(t)
              IN  Recent(chronicAt[k]) \/ (k[2] = "cli" /\ Recent(hearsay[k[1]]))]_vars
  BY <1>1
<1> QED BY <1>2, SeatInvariant, PTL DEF Spec, SkipIsEarned
=============================================================================
