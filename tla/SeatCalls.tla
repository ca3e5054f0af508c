----------------------------- MODULE SeatCalls ------------------------------
(* Seats are called by the threads of several review processes (backends.py).  *)
(* A call passes its gates, gets a result and lets the store of cooldowns know *)
(* what the result means; a denial of payment is kept by the process.          *)
EXTENDS Adapters, SeatCooldown

CONSTANTS
    Seats,      \* [model, named, provider, unpaid, ready, watch, images]
    Works       \* [env, calls]: what the claude adapter finds -- [mode, cli, key], for
                \* REVIEW_CLAUDE_MODE, the CLI and a key -- and the seats each thread
                \* calls, one after the other

MaxStalls == 3
Models == {s.model : s \in Seats}
Providers == {s.provider : s \in Seats}
Scopes == Models \cup Providers     \* what a denial can be about

VARIABLES
    work,       \* one of Works
    call,       \* the call each thread is in
    denied,     \* _PAYMENT_PREFLIGHT_CACHE of each process: "unknown", "no" or "yes"
    trusted,    \* ~/.claude.json: "repo", or the images' directory of a thread's call
    stuck,      \* threads that hang for good
    chronicAt,  \* history: when a result of the key was last read as chronic, 0 if never
    hearsay     \* history: when a model's CLI was last blamed for another's result

callVars == <<work, call, denied, trusted, stuck, chronicAt, hearsay>>
vars == <<storeVars, callVars>>

\* The seat of a thread at rest is not looked at.
AnySeat == CHOOSE s \in Seats : TRUE
AtRest(n) ==
    [pc |-> "idle", n |-> n, seat |-> AnySeat, gates |-> <<>>, owed |-> <<>>,
     tries |-> 0, verdict |-> "keep"]

Init ==
    /\ StoreInit
    /\ work \in Works
    /\ call = [t \in Threads |-> AtRest(0)]
    /\ denied = [p \in Processes |-> [s \in Scopes |-> "unknown"]]
    /\ stuck = {} /\ trusted = {}
    /\ chronicAt = [k \in Keys |-> 0] /\ hearsay = [m \in Models |-> 0]

Route(seat) == ResolveBackend(seat.named)

\* A seat called through review_claude_cli_with_images.
Pictorial(seat) == seat.images /\ Route(seat) = "claude"

ASSUME SeatsAssumption ==
    /\ "free" \notin Threads /\ Seats # {} /\ Keys # {}
    /\ Keys \subseteq Models \X AccessMethods
    /\ Models \cap Providers = {}
    /\ \A s \in Seats :
         /\ Route(s) = "claude" => <<s.model, "cli">> \in Keys /\ <<s.model, "api">> \in Keys
         /\ Route(s) = "opencode" => <<s.model, "opencode">> \in Keys
    /\ \A w \in Works : \A t \in Threads : w.calls[t] \in Seq(Seats)

Plain(seat) ==
    Adapter(Route(seat), ClaudeAccess(work.env.mode, work.env.cli # "none", work.env.key), seat.watch)

On(t, pc) == call[t].pc = pc /\ job[t].pc = "idle" /\ t \notin stuck
Gate(t, gate) == On(t, "gate") /\ call[t].gates # <<>> /\ Head(call[t].gates) = gate
Pass(c) == [c EXCEPT !.gates = Tail(@)]
KeyOf(t) == <<call[t].seat.model, Head(call[t].owed)>>

-----------------------------------------------------------------------------
(* The gates                                                                  *)

\* The call ends here; what it still owes the store is an image call's.
Refused(c, verdict) ==
    [c EXCEPT !.pc = "settle", !.verdict = verdict,
              !.owed = IF @ = <<>> THEN @ ELSE Tail(@)]

\* The gates that only look at the environment: a provider marked unpaid, a key, a CLI,
\* a mode the adapter supports.
LookAround(c) ==
    CASE c.pc = "gate" /\ c.gates # <<>> /\ Head(c.gates) = "unpaid" ->
            IF c.seat.unpaid THEN Refused(c, "keep") ELSE Pass(c)
      [] c.pc = "gate" /\ c.gates # <<>> /\ Head(c.gates) = "setup" ->
            IF c.seat.ready THEN Pass(c) ELSE Refused(c, "keep")
      [] OTHER -> c

\* A call goes on to the next gate that asks somebody, to its request, or to its end.
Onward(c) ==
    LET d == LookAround(LookAround(c))
    IN  CASE d.pc = "gate" /\ d.gates = <<>> -> [d EXCEPT !.pc = "called"]
          [] d.pc = "settle" /\ d.owed = <<>> -> AtRest(d.n)
          [] OTHER -> d
Set(t, c) == call' = [call EXCEPT ![t] = Onward(c)]

\* review_with_images, or the seat's adapter.
Start(t) ==
    /\ On(t, "idle") /\ call[t].n < Len(work.calls[t])
    /\ LET s == work.calls[t][call[t].n + 1]
           adapter == IF Pictorial(s) THEN ClaudeWithImages ELSE Plain(s)
       IN  Set(t, [AtRest(call[t].n + 1) EXCEPT
                     !.pc = "gate", !.seat = s, !.gates = adapter.gates, !.owed = adapter.kept])
    /\ UNCHANGED <<storeVars, work, denied, trusted, stuck, chronicAt, hearsay>>

\* Mutant: the cooldown of the model counts, whatever it was reached by.
MutCooling(t) == \E a \in AccessMethods : <<call[t].seat.model, a>> \in Keys
                                          /\ ActiveCooldown(<<call[t].seat.model, a>>)

Cooling(t) == ActiveCooldown(KeyOf(t))

\* ~/.claude.json is changed under a lock that is waited for; an entry of the user's own
\* is left alone.
EnsureWorkspaceTrusted(dir) == trusted' = trusted \cup {dir}
RemoveWorkspaceTrust(dir) == trusted' = trusted \ {dir}

\* The file is read without a lock, and a read that fails finds no cooldown. The CLI of
\* a seat that is not skipped is made to trust the repository. The answer of a seat that
\* is skipped says that it is not available, which is what an image call around it goes
\* by.
CheckCooldown(t) ==
    /\ Gate(t, "cooldown")
    /\ \/ /\ Cooling(t)
          /\ Set(t, Refused(call[t], "record")) /\ UNCHANGED trusted
       \/ /\ ~Cooling(t) \/ t \in Unlucky
          /\ Set(t, Pass(call[t]))
          /\ IF call[t].seat.ready /\ Head(call[t].owed) = "cli"
                /\ "setup" \in {call[t].gates[i] : i \in DOMAIN call[t].gates}
             THEN EnsureWorkspaceTrusted("repo") ELSE UNCHANGED trusted
    /\ UNCHANGED <<storeVars, work, denied, stuck, chronicAt, hearsay>>

TakesPictures == work.env.mode # "api" /\ work.env.cli = "claude"

\* An image call without the CLI that takes images is a plain call, gates and all. The
\* directory the images are staged in is trusted for the time of the call.
FallBack(t) ==
    /\ Gate(t, "pictures")
    /\ IF TakesPictures
       THEN Set(t, Pass(call[t])) /\ EnsureWorkspaceTrusted(t)
       ELSE LET plain == Plain(call[t].seat)
            IN  /\ Set(t, [call[t] EXCEPT !.gates = plain.gates, !.owed = plain.kept \o @])
                /\ UNCHANGED trusted
    /\ UNCHANGED <<storeVars, work, denied, stuck, chronicAt, hearsay>>

-----------------------------------------------------------------------------
(* The provider's account                                                     *)

Known(p, s) == IF denied[p][s.model] # "unknown" THEN denied[p][s.model] ELSE denied[p][s.provider]

CheckAccount(t) ==
    LET s == call[t].seat
        known == Known(Process(t), s)
    IN  /\ Gate(t, "preflight")
        /\ Set(t, IF s.provider \notin PreflightProviders \/ known = "no" THEN Pass(call[t])
                  ELSE IF known = "yes" THEN Refused(call[t], "keep")
                  ELSE [call[t] EXCEPT !.pc = "asking"])
        /\ UNCHANGED <<storeVars, work, denied, trusted, stuck, chronicAt, hearsay>>

Paid(p, s) ==
    denied' = [denied EXCEPT ![p][s.provider] = IF Known(p, s) = "yes" THEN @ ELSE "no"]

\* The answer of the provider, which took its time: paid, denied, or nothing.
AccountAnswers(t) ==
    LET c == call[t]
        p == Process(t)
        on == [Pass(c) EXCEPT !.pc = "gate"]
    IN  /\ On(t, "asking")
        /\ \/ Paid(p, c.seat)
              /\ Set(t, IF Known(p, c.seat) = "yes" THEN Refused(c, "keep") ELSE on)
           \/ denied' = [denied EXCEPT ![p][c.seat.provider] = "yes"] /\ Set(t, Refused(c, "keep"))
           \/ Set(t, on) /\ UNCHANGED denied
        /\ UNCHANGED <<storeVars, work, trusted, stuck, chronicAt, hearsay>>

-----------------------------------------------------------------------------
(* The call                                                                   *)

Results(c) ==
    IF Pictorial(c.seat) /\ Len(c.owed) = 1 THEN ClaudeWithImages.results ELSE Plain(c.seat).results

\* What the request itself is told about the account is kept too, for the provider or
\* for the one model.
LearnDenial(t, o) ==
    LET s == call[t].seat
    IN  IF Route(s) = "commandcode" /\ s.provider \in PreflightProviders /\ IsPaymentDenial(o)
        THEN \E scope \in (IF o.rc = "payment" THEN {s.provider} ELSE {s.provider, s.model}) :
                denied' = [denied EXCEPT ![Process(t)][scope] = "yes"]
        ELSE UNCHANGED denied

\* A seat that stalled is called again, a number of times.
Answer(t) ==
    LET c == call[t]
    IN  /\ On(t, "called")
        /\ \E o \in Results(c) :
             IF o.hang = "stall" /\ c.tries + 1 < MaxStalls
             THEN Set(t, [c EXCEPT !.tries = @ + 1]) /\ UNCHANGED denied
             ELSE /\ Set(t, [c EXCEPT !.pc = "settle", !.verdict = Verdict(Route(c.seat), o)])
                  /\ LearnDenial(t, o)
        /\ RemoveWorkspaceTrust(t)
        /\ UNCHANGED <<storeVars, work, stuck, chronicAt, hearsay>>

\* The store is told: the adapter's own key first, then the image call's.
Settle(t) ==
    LET c == call[t]
        k == KeyOf(t)
        own == Len(c.owed) = 2 \/ ~Pictorial(c.seat) \/ TakesPictures
    IN  /\ On(t, "settle") /\ c.owed # <<>>
        /\ Set(t, [c EXCEPT !.owed = Tail(@)])
        /\ IF c.verdict = "record"
           THEN /\ StartRecord(t, k)
                /\ chronicAt' = IF own THEN [chronicAt EXCEPT ![k] = now] ELSE chronicAt
                /\ hearsay' = IF own THEN hearsay ELSE [hearsay EXCEPT ![k[1]] = now]
           ELSE /\ IF c.verdict = "clear" THEN StartClear(t, k) ELSE UNCHANGED job
                /\ UNCHANGED <<chronicAt, hearsay>>
        /\ UNCHANGED <<now, override, file, mutex, flock, weak, ledger, work, denied, trusted, stuck>>

-----------------------------------------------------------------------------
(* What goes wrong                                                            *)

\* A thread hangs in the middle of a change, as on a file system that does not answer.
Hang(t) ==
    /\ stuck = {} /\ job[t].pc \in {"load", "write"}
    /\ stuck' = {t}
    /\ UNCHANGED <<storeVars, work, call, denied, trusted, chronicAt, hearsay>>

\* A process is killed; its locks go with it.
Killed(p) == \E t \in Threads : Process(t) = p /\ call[t].pc = "dead"
Kill(p) ==
    LET its == {t \in Threads : Process(t) = p}
    IN  /\ ~\E q \in Processes : Killed(q)
        /\ ReleaseBy(its)
        /\ job' = [t \in Threads |-> IF t \in its THEN Idle ELSE job[t]]
        /\ call' = [t \in Threads |-> IF t \in its THEN [AtRest(0) EXCEPT !.pc = "dead"] ELSE call[t]]
        /\ stuck' = stuck \ its
        /\ UNCHANGED <<now, override, file, weak, ledger, work, denied, trusted, chronicAt, hearsay>>

Store(t) == t \notin stuck /\ StoreStep(t) /\ UNCHANGED callVars
Time == Tick /\ UNCHANGED callVars

ThreadStep(t) ==
    \/ CheckCooldown(t) \/ FallBack(t) \/ CheckAccount(t) \/ AccountAnswers(t)
    \/ Answer(t) \/ Settle(t) \/ Store(t)

Next ==
    \/ Time
    \/ \E t \in Threads : Start(t) \/ ThreadStep(t) \/ Hang(t)
    \/ \E p \in Processes : Kill(p)

\* A thread in a call goes on: every wait of it ends, by an answer or a timeout.
Spec == Init /\ [][Next]_vars /\ \A t \in Threads : WF_vars(ThreadStep(t))

-----------------------------------------------------------------------------
(* Properties                                                                 *)

TypeOK ==
    /\ file \in [Keys -> [until : Nat, at : Nat, count : 0..Len(Schedule)]]
    /\ denied \in [Processes -> [Scopes -> {"unknown", "no", "yes"}]]
    /\ \A t \in Threads : call[t].pc \in {"idle", "gate", "asking", "called", "settle", "dead"}

Recent(at) == at # 0 /\ \E n \in Lengths : now < at + n

\* As long as every thread got its locks and read what the file holds, the file is what
\* the changes that were written make one after the other, whichever process made them; and what a process was told about an account
\* that does not pay stands, whatever an older question is answered later
\* (seat_cooldown.py's _locked and backends.py's re-check under the cache's lock).
NothingLearntIsLost ==
    /\ [](~weak => file = ledger)
    /\ [][\A p \in Processes, s \in Scopes :
            denied[p][s] = "yes" => denied'[p][s] = "yes"]_vars

\* A seat is skipped only on the word of a chronic result of the same model by the same
\* transport, no longer ago than the longest cooldown -- or of an image call, which
\* speaks for the CLI even when it went elsewhere (backends.py's review_with_images).
SkipIsEarned ==
    [][\A t \in Threads :
         (Gate(t, "cooldown") /\ call'[t].pc \in {"settle", "idle"} /\ call[t].seat.ready) =>
            LET k == KeyOf(t)
            IN  Recent(chronicAt[k]) \/ (k[2] = "cli" /\ Recent(hearsay[k[1]]))]_vars

\* A call ends, though a thread of the same process or another process hangs with the
\* locks of the store in its hands or is killed; and a directory that was trusted for the
\* call is not trusted after it, unless the process was killed.
Calling(t) == t \notin stuck /\ call[t].pc # "dead" /\ ~On(t, "idle")
EveryCallEnds == <>[](\A t \in Threads : ~Calling(t) /\ (t \in trusted => call[t].pc = "dead"))
=============================================================================
