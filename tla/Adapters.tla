------------------------------ MODULE Adapters ------------------------------
(* The adapters of the backends (backends.py), without their argument lists    *)
(* and payloads: what a seat has to pass before it is called, which results    *)
(* its transport can return, and how a result is read -- transient, fatal for  *)
(* the seat, or chronic, which is what a cooldown is for.                      *)
EXTENDS Integers, Sequences

Routes == {"codex", "gemini", "zai", "commandcode", "openrouter", "omp", "claude", "opencode"}

\* resolve_backend: whatever no adapter claims goes to opencode.
ResolveBackend(named) == IF named \in Routes THEN named ELSE "opencode"

\* The transport of a claude seat: the API when it is asked for, or when there is a
\* key and no CLI.
ClaudeAccess(mode, haveCli, haveKey) ==
    IF mode = "api" \/ (mode # "cli" /\ ~haveCli /\ haveKey) THEN "api" ELSE "cli"

\* The store of cooldowns is kept by model and transport, and only for these.
AccessMethods == {"cli", "api", "opencode"}

\* Providers asked beforehand whether the account may be used.
PreflightProviders == {"commandcode", "fireworks"}

\* A result: exit code or HTTP status by its class, what the body is, what the error
\* output speaks of, and whether the call was ended for its silence.
Result ==
    [rc: {"ok", "timeout", "fatal", "busy", "payment", "error"},
     body: {"none", "answer", "notice", "quota"},
     err: SUBSET {"quota", "notice", "fatal", "transient", "payment"},
     hang: {"none", "stall", "silence"}]

Res(rc, body, err) == [rc |-> rc, body |-> body, err |-> err, hang |-> "none"]
Hung(how) == [Res("timeout", "none", {}) EXCEPT !.hang = how]

\* What goes wrong with any request over HTTP: a timeout has the code of one, a status
\* is the code, anything else -- no answer, no JSON, no text -- is an error.
HttpFailures ==
    {Res("error", "none", {}), Res("timeout", "none", {"transient"}),
     Res("error", "none", {"transient"}), Res("fatal", "none", {"fatal"}),
     Res("busy", "none", {"transient"}), Res("busy", "none", {"quota"})}
Answers == {Res("ok", "answer", {}), Res("ok", "notice", {})}

\* The chat completions of keyed providers also speak of payment.
OpenaiResults ==
    Answers \cup HttpFailures \cup
    {Res("payment", "none", {"payment"}), Res("fatal", "none", {"payment"})}

\* A CLI may exit with 0 and nothing, or with a notice, or end at its timeout in the
\* middle of what it had to say.
CliResults ==
    {Res("ok", "answer", {}), Res("ok", "none", {}), Res("ok", "notice", {}),
     Res("ok", "notice", {"fatal"}), Res("ok", "notice", {"transient"}),
     Res("error", "none", {"quota"}), Res("error", "quota", {}),
     Res("error", "notice", {}), Res("error", "notice", {"fatal"}),
     Res("error", "none", {"transient"}), Res("timeout", "quota", {})}

-----------------------------------------------------------------------------
(* The adapters: what stands before the call, in this order, what it can come  *)
(* to, and the key of the store its results are kept under                     *)

Codex == [gates |-> <<"unpaid", "setup">>, results |-> CliResults, kept |-> <<>>]
Gemini == [gates |-> <<"unpaid", "setup">>, results |-> Answers \cup HttpFailures, kept |-> <<>>]
Zai == [gates |-> <<"unpaid", "setup">>, results |-> OpenaiResults, kept |-> <<>>]
Commandcode ==
    [gates |-> <<"unpaid", "setup", "preflight">>, results |-> OpenaiResults, kept |-> <<>>]
Openrouter == [gates |-> <<"unpaid", "setup">>, results |-> OpenaiResults, kept |-> <<>>]
Omp == [gates |-> <<"unpaid", "setup">>, results |-> CliResults, kept |-> <<>>]

ClaudeApi == Answers \cup HttpFailures
Claude(access) ==
    [gates |-> <<"unpaid", "cooldown", "setup">>,
     results |-> IF access = "api" THEN ClaudeApi ELSE CliResults, kept |-> <<access>>]

\* A claude seat with images: its own gates, and then the CLI -- or a plain call.
ClaudeWithImages ==
    [gates |-> <<"unpaid", "cooldown", "pictures">>, results |-> CliResults, kept |-> <<"cli">>]

\* The call of a watched model may end for its silence: from the start, or at all.
WatchedResults(watch) ==
    CliResults \cup (IF watch = "none" THEN {} ELSE {Hung(watch)})
Opencode(watch) ==
    [gates |-> <<"unpaid", "cooldown", "setup", "preflight">>,
     results |-> WatchedResults(watch), kept |-> <<"opencode">>]

Adapter(route, access, watch) ==
    CASE route = "codex" -> Codex
      [] route = "gemini" -> Gemini
      [] route = "zai" -> Zai
      [] route = "commandcode" -> Commandcode
      [] route = "openrouter" -> Openrouter
      [] route = "omp" -> Omp
      [] route = "claude" -> Claude(access)
      [] OTHER -> Opencode(watch)

-----------------------------------------------------------------------------
(* What a result means                                                        *)

IsSeatFatal(channel, rc) == rc = "fatal" \/ "fatal" \in channel

LooksTransient(channel, rc) ==
    \/ rc = "timeout"
    \/ ~IsSeatFatal(channel, rc) /\ (rc = "busy" \/ "transient" \in channel)

\* _chronic_unavailable_reason: the account is out of quota, or says it is not
\* available -- and neither a blip nor bad credentials say so.
Chronic(o) ==
    LET channel == o.err \cup {o.body}
        excused == LooksTransient(channel, o.rc) \/ IsSeatFatal(channel, o.rc)
    IN  CASE o.rc = "ok" ->
               o.body = "notice" /\ ~LooksTransient(o.err, o.rc) /\ ~IsSeatFatal(o.err, o.rc)
          [] o.rc = "timeout" -> FALSE
          [] OTHER -> "quota" \in channel \/ (~excused /\ "notice" \in channel)

Usable(o) == o.rc = "ok" /\ o.body = "answer"

\* What a result means for the seat's cooldown: opencode also cools down a seat that
\* was silent too long, and takes any output with exit code 0 for a recovery.
Verdict(route, o) ==
    IF route = "opencode"
    THEN IF o.hang # "none" \/ Chronic(o) THEN "record"
         ELSE IF o.rc = "ok" /\ o.body # "none" THEN "clear" ELSE "keep"
    ELSE IF Chronic(o) THEN "record" ELSE IF Usable(o) THEN "clear" ELSE "keep"

\* A denial for the whole account holds for every model of the provider.
IsPaymentDenial(o) ==
    o.rc = "payment" \/ (o.rc = "fatal" /\ "payment" \in o.err)
=============================================================================
