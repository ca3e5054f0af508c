------------------------------- MODULE QaBot --------------------------------
(* The hermetic bot tier (qa/bot_driver.py, qa/bot_harness.py): a fake Telegram *)
(* that queues updates and captures what the bot sends, a bot that long-polls  *)
(* it, and a driver that injects one update per case; and its agent side, where*)
(* an ask client posts a card, the driver taps it and the client answers.      *)
EXTENDS QaCases

CONSTANTS
    MaxSends,      \* messages the bot sends in a run (bound)
    MaxAnswers     \* replies the bot owes to one update (bound)

VARIABLES
    skipProbe,  \* sut.bot.skip_probe
    updates,    \* ids of the updates injected so far
    delivered,  \* FakeTelegram._delivered_offset
    handled,    \* ids the bot has been given
    owed,       \* replies and cards under way: [of, n]
    outbound,   \* what the fake has captured, in order: [of, during, text]
    since,      \* how much of outbound was there when the case was injected
    alive,      \* the bot or daemon runs
    asks,       \* the ask client of each case
    tapped      \* the cards tapped: [by, of, during], the case and its card's

botVars == <<skipProbe, updates, delivered, handled, owed, outbound, since, alive, asks,
             tapped>>

ProbeId == 1
UpdateId(case) == ProbeId + case
TapId(case) == UpdateId(case)

MaxId(s) == IF s = {} THEN 0 ELSE CHOOSE m \in s : \A x \in s : x <= m

Agent == tier = "agent"
InBot == tier \in {"bot", "agent"}
This == suite[k]

\* What the fake has captured since the case was injected.
OutboundSince == {outbound[i] : i \in (since + 1)..Len(outbound)}

BotInit ==
    /\ skipProbe \in BOOLEAN
    /\ updates = {} /\ delivered = 0 /\ handled = {} /\ owed = {}
    /\ outbound = <<>> /\ since = 0 /\ alive = TRUE
    /\ asks = [i \in 1..Len(suite) |-> "none"] /\ tapped = {}

BotTypeOK ==
    /\ updates \subseteq Nat /\ handled \subseteq updates /\ delivered \in Nat
    /\ \A o \in owed : o.n \in 1..MaxAnswers
    /\ Len(outbound) <= MaxSends /\ since <= Len(outbound)
    /\ alive \in BOOLEAN /\ skipProbe \in BOOLEAN
    /\ \A i \in DOMAIN asks : asks[i] \in {"none", "running", "answered", "reaped"}

-----------------------------------------------------------------------------
(* The bot: outside of this code, driven through getUpdates and sendMessage    *)

\* Up to MaxAnswers messages come of an update.
Replies(of) == {{[of |-> of, n |-> i] : i \in 1..m} : m \in 0..MaxAnswers}

\* Mutant: an update counts as confirmed once it has been sent.
MutDrainUpdates(offset) ==
    LET from == IF offset > delivered THEN offset ELSE delivered IN
    /\ delivered' = MaxId({from - 1} \cup updates) + 1
    /\ {u \in updates : u >= from} # {}

\* _drain_updates: the offset of a getUpdates confirms what lies below it.
DrainUpdates(offset) ==
    /\ delivered' = IF offset > delivered THEN offset ELSE delivered
    /\ {u \in updates : u >= delivered'} # {}

\* A bot handles updates in order and confirms what it has handled. An answer that
\* comes after the bot gave the request up reaches nobody.
BotPolls(heard) ==
    /\ InBot /\ alive /\ place # "done"
    /\ DrainUpdates(MaxId(handled) + 1)
    /\ LET batch == {u \in updates : u >= delivered' /\ u \notin handled} IN
       IF heard /\ batch # {}
       THEN LET next == CHOOSE u \in batch : \A x \in batch : u <= x IN
            /\ handled' = handled \cup {next}
            /\ IF Agent THEN owed' = owed
               ELSE \E r \in Replies(next - ProbeId) : owed' = owed \cup r
       ELSE UNCHANGED <<handled, owed>>
    /\ UNCHANGED <<suiteVars, skipProbe, updates, outbound, since, alive, asks, tapped>>

\* A message reaches the fake, whenever it does (_capture).
BotSends ==
    /\ InBot /\ place # "done" /\ Len(outbound) < MaxSends
    /\ \E o \in owed, t \in IF Agent THEN {"other"} ELSE Texts :
         /\ owed' = owed \ {o}
         /\ outbound' = Append(outbound, [of |-> o.of, during |-> k, text |-> t])
    /\ UNCHANGED <<suiteVars, skipProbe, updates, delivered, handled, since, alive, asks, tapped>>

BotDies ==
    /\ InBot /\ alive /\ place # "done"
    /\ alive' = FALSE
    /\ owed' = {}
    /\ UNCHANGED <<suiteVars, skipProbe, updates, delivered, handled, outbound, since, asks, tapped>>

\* The ask client prints its answer: once a tap on a card of its was handled, or at
\* once when it replays the answer to a question it has asked before.
AskAnswers(case) ==
    /\ Agent /\ case \in DOMAIN asks /\ asks[case] = "running"
    /\ \/ \E t \in tapped : t.of = case /\ TapId(t.by) \in handled
       \/ suite[case].cards = 0
    /\ asks' = [asks EXCEPT ![case] = "answered"]
    /\ UNCHANGED <<suiteVars, skipProbe, updates, delivered, handled, owed, outbound, since,
                   alive, tapped>>

-----------------------------------------------------------------------------
(* The driver                                                                 *)

Inject(id) == updates' = updates \cup {id}
botOutside == <<delivered, handled, owed, outbound, alive>>

\* A bot that has exited before it could be driven is a blocked run.
CrashCheck ==
    /\ InBot /\ place = "start"
    /\ IF ~alive THEN Blocked
       ELSE IF Agent \/ skipProbe THEN NextCase(<<>>) ELSE Goto("probe")
    /\ UNCHANGED botVars

Probe ==
    /\ InBot /\ place = "probe"
    /\ since' = Len(outbound) /\ Inject(ProbeId)
    /\ Goto("probing")
    /\ UNCHANGED <<skipProbe, botOutside, asks, tapped>>

\* Reachable means that anything at all was captured within the window.
ProbeEnds ==
    /\ InBot /\ place = "probing"
    /\ IF OutboundSince # {} THEN NextCase(<<>>) ELSE Blocked
    /\ UNCHANGED botVars

ProseCase ==
    /\ InBot /\ place = "case" /\ This.kind = "prose"
    /\ Judged("BLOCKED", {})
    /\ UNCHANGED botVars

\* Mutant: the outbound of earlier cases is not left out.
MutInjectCase ==
    /\ tier = "bot" /\ place = "case" /\ This.kind # "prose"
    /\ Inject(UpdateId(k))
    /\ Goto("wait")
    /\ UNCHANGED <<skipProbe, botOutside, since, asks, tapped>>

InjectCase ==
    /\ tier = "bot" /\ place = "case" /\ This.kind # "prose"
    /\ since' = Len(outbound) /\ Inject(UpdateId(k))
    /\ Goto("wait")
    /\ UNCHANGED <<skipProbe, botOutside, asks, tapped>>

\* The wait ends when the predicate holds, or with its window; both read what has
\* been captured by then.
JudgeCase ==
    /\ tier = "bot" /\ place = "wait"
    /\ Judged(Classify(This, TextsOf(OutboundSince)), OutboundSince)
    /\ UNCHANGED botVars

\* The agent side: the card count so far, then the ask client, if it can be started.
EmitQuestion(ok) ==
    /\ Agent /\ place = "case" /\ This.kind # "prose"
    /\ since' = Len(outbound)
    /\ IF ok THEN asks' = [asks EXCEPT ![k] = "running"] /\ Goto("emit")
       ELSE Judged("BLOCKED", {}) /\ UNCHANGED asks
    /\ UNCHANGED <<skipProbe, updates, botOutside, tapped>>

\* The write of the payload returns: when the client reads it, or is gone. The client,
\* or the daemon for it, posts any number of cards, also after the client is gone.
PayloadWritten ==
    /\ Agent /\ place = "emit"
    /\ \E r \in Replies(k) : owed' = owed \cup r
    /\ Goto("cards")
    /\ UNCHANGED <<skipProbe, updates, delivered, handled, outbound, since, alive, asks, tapped>>

\* AskHandle.reap: a client that still runs is killed.
ReapAsk(case) ==
    [asks EXCEPT ![case] = IF asks[case] = "running" THEN "reaped" ELSE asks[case]]

\* After the settle the count is exact or the case fails.
ObserveCards ==
    /\ Agent /\ place = "cards"
    /\ IF Len(outbound) - since # This.cards
       THEN asks' = ReapAsk(k) /\ Judged("FAIL", OutboundSince)
       ELSE asks' = asks /\ Goto("tap")
    /\ UNCHANGED <<skipProbe, updates, delivered, handled, owed, outbound, since, alive, tapped>>

\* _expects_answer: of a tap, a replay or an Expect-answer:.
ExpectsAnswer(case) == case.tap \/ case.cards = 0 \/ case.kind = "reply"

\* The newest card of all is tapped; no card, or no such button, fails the case.
DoTap(button) ==
    /\ Agent /\ place = "tap"
    /\ IF ~This.tap
       THEN IF ExpectsAnswer(This) THEN Goto("answer") /\ UNCHANGED <<asks, updates, tapped>>
            ELSE asks' = ReapAsk(k) /\ Judged("PASS", OutboundSince)
                 /\ UNCHANGED <<updates, tapped>>
       ELSE IF outbound = <<>> \/ ~button
       THEN asks' = ReapAsk(k) /\ Judged("FAIL", OutboundSince) /\ UNCHANGED <<updates, tapped>>
       ELSE /\ Inject(TapId(k)) /\ Goto("answer") /\ asks' = asks
            /\ LET card == outbound[Len(outbound)] IN
               tapped' = tapped \cup {[by |-> k, of |-> card.of, during |-> card.during]}
    /\ UNCHANGED <<skipProbe, botOutside, since>>

\* Mutant: a client that never answers is waited for without a timeout.
MutAwaitAnswer(good) ==
    /\ Agent /\ place = "answer"
    /\ asks[k] = "answered"
    /\ asks' = ReapAsk(k)
    /\ Judged(IF good THEN "PASS" ELSE "FAIL", OutboundSince)
    /\ UNCHANGED <<skipProbe, botOutside, updates, since, tapped>>

\* await_answer: the client has exited, or is killed at its timeout. Any answer will
\* do for a case that asks for none in particular.
AwaitAnswer(good) ==
    /\ Agent /\ place = "answer"
    /\ good => asks[k] = "answered"
    /\ asks[k] = "answered" /\ This.kind = "silent" => good
    /\ asks' = ReapAsk(k)
    /\ Judged(IF good THEN "PASS" ELSE "FAIL", OutboundSince)
    /\ UNCHANGED <<skipProbe, botOutside, updates, since, tapped>>

\* The `finally`: the clients, the bot and the fake end.
CloseBot ==
    /\ InBot /\ place = "close"
    /\ alive' = FALSE /\ owed' = {}
    /\ asks' = [i \in DOMAIN asks |-> IF asks[i] = "running" THEN "reaped" ELSE asks[i]]
    /\ Goto("done")
    /\ UNCHANGED <<skipProbe, updates, delivered, handled, outbound, since, tapped>>

BotDriver ==
    \/ CrashCheck \/ Probe \/ ProbeEnds \/ ProseCase \/ InjectCase \/ JudgeCase
    \/ PayloadWritten \/ ObserveCards \/ CloseBot
    \/ \E ok \in BOOLEAN : EmitQuestion(ok) \/ DoTap(ok) \/ AwaitAnswer(ok)

BotOutside ==
    \/ BotSends \/ BotDies
    \/ \E heard \in BOOLEAN : BotPolls(heard)
    \/ \E case \in 1..Len(suite) : AskAnswers(case)
=============================================================================
