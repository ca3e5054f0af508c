------------------------------ MODULE QaDrivers -----------------------------
(* The drivers of `review qa`, one of which drives a suite: what its results   *)
(* rest on, what gets lost on the way, and that it comes to an end.            *)
EXTENDS QaBot, QaLive, QaPages

driverVars == <<suiteVars, botVars, liveVars, pageVars>>

DriversInit == SuiteInit /\ BotInit /\ LiveInit /\ PageInit

DriverStep ==
    \/ BotDriver /\ UNCHANGED <<liveVars, pageVars>>
    \/ LiveDriver /\ UNCHANGED <<botVars, pageVars>>
    \/ PageDriver /\ UNCHANGED <<botVars, liveVars>>

Outside ==
    \/ BotOutside /\ UNCHANGED <<liveVars, pageVars>>
    \/ BotMessage /\ UNCHANGED <<botVars, pageVars>>
    \/ PageOutside /\ UNCHANGED <<botVars, liveVars>>

DriversNext == DriverStep \/ Outside

\* Four calls have no timeout: the write of a payload to an ask client that may not
\* read its stdin (bot_harness.py:987-996), the write of a request to a runner
\* (ext_harness.py:267), the disconnect of the live client (live_tier.py:498) and the
\* close of the browser (web_harness.py:266-275).
Unbounded ==
    \/ place \in {"emit", "write", "disconnect"}
    \/ Web /\ place = "close"

\* Every other wait of a driver has a deadline. Nothing is asked of a bot, a client or
\* a runner, nor of the calls without a timeout.
DriversSpec ==
    DriversInit /\ [][DriversNext]_driverVars /\ WF_driverVars(~Unbounded /\ DriverStep)

DriversTypeOK == SuitesTypeOK /\ BotTypeOK /\ LiveTypeOK /\ PageTypeOK

-----------------------------------------------------------------------------
\* A case is judged on what came in its own time: no reply, card or message that was
\* there before it began, and no reply to another request, however late the bot or
\* the runner is. The card it taps came in its own time, when it expects one, and is a
\* card of its own ask; or one of an earlier ask that came late, which nobody waits
\* for any more: the driver takes the newest card for the one this emit produced
\* (bot_driver.py:863). No tap goes to an ask that is still open elsewhere.
EvidenceIsTheCases ==
    /\ \A r \in 1..Len(results) : \A e \in results[r].read :
         IF Ext THEN e.of = e.during ELSE e.during = r
    /\ \A t \in tapped :
         /\ suite[t.by].cards > 0 => t.during = t.by
         /\ t.of # t.by => t.of < t.by /\ asks[t.of] # "running"

\* An injected update stays with the fake until the bot has confirmed it.
UpdateIsNotLost == \A u \in updates : u \in handled \/ u >= delivered

\* Of the messages sent to the live chat only those whose send did not return are
\* still there once the clean-up got through.
SentIsDeleted ==
    Live /\ place = "done" /\ deleted
      => \A i \in 1..Newest : chat[i].own /\ ~chat[i].gone => i \in unsure

\* A reply that the runner wrote before it exited is read, not reported as an exit.
AnsweredBeforeExit == Ext /\ place = "reply" /\ Exited => request \notin wrote

\* A poll whose answer nobody reads cannot swallow an update, no message of ours is
\* forgotten in the live chat, and a reply is not lost to the exit that follows it.
NothingIsLost == UpdateIsNotLost /\ SentIsDeleted /\ AnsweredBeforeExit

\* Whatever the bot, the chat, the browser or the runner does, the suite ends, or hangs
\* for ever in one of the four calls without a timeout.
SuiteEnds == <>(place = "done") \/ <>[]Unbounded
=============================================================================
