------------------------------- MODULE QaLive -------------------------------
(* The live bot tier (qa/live_tier.py LiveBotDriver, qa/live_bot_runner.py): a *)
(* chat both sides write to, a high-water mark that tells what is new in it,   *)
(* and the messages of ours to delete at the end.                              *)
EXTENDS QaCases

CONSTANTS
    MaxMessages,   \* messages in the chat beyond which the bot is silent (bound)
    FetchLimit     \* messages one get_messages returns at most: the newest

VARIABLES
    connected,  \* the session is open
    chat,       \* the messages by id: [own, of, during, text, gone]
    due,        \* messages the bot has yet to send: [of, n]
    lastSeen,   \* LiveBotDriver._last_seen_id
    sentIds,    \* LiveBotDriver._sent_ids
    read,       \* what this case has read so far
    unsure,     \* history: ids of our messages whose send did not return
    deleted     \* whether the clean-up of the end got through

liveVars == <<connected, chat, due, lastSeen, sentIds, read, unsure, deleted>>

Live == tier = "live"
ThisCase == suite[k]
Newest == Len(chat)

Message(own, of, text) ==
    [own |-> own, of |-> of, during |-> k, text |-> text, gone |-> FALSE]

LiveInit ==
    /\ connected = FALSE /\ due = {} /\ lastSeen = 0 /\ sentIds = {} /\ read = {}
    /\ unsure = {} /\ deleted = FALSE
    /\ chat \in {<<>>, <<[own |-> FALSE, of |-> 0, during |-> 0, text |-> "want", gone |-> FALSE]>>}

LiveTypeOK ==
    /\ connected \in BOOLEAN /\ deleted \in BOOLEAN
    /\ lastSeen \in 0..Newest
    /\ sentIds \subseteq 1..Newest /\ unsure \subseteq 1..Newest
    /\ read \subseteq Evidence

-----------------------------------------------------------------------------
\* connect: an unauthorized session, a missing client or a timeout blocks the run,
\* and disconnects by itself before the runner's `finally` does so again.
Connect(ok) ==
    /\ Live /\ place = "start"
    /\ connected' = ok
    /\ IF ok THEN lastSeen' = Newest /\ NextCase(<<>>)
       ELSE lastSeen' = lastSeen /\ Blocked
    /\ UNCHANGED <<chat, due, sentIds, read, unsure, deleted>>

LiveProseCase ==
    /\ Live /\ place = "case" /\ ThisCase.kind = "prose"
    /\ Judged("BLOCKED", {})
    /\ UNCHANGED liveVars

\* send: the mark is moved to the newest message first.
Rebase ==
    /\ Live /\ place = "case" /\ ThisCase.kind # "prose"
    /\ lastSeen' = Newest /\ read' = {}
    /\ Goto("send")
    /\ UNCHANGED <<connected, chat, due, sentIds, unsure, deleted>>

\* The bot owes up to two answers to a message it receives, one to a tap.
Owes(most) == \E n \in 0..most : due' = due \cup {[of |-> k, n |-> i] : i \in 1..n}

\* The message is delivered or not, and the call returns or times out; a timeout
\* blocks this case and leaves the others to run.
Send(landed, returns) ==
    /\ Live /\ place = "send"
    /\ returns => landed
    /\ IF landed THEN chat' = Append(chat, Message(TRUE, k, "other")) /\ Owes(2)
       ELSE UNCHANGED <<chat, due>>
    /\ IF returns
       THEN sentIds' = sentIds \cup {Newest + 1} /\ unsure' = unsure /\ Goto("expect")
       ELSE /\ sentIds' = sentIds /\ Judged("BLOCKED", {})
            /\ unsure' = IF landed THEN unsure \cup {Newest + 1} ELSE unsure
    /\ UNCHANGED <<connected, lastSeen, read, deleted>>

BotMessage ==
    /\ Live /\ place # "done" /\ Newest < MaxMessages
    /\ \E d \in due, t \in Texts :
         /\ due' = due \ {d}
         /\ chat' = Append(chat, Message(FALSE, d.of, t))
    /\ UNCHANGED <<suiteVars, connected, lastSeen, sentIds, read, unsure, deleted>>

\* What one fetch returns of the bot's messages: the newest, above the mark.
Fetched ==
    {i \in (lastSeen + 1)..Newest : i + FetchLimit > Newest /\ ~chat[i].own}

EvidenceOf(i) == [of |-> chat[i].of, during |-> chat[i].during, text |-> chat[i].text]

\* expect: the first reply of what was fetched; the mark moves to it and no further.
\* With nothing to return the window elapses; a stalled fetch blocks the case.
ExpectReply ==
    /\ Live /\ place \in {"expect", "expect-after-tap"}
    /\ Fetched # {}
    /\ LET first == CHOOSE i \in Fetched : \A j \in Fetched : i <= j IN
       /\ lastSeen' = first
       /\ read' = read \cup {EvidenceOf(first)}
       /\ IF ThisCase.kind = "silent" \/ ~ThisCase.tap \/ place = "expect-after-tap"
          THEN Judged(Classify(ThisCase, TextsOf(read')), read')
          ELSE Goto("tap")
    /\ UNCHANGED <<connected, chat, due, sentIds, unsure, deleted>>

\* A case that is to tap fails without a reply to tap on.
ExpectNothing ==
    /\ Live /\ place \in {"expect", "expect-after-tap"}
    /\ Judged(IF ThisCase.tap /\ ThisCase.kind = "reply" /\ place = "expect"
              THEN "FAIL" ELSE Classify(ThisCase, TextsOf(read)), read)
    /\ UNCHANGED liveVars

\* A tap may carry an answer of its own; the next message is read after it.
Tap(answer) ==
    /\ Live /\ place = "tap"
    /\ Owes(1)
    /\ read' = read \cup answer
    /\ Goto("expect-after-tap")
    /\ UNCHANGED <<connected, chat, lastSeen, sentIds, unsure, deleted>>

OperationFails ==
    /\ Live /\ place \in {"case", "expect", "expect-after-tap", "tap"}
    /\ ThisCase.kind # "prose"
    /\ Judged("BLOCKED", {})
    /\ UNCHANGED liveVars

\* _cleanup_sent: best effort, within its timeout, to delete what was sent.
CleanupSent(ok) ==
    /\ Live /\ place = "close"
    /\ deleted' = (ok /\ connected)
    /\ chat' = [i \in 1..Newest |-> [chat[i] EXCEPT !.gone = deleted' /\ i \in sentIds]]
    /\ Goto("disconnect")
    /\ UNCHANGED <<connected, due, lastSeen, sentIds, read, unsure>>

\* disconnect: the session is closed, however long the client takes to say so.
Disconnect ==
    /\ Live /\ place = "disconnect"
    /\ connected' = FALSE /\ sentIds' = {}
    /\ Goto("done")
    /\ UNCHANGED <<chat, due, lastSeen, read, unsure, deleted>>

LiveDriver ==
    \/ LiveProseCase \/ Rebase \/ ExpectReply \/ ExpectNothing \/ OperationFails
    \/ Disconnect
    \/ \E a, b \in BOOLEAN : Connect(a) \/ Send(a, b) \/ CleanupSent(a)
    \/ \E t \in SUBSET {[of |-> k, during |-> k, text |-> x] : x \in {"want", "ban"}} :
         Cardinality(t) <= 1 /\ Tap(t)
=============================================================================
