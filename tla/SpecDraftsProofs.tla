--------------------------- MODULE SpecDraftsProofs ---------------------------
EXTENDS SpecDrafts, TLAPS

Kinds == {"save", "clear", "create", "change", "created", "changed", "delete", "load"}
Posts == {"create", "change", "created", "changed"}
Writes == {"save", "clear"}

Composer ==
    [seq: Nat, slot: Slots \cup {None}, open: Slots \cup {None}, box: Contents,
     timer: [slot: Slots \cup {None}, body: Contents], ctl: Nat, mirror: Contents, sess: Nat]
Message ==
    [kind: Kinds, tab: Tabs, sess: Nat, no: Nat, slot: Slots \cup {None}, body: Contents,
     retry: BOOLEAN, cut: BOOLEAN, late: BOOLEAN]
Reply ==
    [kind: Kinds, tab: Tabs, sess: Nat, no: Nat, slot: Slots \cup {None}, body: Contents,
     retry: BOOLEAN, ok: BOOLEAN, stale: BOOLEAN, seed: Nat, sent: Contents]

(* The types, and that what is not aborted is of the page that is loaded,   *)
(* and nothing of one still to be.                                          *)
DraftTypes ==
    /\ draft \in [Slots -> Contents] /\ tomb \in [Slots -> Nat] /\ note \in {"there", "gone"}
    /\ acts \in Nat
    /\ ui \in [Tabs -> Composer]
    /\ \A t \in Tabs : ui[t].timer # NoTimer => ui[t].timer.slot \in Slots
    /\ wire \subseteq Message /\ \A m \in wire : m.kind # "load" => m.slot \in Slots
    /\ replies \subseteq Reply /\ \A r \in replies : r.kind # "load" \/ r.ok => r.slot \in Slots
    /\ \A m \in wire : m.sess <= ui[m.tab].sess /\ (m.cut \/ m.sess = ui[m.tab].sess)
    /\ \A r \in replies : r.sess = ui[r.tab].sess
    /\ want \in [Tabs -> [slot: Slots \cup {None}, body: Contents]]

(* A late autosave carries a token that its slot has seen.                 *)
LateInv ==
    /\ \A m \in wire : m.late => m.kind = "save" /\ m.no <= tomb[m.slot]
    /\ ~risen

(* A page has at most one autosave in flight, the one its ctl names; a     *)
(* request it has given up is an autosave; and it counts its tokens.       *)
Flying(t, m) == Owned(t, m) /\ m.kind = "save" /\ ~m.cut
Landed(t, r) == Owned(t, r) /\ r.kind = "save"

FlightOf(t) ==
    /\ ui[t].timer # NoTimer => ui[t].ctl = 0
    /\ \A m \in wire \cup replies :
         Owned(t, m) /\ m.kind \in Writes => m.no \in 1..ui[t].seq
    /\ \A m \in wire : Owned(t, m) /\ m.cut => m.kind = "save"
    /\ \A m \in wire : Flying(t, m) => m.no = ui[t].ctl
    /\ \A r \in replies : Landed(t, r) => r.no = ui[t].ctl
    /\ \A m, n \in wire : Flying(t, m) /\ Flying(t, n) => m = n
    /\ \A r, q \in replies : Landed(t, r) /\ Landed(t, q) => r = q
    /\ \A m \in wire, r \in replies : ~ (Flying(t, m) /\ Landed(t, r))

FlightInv == \A t \in Tabs : FlightOf(t)

(* Nobody but the tab is busy.                                             *)
Alone(t) ==
    /\ \A m \in wire \cup replies : Owned(t, m)
    /\ \A x \in Tabs \ {t} : ui[x].timer = NoTimer

Posting == \E m \in wire \cup replies : m.kind \in Posts

Waiting(t) == ui[t].timer = want[t]

(* The text is on its way, with the last token of all.                     *)
Underway(t) ==
    \E m \in wire :
      /\ m.kind = "save" /\ ~m.cut /\ m.slot = want[t].slot /\ m.body = want[t].body
      /\ \A x \in wire \ {m} : x.kind \in Writes => x.no < m.no
      /\ m.retry => tomb[m.slot] < m.no

(* It was refused, and its answer raises the counter above what refused it. *)
Overtaken(t) ==
    \E r \in replies :
      /\ r.kind = "save" /\ r.slot = want[t].slot /\ r.sent = want[t].body
      /\ r.ok /\ r.stale /\ ~r.retry
      /\ tomb[r.slot] <= ui[t].seq \/ tomb[r.slot] <= r.seed

(* It is stored, and nothing on its way can replace it.                    *)
Stored(t) ==
    /\ ui[t].timer = NoTimer
    /\ draft[want[t].slot] = want[t].body
    /\ \A m \in wire :
         /\ m.kind \in Writes /\ m.slot = want[t].slot => m.no <= tomb[m.slot]
         /\ m.kind = "save" => m.cut
    /\ \A r \in replies : r.kind = "save" => ~r.stale

Kept(t) ==
    \/ Posting
    \/ want[t].slot = "edit" /\ note = "gone"
    \/ Waiting(t) \/ Underway(t) \/ Overtaken(t) \/ Stored(t)

(* A text that is known is what the open composer holds, and is kept.       *)
LatestOf(t) ==
    want[t] # Unknown =>
      /\ Alone(t)
      /\ ui[t].open # None =>
           /\ want[t] = [slot |-> ui[t].slot, body |-> ui[t].box] /\ ui[t].slot \in Slots
           /\ Kept(t)

LatestInv == \A t \in Tabs : LatestOf(t)

DraftsInv == DraftTypes /\ LateInv /\ FlightInv /\ LatestInv

-----------------------------------------------------------------------------
(* What the page's helpers make of a composer and of a request.             *)

LEMMA ContentsHold == Texts \subseteq Contents /\ Empty \in Contents /\ Original \in Contents
BY DEF Contents

LEMMA NoTimerType == NoTimer \in [slot: Slots \cup {None}, body: Contents]
BY ContentsHold DEF NoTimer

LEMMA FreshFields ==
    ASSUME NEW sess \in Nat
    PROVE  /\ Fresh(sess) \in Composer /\ Fresh(sess).sess = sess
           /\ Fresh(sess).timer = NoTimer /\ Fresh(sess).ctl = 0
BY ContentsHold, NoTimerType DEF Fresh, Composer

LEMMA CancelledFields ==
    ASSUME NEW u \in Composer
    PROVE  /\ Cancelled(u) \in Composer /\ Cancelled(u).timer = NoTimer /\ Cancelled(u).ctl = 0
           /\ Cancelled(u).seq = u.seq /\ Cancelled(u).sess = u.sess
           /\ Cancelled(u).slot = u.slot /\ Cancelled(u).open = u.open
           /\ Cancelled(u).box = u.box
<1>1. NoTimer \in [slot: Slots \cup {None}, body: Contents]
  BY NoTimerType
<1> HIDE DEF NoTimer
<1> QED
  BY <1>1 DEF Cancelled, Composer

LEMMA PersistingFields ==
    ASSUME NEW u \in Composer
    PROVE  /\ Persisting(u) \in Composer /\ Persisting(u).timer = u.timer
           /\ Persisting(u).seq = u.seq + 1 /\ Persisting(u).ctl = u.seq + 1
           /\ Persisting(u).sess = u.sess /\ Persisting(u).slot = u.slot
           /\ Persisting(u).open = u.open /\ Persisting(u).box = u.box
<1> DEFINE next == u.seq + 1
<1>1. next \in Nat
  BY DEF Composer
<1>2. Persisting(u) = [[u EXCEPT !.seq = next] EXCEPT !.ctl = next]
  BY DEF Persisting, Composer
<1> HIDE DEF next
<1>3. Persisting(u) \in Composer
  BY <1>1, <1>2 DEF Composer
<1>4. /\ Persisting(u).timer = u.timer /\ Persisting(u).seq = next /\ Persisting(u).ctl = next
      /\ Persisting(u).sess = u.sess /\ Persisting(u).slot = u.slot
      /\ Persisting(u).open = u.open /\ Persisting(u).box = u.box
  BY <1>2 DEF Composer
<1> QED
  BY <1>3, <1>4 DEF next

LEMMA SeededFields ==
    ASSUME NEW u \in Composer, NEW seed \in Nat
    PROVE  /\ Seeded(u, seed) \in Composer /\ Seeded(u, seed).timer = u.timer
           /\ Seeded(u, seed).seq >= u.seq /\ Seeded(u, seed).seq >= seed
           /\ Seeded(u, seed).ctl = u.ctl
           /\ Seeded(u, seed).sess = u.sess /\ Seeded(u, seed).slot = u.slot
           /\ Seeded(u, seed).open = u.open /\ Seeded(u, seed).box = u.box
BY DEF Seeded, Composer

LEMMA MirroredFields ==
    ASSUME NEW u \in Composer, NEW slot, NEW body \in Contents
    PROVE  /\ Mirrored(u, slot, body) \in Composer /\ Mirrored(u, slot, body).timer = u.timer
           /\ Mirrored(u, slot, body).seq = u.seq /\ Mirrored(u, slot, body).ctl = u.ctl
           /\ Mirrored(u, slot, body).sess = u.sess /\ Mirrored(u, slot, body).slot = u.slot
           /\ Mirrored(u, slot, body).open = u.open /\ Mirrored(u, slot, body).box = u.box
BY DEF Mirrored, Composer

LEMMA ClosedFields ==
    ASSUME NEW u \in Composer
    PROVE  /\ Closed(u) \in Composer /\ Closed(u).timer = NoTimer /\ Closed(u).sess = u.sess
           /\ Closed(u).open = None
           /\ u.slot = None => Closed(u).seq = u.seq /\ Closed(u).ctl = 0
           /\ u.slot # None => Closed(u).seq = u.seq + 1 /\ Closed(u).ctl = u.seq + 1
<1> DEFINE v == Cancelled(u)
<1> DEFINE w == IF u.slot = None THEN v ELSE Persisting(v)
<1>1. v \in Composer /\ v.timer = NoTimer /\ v.ctl = 0 /\ v.seq = u.seq /\ v.sess = u.sess
  BY CancelledFields
<1> HIDE DEF v
<1>2. /\ w \in Composer /\ w.timer = NoTimer /\ w.sess = u.sess
      /\ u.slot = None => w.seq = u.seq /\ w.ctl = 0
      /\ u.slot # None => w.seq = u.seq + 1 /\ w.ctl = u.seq + 1
  BY <1>1, PersistingFields
<1>3. Closed(u) = [w EXCEPT !.open = None, !.slot = None, !.box = Empty]
  BY DEF Closed, v
<1> HIDE DEF w
<1> QED
  BY <1>2, <1>3, ContentsHold DEF Composer

LEMMA RequestFields ==
    ASSUME NEW t \in Tabs, NEW u \in Composer, NEW kind \in Kinds, NEW slot \in Slots,
           NEW body \in Contents, NEW retry \in BOOLEAN
    PROVE  LET m == Request(t, u, kind, slot, body, retry)
           IN  /\ m \in Message /\ m.kind = kind /\ m.tab = t /\ m.sess = u.sess
               /\ m.no = u.seq + 1 /\ m.slot = slot /\ m.body = body /\ m.retry = retry
               /\ m.cut = FALSE /\ m.late = FALSE
BY DEF Request, Message, Composer

LEMMA SaveFields ==
    ASSUME NEW t \in Tabs, NEW u \in Composer, NEW slot \in Slots, NEW body \in Contents,
           NEW retry \in BOOLEAN
    PROVE  LET m == Save(t, u, slot, body, retry)
           IN  /\ m \in Message /\ m.kind = "save" /\ m.tab = t /\ m.sess = u.sess
               /\ m.no = u.seq + 1 /\ m.slot = slot /\ m.body = body /\ m.retry = retry
               /\ m.cut = FALSE /\ m.late = FALSE
BY DEF Save, Request, Message, Composer, Kinds

LEMMA AnswerFields ==
    ASSUME NEW m \in Message, NEW ok \in BOOLEAN, NEW stale \in BOOLEAN,
           NEW body \in Contents, NEW seed \in Nat
    PROVE  LET r == Answer(m, ok, stale, body, seed)
           IN  /\ r \in Reply /\ r.kind = m.kind /\ r.tab = m.tab /\ r.sess = m.sess
               /\ r.no = m.no /\ r.slot = m.slot /\ r.body = body /\ r.retry = m.retry
               /\ r.ok = ok /\ r.stale = stale /\ r.seed = seed /\ r.sent = m.body
BY DEF Answer, Message, Reply

LEMMA FailedFields ==
    ASSUME NEW m, m \in Message \/ m \in Reply
    PROVE  /\ Failed(m) \in Reply /\ Failed(m).tab = m.tab /\ Failed(m).sess = m.sess
           /\ Failed(m).no = m.no /\ Failed(m).slot = m.slot /\ Failed(m).ok = FALSE
           /\ m.kind \in {"save", "clear", "load", "delete"} => Failed(m).kind = m.kind
           /\ m.kind \in Posts => Failed(m).kind \in Posts
<1>1. m.kind \in Kinds /\ m.tab \in Tabs /\ m.sess \in Nat /\ m.no \in Nat
      /\ m.slot \in Slots \cup {None} /\ m.retry \in BOOLEAN
  BY DEF Message, Reply
<1> QED
  BY <1>1, ContentsHold DEF Failed, Reply, Kinds, Posts

-----------------------------------------------------------------------------
(* The parts of the types a step reads.                                     *)

LEMMA PageTypes ==
    ASSUME DraftTypes, NEW t \in Tabs
    PROVE  /\ ui[t] \in Composer /\ ui[t].seq \in Nat /\ ui[t].ctl \in Nat /\ ui[t].sess \in Nat
           /\ ui[t].slot \in Slots \cup {None} /\ ui[t].open \in Slots \cup {None}
           /\ ui[t].box \in Contents /\ ui[t].mirror \in Contents
           /\ ui[t].timer.body \in Contents /\ ui[t].timer.slot \in Slots \cup {None}
           /\ ui[t].timer # NoTimer => ui[t].timer.slot \in Slots
<1>1. ui[t] \in Composer
  BY DEF DraftTypes
<1>2. ui[t].timer # NoTimer => ui[t].timer.slot \in Slots
  BY DEF DraftTypes
<1> QED
  BY <1>1, <1>2 DEF Composer

LEMMA WireTypes ==
    ASSUME DraftTypes, NEW m \in wire
    PROVE  /\ m \in Message /\ m.kind \in Kinds /\ m.tab \in Tabs /\ m.sess \in Nat
           /\ m.no \in Nat /\ m.body \in Contents /\ m.retry \in BOOLEAN /\ m.cut \in BOOLEAN
           /\ m.late \in BOOLEAN
           /\ m.kind # "load" => m.slot \in Slots
BY DEF DraftTypes, Message

LEMMA ReplyTypes ==
    ASSUME DraftTypes, NEW r \in replies
    PROVE  /\ r \in Reply /\ r.kind \in Kinds /\ r.tab \in Tabs /\ r.sess \in Nat
           /\ r.no \in Nat /\ r.body \in Contents /\ r.sent \in Contents /\ r.seed \in Nat
           /\ r.retry \in BOOLEAN /\ r.ok \in BOOLEAN /\ r.stale \in BOOLEAN
           /\ r.kind # "load" \/ r.ok => r.slot \in Slots
BY DEF DraftTypes, Reply

LEMMA CutFields ==
    ASSUME NEW m \in Message
    PROVE  LET n == [m EXCEPT !.cut = TRUE]
           IN  /\ n \in Message /\ n.cut = TRUE /\ n.kind = m.kind /\ n.tab = m.tab
               /\ n.sess = m.sess /\ n.no = m.no /\ n.slot = m.slot /\ n.body = m.body
               /\ n.late = m.late
BY DEF Message

SameRequest(n, m) ==
    /\ n.kind = m.kind /\ n.tab = m.tab /\ n.sess = m.sess
    /\ n.no = m.no /\ n.slot = m.slot /\ n.late = m.late

(* What cancelDraftSave leaves of the requests: the same, but one is cut.   *)
LEMMA AbortedFields ==
    ASSUME DraftTypes, NEW t \in Tabs, NEW n \in Aborted(t)
    PROVE  /\ n \in Message
           /\ \/ n \in wire /\ ~InFlight(t, n)
              \/ n.cut /\ n.kind = "save" /\ n.tab = t /\ n.sess = ui[t].sess
           /\ \E m \in wire : SameRequest(n, m)
<1>1. PICK m \in wire : n = IF InFlight(t, m) THEN [m EXCEPT !.cut = TRUE] ELSE m
  BY DEF Aborted
<1>2. m \in Message
  BY DEF DraftTypes
<1>3. CASE InFlight(t, m)
  BY <1>1, <1>2, <1>3, CutFields DEF InFlight, Owned, SameRequest
<1>4. CASE ~InFlight(t, m)
  BY <1>1, <1>2, <1>4 DEF SameRequest
<1> QED
  BY <1>3, <1>4

-----------------------------------------------------------------------------
(* What a step of a page keeps.                                             *)

SentBy(t, u, sent) ==
    \A m \in sent : /\ m \in Message /\ m.tab = t /\ m.sess = u.sess /\ m.slot \in Slots
                    /\ ~m.cut /\ ~m.late
                    /\ m.kind \in Writes => m.no \in 1..u.seq

(* Nothing of the page is in flight but what it has just sent, if anything. *)
OnlyJustSent(t, u, sent) ==
    /\ \A m \in wire' : Flying(t, m) => m \in sent
    /\ \A r \in replies' : ~Landed(t, r)
    /\ \A m, n \in sent : m.kind = "save" /\ n.kind = "save" => m = n
    /\ \A m \in sent : m.kind = "save" => m.no = u.ctl
    /\ u.timer # NoTimer => u.ctl = 0

(* What is in flight stays so.                                              *)
NoneSent(t, u, sent) ==
    /\ u.ctl = ui[t].ctl /\ u.timer = ui[t].timer
    /\ wire' = wire \cup sent
    /\ \A m \in sent : m.kind # "save"

LEMMA PageKeepsTypes ==
    ASSUME DraftTypes, NEW t \in Tabs, NEW u \in Composer, NEW sent,
           ui' = [ui EXCEPT ![t] = u], UNCHANGED store, u.sess = ui[t].sess,
           SentBy(t, u, sent), u.timer # NoTimer => u.timer.slot \in Slots,
           wire' = wire \cup sent \/ wire' = Aborted(t) \cup sent, replies' \subseteq replies,
           acts' \in Nat, want' \in [Tabs -> [slot: Slots \cup {None}, body: Contents]]
    PROVE  DraftTypes'
<1>1. ui' \in [Tabs -> Composer] /\ ui'[t] = u /\ \A x \in Tabs : x # t => ui'[x] = ui[x]
  BY DEF DraftTypes
<1>2. \A x \in Tabs : ui'[x].sess = ui[x].sess
  BY <1>1
<1>3. \A m \in wire' : /\ m \in Message /\ m.sess <= ui'[m.tab].sess
                       /\ m.cut \/ m.sess = ui'[m.tab].sess
                       /\ m.kind # "load" => m.slot \in Slots
  <2> SUFFICES ASSUME NEW m \in wire'
               PROVE  /\ m \in Message /\ m.sess <= ui'[m.tab].sess
                      /\ m.cut \/ m.sess = ui'[m.tab].sess
                      /\ m.kind # "load" => m.slot \in Slots
    OBVIOUS
  <2>1. CASE m \in sent
    <3>1. u.sess \in Nat
      BY DEF Composer
    <3> QED
      BY <1>1, <2>1, <3>1 DEF SentBy
  <2>2. CASE m \in wire
    <3>1. m \in Message /\ m.tab \in Tabs
      BY <2>2, WireTypes
    <3> QED
      BY <1>2, <2>2, <3>1 DEF DraftTypes
  <2>3. CASE m \in Aborted(t)
    <3>1. m \in Message /\ m.tab \in Tabs
      BY <2>3, AbortedFields DEF Message
    <3>2. PICK o \in wire : SameRequest(m, o)
      BY <2>3, AbortedFields
    <3>3. m \in wire \/ m.cut
      BY <2>3, AbortedFields
    <3> QED
      BY <1>2, <3>1, <3>2, <3>3 DEF DraftTypes, SameRequest
  <2> QED
    BY <2>1, <2>2, <2>3
<1>4. \A r \in replies' : r.sess = ui'[r.tab].sess
  <2> SUFFICES ASSUME NEW r \in replies PROVE r.sess = ui'[r.tab].sess
    OBVIOUS
  <2>1. r.tab \in Tabs
    BY ReplyTypes
  <2> QED
    BY <1>2, <2>1 DEF DraftTypes
<1>5. \A x \in Tabs : ui'[x].timer # NoTimer => ui'[x].timer.slot \in Slots
  BY <1>1 DEF DraftTypes
<1> QED
  BY <1>1, <1>3, <1>4, <1>5 DEF DraftTypes, store

LEMMA PageKeepsLate ==
    ASSUME DraftTypes, LateInv, NEW t \in Tabs, NEW u \in Composer, NEW sent, UNCHANGED <<store, risen>>,
           SentBy(t, u, sent), wire' = wire \cup sent \/ wire' = Aborted(t) \cup sent
    PROVE  LateInv'
<1>1. \A m \in wire' : m.late => m.kind = "save" /\ m.no <= tomb[m.slot]
  <2> SUFFICES ASSUME NEW m \in wire', m.late PROVE m.kind = "save" /\ m.no <= tomb[m.slot]
    OBVIOUS
  <2>1. m \notin sent
    BY DEF SentBy
  <2>2. CASE m \in wire
    BY <2>2 DEF LateInv
  <2>3. CASE m \in Aborted(t)
    <3>1. PICK o \in wire : SameRequest(m, o)
      BY <2>3, AbortedFields
    <3> QED
      BY <3>1 DEF LateInv, SameRequest
  <2> QED
    BY <2>1, <2>2, <2>3
<1> QED
  BY <1>1 DEF LateInv, store

(* Of another page, nothing changes.                                        *)
LEMMA OtherPages ==
    ASSUME DraftTypes, NEW t \in Tabs, NEW u \in Composer, NEW sent, SentBy(t, u, sent),
           ui' = [ui EXCEPT ![t] = u], u.sess = ui[t].sess, replies' \subseteq replies,
           wire' = wire \cup sent \/ wire' = Aborted(t) \cup sent,
           NEW x \in Tabs, x # t
    PROVE  /\ ui'[x] = ui[x]
           /\ \A m \in wire' : m.tab = x => m \in wire
<1>1. ui'[x] = ui[x]
  BY DEF DraftTypes
<1>2. \A m \in Aborted(t) : m.tab = x => m \in wire
  BY AbortedFields
<1> QED
  BY <1>1, <1>2 DEF SentBy

LEMMA PageKeepsFlight ==
    ASSUME DraftTypes, FlightInv, NEW t \in Tabs, NEW u \in Composer, NEW sent,
           ui' = [ui EXCEPT ![t] = u], u.sess = ui[t].sess, u.seq >= ui[t].seq,
           SentBy(t, u, sent), replies' \subseteq replies,
           wire' = wire \cup sent \/ wire' = Aborted(t) \cup sent,
           OnlyJustSent(t, u, sent) \/ NoneSent(t, u, sent)
    PROVE  FlightInv'
<1>1. ui'[t] = u /\ \A x \in Tabs : ui'[x].sess = ui[x].sess
  BY DEF DraftTypes
<1>2. ASSUME NEW x \in Tabs, x # t PROVE FlightOf(x)'
  <2>1. ui'[x] = ui[x] /\ \A m \in wire' : m.tab = x => m \in wire
    BY <1>2, OtherPages
  <2>2. \A m : Owned(x, m)' <=> Owned(x, m)
    BY <2>1 DEF Owned
  <2>3. \A m : (Flying(x, m)' <=> Flying(x, m)) /\ (Landed(x, m)' <=> Landed(x, m))
    BY <2>2 DEF Flying, Landed
  <2>4. \A m : Owned(x, m) \/ Flying(x, m) => m.tab = x
    BY DEF Flying, Owned
  <2>5. FlightOf(x)
    BY DEF FlightInv
  <2> QED
    BY <2>1, <2>2, <2>3, <2>4, <2>5 DEF FlightOf
<1>3. FlightOf(t)'
  <2>1. FlightOf(t)
    BY DEF FlightInv
  <2>2. \A m : Owned(t, m)' <=> Owned(t, m)
    BY <1>1 DEF Owned
  <2>3. \A m : (Flying(t, m)' <=> Flying(t, m)) /\ (Landed(t, m)' <=> Landed(t, m))
    BY <2>2 DEF Flying, Landed
  <2>4. u.seq \in Nat /\ ui[t].seq \in Nat
    BY PageTypes DEF Composer
  <2>5. \A m \in wire' \cup replies' : Owned(t, m) /\ m.kind \in Writes => m.no \in 1..u.seq
    <3> SUFFICES ASSUME NEW m \in wire' \cup replies', Owned(t, m), m.kind \in Writes
                 PROVE  m.no \in 1..u.seq
      OBVIOUS
    <3>1. CASE m \in sent
      BY <3>1 DEF SentBy
    <3>2. CASE m \in wire \cup replies
      BY <2>1, <2>4, <3>2 DEF FlightOf
    <3>3. CASE m \in Aborted(t)
      <4>1. PICK o \in wire : SameRequest(m, o)
        BY <3>3, AbortedFields
      <4>2. Owned(t, o)
        BY <4>1 DEF Owned, SameRequest
      <4> QED
        BY <2>1, <2>4, <4>1, <4>2 DEF FlightOf, SameRequest
    <3> QED
      BY <3>1, <3>2, <3>3
  <2>6. \A m \in wire' : Owned(t, m) /\ m.cut => m.kind = "save"
    <3>1. \A m \in Aborted(t) : Owned(t, m) /\ m.cut => m.kind = "save"
      BY <2>1, AbortedFields DEF FlightOf
    <3> QED
      BY <2>1, <3>1 DEF FlightOf, SentBy
  <2>7. CASE OnlyJustSent(t, u, sent)
    <3>1. /\ \A m \in wire' : Flying(t, m) => m \in sent /\ m.kind = "save"
          /\ \A r \in replies' : ~Landed(t, r)
      BY <2>7 DEF OnlyJustSent, Flying
    <3> QED
      BY <1>1, <2>2, <2>3, <2>5, <2>6, <2>7, <3>1 DEF FlightOf, OnlyJustSent
  <2>8. CASE NoneSent(t, u, sent)
    <3>1. \A m \in wire' : Flying(t, m) => m \in wire
      BY <2>8 DEF NoneSent, Flying
    <3> QED
      BY <1>1, <2>1, <2>2, <2>3, <2>5, <2>6, <2>8, <3>1 DEF FlightOf, NoneSent
  <2> QED
    BY <2>7, <2>8
<1>4. \A x \in Tabs : FlightOf(x)'
  BY <1>2, <1>3
<1> QED
  BY <1>4 DEF FlightInv, FlightOf

(* After cancelDraftSave nothing of the page is in flight.                  *)
LEMMA GivenUp ==
    ASSUME DraftTypes, FlightInv, NEW t \in Tabs
    PROVE  /\ \A m \in Aborted(t) : ~Flying(t, m)
           /\ Unanswered(t) \subseteq replies /\ \A r \in Unanswered(t) : ~Landed(t, r)
<1>1. FlightOf(t)
  BY DEF FlightInv
<1>2. ASSUME NEW m \in Aborted(t), Flying(t, m) PROVE FALSE
  <2>1. m \in wire /\ ~InFlight(t, m)
    BY <1>2, AbortedFields DEF Flying
  <2> QED
    BY <1>1, <1>2, <2>1 DEF FlightOf, Flying, InFlight
<1>3. \A r \in Unanswered(t) : ~Landed(t, r)
  BY <1>1 DEF FlightOf, Unanswered, InFlight, Landed
<1> QED
  BY <1>2, <1>3 DEF Unanswered

LEMMA NoReplyIsSent ==
    ASSUME DraftTypes, NEW r \in replies
    PROVE  r \notin wire
<1>1. r \in Reply
  BY DEF DraftTypes
<1>2. "ok" \in DOMAIN r
  BY <1>1 DEF Reply
<1>3. \A m \in Message : "ok" \notin DOMAIN m
  BY DEF Message
<1> QED
  BY <1>2, <1>3 DEF DraftTypes

(* A step of a page, whichever.                                             *)
PageMove(t, u, sent) ==
    /\ u \in Composer /\ ui' = [ui EXCEPT ![t] = u] /\ UNCHANGED <<store, risen>>
    /\ u.sess = ui[t].sess /\ u.seq >= ui[t].seq
    /\ u.timer # NoTimer => u.timer.slot \in Slots
    /\ SentBy(t, u, sent)
    /\ wire' = wire \cup sent \/ wire' = Aborted(t) \cup sent
    /\ replies' \subseteq replies
    /\ OnlyJustSent(t, u, sent) \/ NoneSent(t, u, sent)
    /\ acts' \in Nat /\ want' \in [Tabs -> [slot: Slots \cup {None}, body: Contents]]

SafeInv == DraftTypes /\ LateInv /\ FlightInv

LEMMA PageMoveKeeps ==
    ASSUME SafeInv, NEW t \in Tabs, NEW u, NEW sent, PageMove(t, u, sent)
    PROVE  SafeInv'
<1> USE DEF SafeInv, PageMove
<1>1. DraftTypes'
  BY PageKeepsTypes
<1>2. LateInv'
  BY PageKeepsLate
<1>3. FlightInv'
  BY PageKeepsFlight
<1> QED
  BY <1>1, <1>2, <1>3

WantType == [slot: Slots \cup {None}, body: Contents]

LEMMA ActsTypes ==
    ASSUME DraftTypes, NEW t \in Tabs, NEW mine \in WantType, Acts(t, mine)
    PROVE  acts' \in Nat /\ want' \in [Tabs -> WantType] /\ want'[t] = mine
           /\ \A x \in Tabs : x # t => want'[x] = Unknown
<1>1. Unknown \in WantType
  BY NoTimerType DEF Unknown, WantType
<1> QED
  BY <1>1 DEF Acts, DraftTypes, WantType

LEMMA ForgetTypes ==
    ASSUME DraftTypes, NEW t \in Tabs, Forget(t)
    PROVE  want' \in [Tabs -> WantType] /\ want'[t] = Unknown
           /\ \A x \in Tabs : x # t => want'[x] = want[x]
<1>1. Unknown \in WantType
  BY NoTimerType DEF Unknown, WantType
<1> QED
  BY <1>1 DEF Forget, DraftTypes, WantType

LEMMA NothingLeft ==
    ASSUME DraftTypes, NEW t \in Tabs, Acts(t, Unknown)
    PROVE  acts' \in Nat /\ want' \in [Tabs -> WantType] /\ LatestInv'
<1>1. Unknown \in WantType
  BY NoTimerType DEF Unknown, WantType
<1>2. acts' \in Nat /\ want' \in [Tabs -> WantType] /\ \A x \in Tabs : want'[x] = Unknown
  BY <1>1, ActsTypes
<1> QED
  BY <1>2 DEF LatestInv, LatestOf, Unknown, NoTimer

-----------------------------------------------------------------------------
(* A reviewer acts.                                                         *)

LEMMA OpenNewStep ==
    ASSUME SafeInv, NEW t \in Tabs, OpenNew(t)
    PROVE  SafeInv' /\ LatestInv'
<1> USE DEF SafeInv
<1> DEFINE u == [ui[t] EXCEPT !.open = "new", !.slot = "new", !.box = Empty]
<1>1. acts' \in Nat /\ want' \in [Tabs -> WantType] /\ LatestInv'
  BY NothingLeft DEF OpenNew
<1>2. /\ u \in Composer /\ u.sess = ui[t].sess /\ u.seq = ui[t].seq /\ u.ctl = ui[t].ctl
      /\ u.timer = ui[t].timer
  BY PageTypes, ContentsHold DEF Composer, Slots
<1>3. /\ ui' = [ui EXCEPT ![t] = u] /\ wire' = wire \cup {} /\ replies' = replies
      /\ UNCHANGED <<store, risen>>
  BY DEF OpenNew, Become
<1> HIDE DEF u
<1>4. PageMove(t, u, {})
  BY <1>1, <1>2, <1>3, PageTypes DEF PageMove, SentBy, NoneSent, WantType, DraftTypes
<1> QED
  BY <1>1, <1>4, PageMoveKeeps

LEMMA OpenEditStep ==
    ASSUME SafeInv, NEW t \in Tabs, OpenEdit(t)
    PROVE  SafeInv' /\ LatestInv'
<1> USE DEF SafeInv
<1> DEFINE u == [ui[t] EXCEPT !.open = "edit", !.slot = "edit", !.box = EditBox(ui[t])]
<1>1. acts' \in Nat /\ want' \in [Tabs -> WantType] /\ LatestInv'
  BY NothingLeft DEF OpenEdit
<1>2. EditBox(ui[t]) \in Contents
  BY PageTypes, ContentsHold DEF EditBox
<1>3. /\ u \in Composer /\ u.sess = ui[t].sess /\ u.seq = ui[t].seq /\ u.ctl = ui[t].ctl
      /\ u.timer = ui[t].timer
  BY <1>2, PageTypes DEF Composer, Slots
<1>4. /\ ui' = [ui EXCEPT ![t] = u] /\ wire' = wire \cup {} /\ replies' = replies
      /\ UNCHANGED <<store, risen>>
  BY DEF OpenEdit, Become
<1> HIDE DEF u
<1>5. PageMove(t, u, {})
  BY <1>1, <1>3, <1>4, PageTypes DEF PageMove, SentBy, NoneSent, WantType, DraftTypes
<1> QED
  BY <1>1, <1>5, PageMoveKeeps

LEMMA SubmitStep ==
    ASSUME SafeInv, NEW t \in Tabs, Submit(t)
    PROVE  SafeInv' /\ LatestInv'
<1> USE DEF SafeInv
<1> DEFINE u == [Cancelled(ui[t]) EXCEPT !.slot = None]
<1> DEFINE kind == IF u.open = "new" THEN "create" ELSE "change"
<1> DEFINE m == [Request(t, u, kind, u.open, u.box, FALSE) EXCEPT !.no = acts]
<1>1. acts' \in Nat /\ want' \in [Tabs -> WantType] /\ LatestInv'
  BY NothingLeft DEF Submit
<1>2. /\ u \in Composer /\ u.sess = ui[t].sess /\ u.seq = ui[t].seq /\ u.ctl = 0
      /\ u.timer = NoTimer /\ u.open = ui[t].open /\ u.box = ui[t].box
  <2> DEFINE v == Cancelled(ui[t])
  <2>1. /\ v \in Composer /\ v.timer = NoTimer /\ v.ctl = 0 /\ v.seq = ui[t].seq
        /\ v.sess = ui[t].sess /\ v.open = ui[t].open /\ v.box = ui[t].box
    BY PageTypes, CancelledFields
  <2> HIDE DEF v
  <2>2. [v EXCEPT !.slot = None] \in Composer
    BY <2>1 DEF Composer
  <2>3. u = [v EXCEPT !.slot = None]
    BY DEF v
  <2> QED
    BY <2>1, <2>2, <2>3 DEF Composer
<1>3. /\ ui' = [ui EXCEPT ![t] = u] /\ wire' = Aborted(t) \cup {m} /\ replies' = Unanswered(t)
      /\ UNCHANGED <<store, risen>> /\ ui[t].open # None
  BY DEF Submit, BecomeCancelled
<1>4. kind \in {"create", "change"}
  OBVIOUS
<1> HIDE DEF u, kind
<1>5. /\ m \in Message /\ m.tab = t /\ m.sess = u.sess /\ m.slot \in Slots /\ ~m.cut /\ ~m.late
      /\ m.kind = kind
  <2> DEFINE n == Request(t, u, kind, u.open, u.box, FALSE)
  <2>1. /\ n \in Message /\ n.kind = kind /\ n.tab = t /\ n.sess = u.sess /\ n.slot = u.open
        /\ n.cut = FALSE /\ n.late = FALSE
    <3>1. u.open \in Slots /\ kind \in Kinds /\ u.box \in Contents /\ FALSE \in BOOLEAN
      BY <1>2, <1>3, <1>4, PageTypes DEF Kinds
    <3> QED
      BY <1>2, <3>1 DEF Request, Message, Composer
  <2> HIDE DEF n
  <2>2. m = [n EXCEPT !.no = acts] /\ acts \in Nat /\ u.open \in Slots
    BY <1>2, <1>3, PageTypes DEF n, DraftTypes
  <2> HIDE DEF m
  <2>3. m \in Message
    BY <2>1, <2>2 DEF Message
  <2> QED
    BY <2>1, <2>2, <2>3 DEF Message
<1> HIDE DEF m
<1>6. SentBy(t, u, {m})
  BY <1>4, <1>5 DEF SentBy, Writes
<1>7. OnlyJustSent(t, u, {m})
  BY <1>2, <1>3, <1>4, <1>5, GivenUp DEF OnlyJustSent
<1>8. PageMove(t, u, {m})
  BY <1>1, <1>2, <1>3, <1>6, <1>7, GivenUp, PageTypes DEF PageMove, WantType
<1> QED
  BY <1>1, <1>8, PageMoveKeeps

LEMMA DeleteNoteStep ==
    ASSUME SafeInv, NEW t \in Tabs, DeleteNote(t)
    PROVE  SafeInv' /\ LatestInv'
<1> USE DEF SafeInv
<1> DEFINE u == ui[t]
<1> DEFINE m == [Request(t, u, "delete", "edit", Empty, FALSE) EXCEPT !.no = 0]
<1>1. acts' \in Nat /\ want' \in [Tabs -> WantType] /\ LatestInv'
  BY NothingLeft DEF DeleteNote
<1>2. u \in Composer /\ u.seq \in Nat
  BY PageTypes
<1>3. /\ ui' = [ui EXCEPT ![t] = u] /\ wire' = wire \cup {m} /\ replies' = replies
      /\ UNCHANGED <<store, risen>>
  BY DEF DeleteNote, Become
<1>4. /\ m \in Message /\ m.tab = t /\ m.sess = u.sess /\ m.slot \in Slots /\ ~m.cut /\ ~m.late
      /\ m.kind = "delete"
  <2> DEFINE n == Request(t, u, "delete", "edit", Empty, FALSE)
  <2>1. /\ n \in Message /\ n.kind = "delete" /\ n.tab = t /\ n.sess = u.sess /\ n.slot = "edit"
        /\ n.cut = FALSE /\ n.late = FALSE
    BY <1>2, ContentsHold DEF Request, Message, Composer, Kinds, Slots
  <2> HIDE DEF n
  <2>2. m = [n EXCEPT !.no = 0] /\ "edit" \in Slots
    BY DEF n, Slots
  <2> HIDE DEF m
  <2>3. m \in Message
    BY <2>1, <2>2 DEF Message
  <2> QED
    BY <2>1, <2>2, <2>3 DEF Message
<1> HIDE DEF m
<1>5. SentBy(t, u, {m}) /\ NoneSent(t, u, {m})
  BY <1>3, <1>4 DEF SentBy, Writes, NoneSent
<1>6. PageMove(t, u, {m})
  BY <1>1, <1>2, <1>3, <1>5, PageTypes DEF PageMove, WantType, DraftTypes
<1> QED
  BY <1>1, <1>6, PageMoveKeeps

-----------------------------------------------------------------------------
(* A tab whose text is known is alone with the server.                      *)

LEMMA OnlyOneIsKnown ==
    ASSUME LatestInv, NEW t \in Tabs, NEW x \in Tabs, x # t,
           \/ \E m \in wire \cup replies : m.tab = t
           \/ ui[t].timer # NoTimer
    PROVE  want[x] = Unknown
BY DEF LatestInv, LatestOf, Alone, Owned

LEMMA LatestOfOne ==
    ASSUME NEW t \in Tabs, LatestOf(t)', \A x \in Tabs : x # t => want'[x] = Unknown
    PROVE  LatestInv'
<1>1. ASSUME NEW x \in Tabs PROVE LatestOf(x)'
  BY <1>1 DEF LatestOf, Unknown, NoTimer
<1> QED
  BY <1>1 DEF LatestInv, LatestOf

LEMMA StillAlone ==
    ASSUME DraftTypes, NEW t \in Tabs, NEW u, NEW sent, PageMove(t, u, sent), Alone(t)
    PROVE  Alone(t)'
<1>1. ui'[t] = u /\ \A x \in Tabs : x # t => ui'[x] = ui[x]
  BY DEF PageMove, DraftTypes
<1>2. \A m : Owned(t, m)' <=> Owned(t, m)
  BY <1>1 DEF Owned, PageMove
<1>3. \A m \in sent : Owned(t, m)
  BY DEF PageMove, SentBy, Owned
<1>4. \A m \in Aborted(t) : Owned(t, m)
  BY AbortedFields DEF Alone, Owned
<1>5. \A m \in wire' \cup replies' : Owned(t, m)'
  BY <1>2, <1>3, <1>4 DEF PageMove, Alone
<1> QED
  BY <1>1, <1>5 DEF Alone

LEMMA LeftIsAlone ==
    ASSUME NEW t \in Tabs, NEW text, Left(t, text) # Unknown
    PROVE  Alone(t) /\ Left(t, text) = [slot |-> ui[t].slot, body |-> text]
BY DEF Left, Alone

(* Tokens of its own that are on the way are below the next one.            *)
LEMMA TokensAreBelow ==
    ASSUME SafeInv, NEW t \in Tabs, Alone(t)
    PROVE  /\ \A m \in wire : m.kind \in Writes => m.no < ui[t].seq + 1
           /\ \A m \in Aborted(t) : m.kind \in Writes => m.no < ui[t].seq + 1
<1>1. FlightOf(t) /\ DraftTypes
  BY DEF FlightInv, SafeInv
<1>2. ui[t].seq \in Nat
  BY <1>1, PageTypes
<1>3. \A m \in wire : m.kind \in Writes => m.no < ui[t].seq + 1
  BY <1>1, <1>2 DEF FlightOf, Alone
<1>4. ASSUME NEW m \in Aborted(t), m.kind \in Writes PROVE m.no < ui[t].seq + 1
  <2>1. PICK o \in wire : SameRequest(m, o)
    BY <1>1, AbortedFields
  <2> QED
    BY <1>3, <1>4, <2>1 DEF SameRequest
<1> QED
  BY <1>3, <1>4

LEMMA TypeStep ==
    ASSUME SafeInv, NEW t \in Tabs, NEW text \in Texts \cup {Empty}, Type(t, text)
    PROVE  SafeInv' /\ LatestInv'
<1> USE DEF SafeInv
<1> DEFINE v == [Cancelled(ui[t]) EXCEPT !.box = text]
<1>1. text \in Contents /\ ui[t] \in Composer
  BY ContentsHold, PageTypes
<1>2. /\ v \in Composer /\ v.sess = ui[t].sess /\ v.seq = ui[t].seq /\ v.ctl = 0
      /\ v.timer = NoTimer /\ v.open = ui[t].open /\ v.slot = ui[t].slot /\ v.box = text
  <2> DEFINE c == Cancelled(ui[t])
  <2>1. /\ c \in Composer /\ c.timer = NoTimer /\ c.ctl = 0 /\ c.seq = ui[t].seq
        /\ c.sess = ui[t].sess /\ c.open = ui[t].open /\ c.slot = ui[t].slot
    BY <1>1, CancelledFields
  <2> HIDE DEF c
  <2>2. [c EXCEPT !.box = text] \in Composer
    BY <1>1, <2>1 DEF Composer
  <2>3. v = [c EXCEPT !.box = text]
    BY DEF c
  <2> QED
    BY <2>1, <2>2, <2>3 DEF Composer
<1> HIDE DEF v
<1>3. CASE ui[t].slot = None
  <2> DEFINE u == [ui[t] EXCEPT !.box = text]
  <2>1. /\ ui' = [ui EXCEPT ![t] = u] /\ wire' = wire \cup {} /\ replies' = replies
        /\ UNCHANGED <<store, risen>> /\ Acts(t, Unknown)
    BY <1>3 DEF Type, Become
  <2>2. acts' \in Nat /\ want' \in [Tabs -> WantType] /\ LatestInv'
    BY <2>1, NothingLeft
  <2>3. /\ u \in Composer /\ u.sess = ui[t].sess /\ u.seq = ui[t].seq /\ u.ctl = ui[t].ctl
        /\ u.timer = ui[t].timer
    BY <1>1 DEF Composer
  <2> HIDE DEF u
  <2>4. PageMove(t, u, {})
    BY <2>1, <2>2, <2>3, PageTypes DEF PageMove, SentBy, NoneSent, WantType
  <2> QED
    BY <2>2, <2>4, PageMoveKeeps
<1>4. CASE ui[t].slot # None
  <2> DEFINE left == Left(t, text)
  <2>1. ui[t].slot \in Slots /\ Acts(t, left) /\ UNCHANGED <<store, risen>>
    BY <1>4, PageTypes DEF Type
  <2>2. left \in WantType
    BY <1>1, <2>1, NoTimerType DEF Left, Unknown, WantType
  <2>3. /\ acts' \in Nat /\ want' \in [Tabs -> WantType] /\ want'[t] = left
        /\ \A x \in Tabs : x # t => want'[x] = Unknown
    BY <2>1, <2>2, ActsTypes
  <2>4. CASE text = Empty
    <3> DEFINE u == Persisting(v)
    <3> DEFINE m == Save(t, v, v.slot, text, FALSE)
    <3>1. /\ ui' = [ui EXCEPT ![t] = u] /\ wire' = Aborted(t) \cup {m} /\ replies' = Unanswered(t)
      BY <1>4, <2>4 DEF Type, BecomeCancelled, v
    <3>2. /\ u \in Composer /\ u.timer = NoTimer /\ u.sess = ui[t].sess /\ u.seq = ui[t].seq + 1
          /\ u.ctl = ui[t].seq + 1 /\ u.open = ui[t].open /\ u.slot = ui[t].slot /\ u.box = text
      BY <1>2, PersistingFields
    <3>3. /\ m \in Message /\ m.kind = "save" /\ m.tab = t /\ m.sess = ui[t].sess
          /\ m.no = ui[t].seq + 1 /\ m.slot = ui[t].slot /\ m.body = text /\ m.retry = FALSE
          /\ m.cut = FALSE /\ m.late = FALSE
      BY <1>1, <1>2, <2>1 DEF Save, Request, Message, Composer, Kinds
    <3>4. ui[t].seq \in Nat
      BY PageTypes
    <3> HIDE DEF u, m
    <3>5. SentBy(t, u, {m})
      BY <2>1, <3>2, <3>3, <3>4 DEF SentBy
    <3>6. OnlyJustSent(t, u, {m})
      BY <3>1, <3>2, <3>3, GivenUp DEF OnlyJustSent
    <3>7. PageMove(t, u, {m})
      BY <2>1, <2>3, <3>1, <3>2, <3>4, <3>5, <3>6, GivenUp DEF PageMove, WantType
    <3>8. LatestOf(t)'
      <4> SUFFICES ASSUME left # Unknown PROVE LatestOf(t)'
        BY <2>3 DEF LatestOf, Unknown, NoTimer
      <4>1. Alone(t) /\ left = [slot |-> ui[t].slot, body |-> text]
        BY LeftIsAlone
      <4>2. Alone(t)' /\ ui'[t] = u
        BY <3>7, <4>1, StillAlone DEF PageMove, DraftTypes
      <4>3. Underway(t)'
        BY <2>3, <3>1, <3>3, <4>1, TokensAreBelow DEF Underway
      <4> QED
        BY <2>1, <2>3, <3>2, <4>1, <4>2, <4>3 DEF LatestOf, Kept
    <3> QED
      BY <2>3, <3>7, <3>8, PageMoveKeeps, LatestOfOne
  <2>5. CASE text # Empty
    <3> DEFINE armed == [slot |-> v.slot, body |-> text]
    <3> DEFINE u == [v EXCEPT !.timer = armed]
    <3>1. /\ ui' = [ui EXCEPT ![t] = u] /\ wire' = Aborted(t) \cup {} /\ replies' = Unanswered(t)
      BY <1>4, <2>5 DEF Type, BecomeCancelled, v
    <3>2. armed \in [slot: Slots \cup {None}, body: Contents] /\ armed.slot = ui[t].slot
      BY <1>1, <1>2, <2>1
    <3> HIDE DEF armed
    <3>3. /\ u \in Composer /\ u.timer = armed /\ u.sess = ui[t].sess /\ u.seq = ui[t].seq
          /\ u.ctl = 0 /\ u.open = ui[t].open /\ u.slot = ui[t].slot /\ u.box = text
      BY <1>2, <3>2 DEF Composer
    <3>4. ui[t].seq \in Nat
      BY PageTypes
    <3> HIDE DEF u
    <3>5. SentBy(t, u, {}) /\ OnlyJustSent(t, u, {})
      BY <3>1, <3>3, GivenUp DEF SentBy, OnlyJustSent
    <3>6. PageMove(t, u, {})
      BY <2>1, <2>3, <3>1, <3>2, <3>3, <3>4, <3>5, GivenUp DEF PageMove, WantType
    <3>7. LatestOf(t)'
      <4> SUFFICES ASSUME left # Unknown PROVE LatestOf(t)'
        BY <2>3 DEF LatestOf, Unknown, NoTimer
      <4>1. Alone(t) /\ left = [slot |-> ui[t].slot, body |-> text]
        BY LeftIsAlone
      <4>2. Alone(t)' /\ ui'[t] = u
        BY <3>6, <4>1, StillAlone DEF PageMove, DraftTypes
      <4>3. armed = left
        BY <1>2, <4>1 DEF armed, v
      <4>4. Waiting(t)'
        BY <2>3, <3>3, <4>2, <4>3 DEF Waiting
      <4> QED
        BY <2>1, <2>3, <3>3, <4>1, <4>2, <4>4 DEF LatestOf, Kept
    <3> QED
      BY <2>3, <3>6, <3>7, PageMoveKeeps, LatestOfOne
  <2> QED
    BY <2>4, <2>5
<1> QED
  BY <1>3, <1>4

(* closeComposer, which saves what the box of an armed slot holds.          *)
LEMMA ClosingSaveIsSent ==
    ASSUME DraftTypes, NEW t \in Tabs
    PROVE  \A m \in ClosingSave(t, ui[t]) :
             /\ ui[t].slot # None /\ m = Save(t, ui[t], ui[t].slot, ui[t].box, FALSE)
             /\ m \in Message /\ m.kind = "save" /\ m.tab = t /\ m.sess = ui[t].sess
             /\ m.no = ui[t].seq + 1 /\ m.slot \in Slots /\ ~m.cut /\ ~m.late
<1> SUFFICES ASSUME ui[t].slot # None
             PROVE  LET m == Save(t, ui[t], ui[t].slot, ui[t].box, FALSE)
                    IN  /\ m \in Message /\ m.kind = "save" /\ m.tab = t /\ m.sess = ui[t].sess
                        /\ m.no = ui[t].seq + 1 /\ m.slot \in Slots /\ ~m.cut /\ ~m.late
  BY DEF ClosingSave
<1>1. ui[t] \in Composer /\ ui[t].slot \in Slots /\ ui[t].box \in Contents
  BY PageTypes
<1> QED
  BY <1>1 DEF Save, Request, Message, Composer, Kinds

LEMMA CloseStep ==
    ASSUME SafeInv, NEW t \in Tabs, Close(t)
    PROVE  SafeInv' /\ LatestInv'
<1> USE DEF SafeInv
<1> DEFINE u == Closed(ui[t])
<1> DEFINE sent == ClosingSave(t, ui[t])
<1> DEFINE left == IF ui[t].slot = None THEN Unknown ELSE Left(t, ui[t].box)
<1>1. /\ ui' = [ui EXCEPT ![t] = u] /\ wire' = Aborted(t) \cup sent /\ replies' = Unanswered(t)
      /\ UNCHANGED <<store, risen>> /\ Acts(t, left)
  BY DEF Close, BecomeCancelled
<1>2. /\ u \in Composer /\ u.timer = NoTimer /\ u.sess = ui[t].sess /\ u.open = None
      /\ ui[t].slot = None => u.seq = ui[t].seq /\ u.ctl = 0
      /\ ui[t].slot # None => u.seq = ui[t].seq + 1 /\ u.ctl = ui[t].seq + 1
  BY PageTypes, ClosedFields
<1>3. \A m \in sent : /\ ui[t].slot # None /\ m = Save(t, ui[t], ui[t].slot, ui[t].box, FALSE)
                      /\ m \in Message /\ m.kind = "save" /\ m.tab = t /\ m.sess = ui[t].sess
                      /\ m.no = ui[t].seq + 1 /\ m.slot \in Slots /\ ~m.cut /\ ~m.late
  BY ClosingSaveIsSent
<1>4. left \in WantType
  BY PageTypes, NoTimerType DEF Left, Unknown, WantType
<1>5. ui[t].seq \in Nat
  BY PageTypes
<1> HIDE DEF u, sent
<1>6. /\ acts' \in Nat /\ want' \in [Tabs -> WantType] /\ want'[t] = left
      /\ \A x \in Tabs : x # t => want'[x] = Unknown
  BY <1>1, <1>4, ActsTypes
<1>7. SentBy(t, u, sent)
  <2> SUFFICES ASSUME NEW m \in sent
               PROVE  /\ m \in Message /\ m.tab = t /\ m.sess = u.sess /\ m.slot \in Slots
                      /\ ~m.cut /\ ~m.late /\ m.no \in 1..u.seq
    BY DEF SentBy
  <2>1. /\ m \in Message /\ m.tab = t /\ m.sess = u.sess /\ m.slot \in Slots
        /\ ~m.cut /\ ~m.late /\ m.no = ui[t].seq + 1 /\ u.seq = ui[t].seq + 1
    BY <1>2, <1>3
  <2> QED
    BY <1>5, <2>1
<1>8. OnlyJustSent(t, u, sent)
  BY <1>1, <1>2, <1>3, GivenUp DEF OnlyJustSent
<1>9. PageMove(t, u, sent)
  BY <1>1, <1>2, <1>5, <1>6, <1>7, <1>8, GivenUp DEF PageMove, WantType
<1>10. LatestOf(t)'
  <2> SUFFICES ASSUME left # Unknown PROVE LatestOf(t)'
    BY <1>6 DEF LatestOf, Unknown, NoTimer
  <2>1. Alone(t)
    BY LeftIsAlone
  <2>2. Alone(t)' /\ ui'[t] = u
    BY <1>9, <2>1, StillAlone DEF PageMove, DraftTypes
  <2> QED
    BY <1>2, <2>2 DEF LatestOf
<1> QED
  BY <1>6, <1>9, <1>10, PageMoveKeeps, LatestOfOne

(* Of a page that is loaded, nothing of the one before is left.             *)
LEMMA ReloadStep ==
    ASSUME SafeInv, NEW t \in Tabs, Reload(t)
    PROVE  SafeInv' /\ LatestInv'
<1> USE DEF SafeInv
<1> DEFINE sess == ui[t].sess + 1
<1> DEFINE old == {IF m.tab = t THEN [m EXCEPT !.cut = TRUE] ELSE m : m \in wire}
<1>1. /\ ui' = [ui EXCEPT ![t] = Fresh(sess)] /\ wire' = old \cup {Load(t, sess)}
      /\ replies' = {r \in replies : r.tab # t} /\ UNCHANGED <<store, risen>> /\ Acts(t, Unknown)
  BY DEF Reload
<1>2. acts' \in Nat /\ want' \in [Tabs -> WantType] /\ LatestInv'
  BY <1>1, NothingLeft
<1>3. sess \in Nat /\ ui[t].sess \in Nat /\ ui[t].sess < sess
  BY PageTypes
<1>4. ASSUME NEW n \in old
      PROVE  /\ n \in Message
             /\ n.kind # "load" => n.slot \in Slots
             /\ (n \in wire /\ n.tab # t) \/ (n.cut /\ n.tab = t)
             /\ \E m \in wire : SameRequest(n, m)
  <2>1. PICK m \in wire : n = IF m.tab = t THEN [m EXCEPT !.cut = TRUE] ELSE m
    OBVIOUS
  <2>2. m \in Message /\ (m.kind # "load" => m.slot \in Slots)
    BY DEF DraftTypes
  <2> HIDE DEF old
  <2>3. CASE m.tab = t
    <3>1. n = [m EXCEPT !.cut = TRUE]
      BY <2>1, <2>3
    <3> QED
      BY <2>2, <2>3, <3>1, CutFields DEF SameRequest
  <2>4. CASE m.tab # t
    BY <2>1, <2>2, <2>4 DEF SameRequest
  <2> QED
    BY <2>3, <2>4
<1> DEFINE l == Load(t, sess)
<1>5. /\ l \in Message /\ l.kind = "load" /\ l.tab = t /\ l.sess = sess
      /\ ~l.cut /\ ~l.late
  BY <1>3, ContentsHold DEF Load, Message, Kinds
<1>6. /\ ui' \in [Tabs -> Composer] /\ ui'[t] = Fresh(sess) /\ ui'[t].sess = sess
      /\ ui'[t].timer = NoTimer /\ ui'[t].ctl = 0 /\ \A x \in Tabs : x # t => ui'[x] = ui[x]
  BY <1>1, <1>3, FreshFields DEF DraftTypes
<1> HIDE DEF old, sess, l
<1>7. wire' = old \cup {l}
  BY <1>1 DEF l
<1>8. DraftTypes'
  <2>1. \A m \in old : m.sess <= ui'[m.tab].sess /\ (m.cut \/ m.sess = ui'[m.tab].sess)
    <3> SUFFICES ASSUME NEW m \in old
                 PROVE  m.sess <= ui'[m.tab].sess /\ (m.cut \/ m.sess = ui'[m.tab].sess)
      OBVIOUS
    <3>1. PICK o \in wire : SameRequest(m, o)
      BY <1>4
    <3>2. m.sess \in Nat /\ m.tab \in Tabs /\ ui[m.tab].sess \in Nat /\ m.sess <= ui[m.tab].sess
      BY <1>4, <3>1, PageTypes DEF Message, SameRequest, DraftTypes
    <3>3. CASE m.tab = t
      BY <1>3, <1>4, <1>6, <3>2, <3>3
    <3>4. CASE m.tab # t
      BY <1>4, <1>6, <3>2, <3>4 DEF DraftTypes
    <3> QED
      BY <3>3, <3>4
  <2>2. /\ wire' \subseteq Message
        /\ \A m \in wire' : m.kind # "load" => m.slot \in Slots
        /\ \A m \in wire' : m.sess <= ui'[m.tab].sess /\ (m.cut \/ m.sess = ui'[m.tab].sess)
    BY <1>3, <1>4, <1>5, <1>6, <1>7, <2>1
  <2>3. \A r \in replies' : r.sess = ui'[r.tab].sess
    BY <1>1, <1>6, ReplyTypes DEF DraftTypes
  <2>4. \A x \in Tabs : ui'[x].timer # NoTimer => ui'[x].timer.slot \in Slots
    BY <1>6, PageTypes
  <2> QED
    BY <1>1, <1>2, <1>6, <2>2, <2>3, <2>4 DEF DraftTypes, store, WantType
<1>9. LateInv'
  <2>1. \A m \in old : m.late => m.kind = "save" /\ m.no <= tomb[m.slot]
    BY <1>4 DEF LateInv, SameRequest
  <2> QED
    BY <1>1, <1>5, <1>7, <2>1 DEF LateInv, store
<1>10. FlightInv'
  <2>1. ASSUME NEW x \in Tabs, x # t PROVE FlightOf(x)'
    <3>1. ui'[x] = ui[x]
      BY <1>6, <2>1
    <3>2. \A m : Owned(x, m)' <=> Owned(x, m)
      BY <3>1 DEF Owned
    <3>3. \A m : (Flying(x, m)' <=> Flying(x, m)) /\ (Landed(x, m)' <=> Landed(x, m))
      BY <3>2 DEF Flying, Landed
    <3>4. \A m \in wire' : Owned(x, m) \/ Flying(x, m) => m \in wire
      BY <1>4, <1>5, <1>7, <2>1 DEF Flying, Owned
    <3>5. replies' \subseteq replies
      BY <1>1
    <3>6. FlightOf(x)
      BY DEF FlightInv
    <3> QED
      BY <3>1, <3>2, <3>3, <3>4, <3>5, <3>6 DEF FlightOf
  <2>2. FlightOf(t)'
    <3>1. \A m \in old : ~Owned(t, m)'
      <4> SUFFICES ASSUME NEW m \in old, m.tab = t, m.sess = sess PROVE FALSE
        BY <1>6 DEF Owned
      <4>1. PICK o \in wire : SameRequest(m, o)
        BY <1>4
      <4>2. o.sess <= ui[t].sess /\ o.sess = sess
        BY <4>1 DEF SameRequest, DraftTypes
      <4> QED
        BY <1>3, <4>2
    <3>2. \A r \in replies' : ~Owned(t, r)'
      BY <1>1 DEF Owned
    <3> QED
      BY <1>5, <1>6, <1>7, <3>1, <3>2 DEF FlightOf, Flying, Landed, Writes
  <2>3. \A x \in Tabs : FlightOf(x)'
    BY <2>1, <2>2
  <2> QED
    BY <2>3 DEF FlightInv, FlightOf
<1> QED
  BY <1>2, <1>8, <1>9, <1>10

-----------------------------------------------------------------------------
(* The page moves on its own: the debounce is over, or an answer is there.  *)

(* What disturbs a tab whose text is known is of that tab.                  *)
LEMMA LatestOfPage ==
    ASSUME LatestInv, NEW t \in Tabs,
           \/ \E m \in wire \cup replies : m.tab = t
           \/ ui[t].timer # NoTimer,
           \A x \in Tabs : x # t => want'[x] = want[x],
           LatestOf(t)'
    PROVE  LatestInv'
BY OnlyOneIsKnown, LatestOfOne

LEMMA TimerStep ==
    ASSUME SafeInv, LatestInv, NEW t \in Tabs, TimerFires(t)
    PROVE  SafeInv' /\ LatestInv'
<1> USE DEF SafeInv
<1> DEFINE v == [ui[t] EXCEPT !.timer = NoTimer]
<1> DEFINE u == Persisting(v)
<1> DEFINE m == Save(t, v, ui[t].timer.slot, ui[t].timer.body, FALSE)
<1>1. /\ ui[t].timer # NoTimer /\ ui' = [ui EXCEPT ![t] = u] /\ wire' = wire \cup {m}
      /\ replies' = replies /\ UNCHANGED <<store, risen>> /\ acts' = acts /\ want' = want
  BY DEF TimerFires, Become
<1>2. /\ ui[t] \in Composer /\ ui[t].seq \in Nat
      /\ ui[t].timer.slot \in Slots /\ ui[t].timer.body \in Contents
  BY <1>1, PageTypes
<1>3. NoTimer \in [slot: Slots \cup {None}, body: Contents]
  BY NoTimerType
<1>4. /\ v \in Composer /\ v.timer = NoTimer /\ v.seq = ui[t].seq /\ v.sess = ui[t].sess
      /\ v.open = ui[t].open /\ v.slot = ui[t].slot /\ v.box = ui[t].box
  <2> HIDE DEF NoTimer
  <2> QED
    BY <1>2, <1>3 DEF Composer
<1> HIDE DEF v
<1>5. /\ u \in Composer /\ u.timer = NoTimer /\ u.sess = ui[t].sess /\ u.seq = ui[t].seq + 1
      /\ u.ctl = ui[t].seq + 1 /\ u.open = ui[t].open /\ u.slot = ui[t].slot /\ u.box = ui[t].box
  BY <1>4, PersistingFields
<1>6. /\ m \in Message /\ m.kind = "save" /\ m.tab = t /\ m.sess = ui[t].sess
      /\ m.no = ui[t].seq + 1 /\ m.slot = ui[t].timer.slot /\ m.body = ui[t].timer.body
      /\ m.retry = FALSE /\ m.cut = FALSE /\ m.late = FALSE
  BY <1>2, <1>4 DEF Save, Request, Message, Composer, Kinds
<1>7. /\ \A n \in wire : ~Flying(t, n)
      /\ \A r \in replies : ~Landed(t, r)
  <2>1. FlightOf(t) /\ ui[t].ctl = 0
    BY <1>1 DEF FlightInv, FlightOf
  <2> QED
    BY <1>2, <2>1 DEF FlightOf, Flying, Landed, Writes
<1> HIDE DEF u, m
<1>8. ui'[t] = u
  BY <1>1 DEF DraftTypes
<1>9. SentBy(t, u, {m})
  BY <1>2, <1>5, <1>6 DEF SentBy
<1>10. OnlyJustSent(t, u, {m})
  BY <1>1, <1>5, <1>6, <1>7 DEF OnlyJustSent
<1>11. PageMove(t, u, {m})
  <2>1. acts' \in Nat /\ want' \in [Tabs -> WantType]
    BY <1>1 DEF DraftTypes, WantType
  <2> QED
    BY <1>1, <1>2, <1>5, <1>9, <1>10, <2>1 DEF PageMove, WantType
<1>12. LatestOf(t)'
  <2> SUFFICES ASSUME want[t] # Unknown PROVE LatestOf(t)'
    BY <1>1 DEF LatestOf, Unknown, NoTimer
  <2>1. LatestOf(t) /\ Alone(t)
    BY DEF LatestInv, LatestOf
  <2>2. Alone(t)'
    BY <1>11, <2>1, StillAlone
  <2>3. CASE ui[t].open = None
    BY <1>5, <1>8, <2>2, <2>3 DEF LatestOf
  <2>4. CASE ui[t].open # None
    <3>1. want[t] = [slot |-> ui[t].slot, body |-> ui[t].box] /\ ui[t].slot \in Slots
      BY <2>1, <2>4 DEF LatestOf
    <3>2. \/ Posting
          \/ want[t].slot = "edit" /\ note = "gone"
          \/ Waiting(t)
      <4>1. ~Underway(t)
        BY <1>7, <2>1 DEF Underway, Alone, Flying
      <4>2. ~Overtaken(t)
        BY <1>7, <2>1 DEF Overtaken, Alone, Landed
      <4>3. ~Stored(t)
        BY <1>1 DEF Stored
      <4> QED
        BY <2>1, <2>4, <4>1, <4>2, <4>3 DEF LatestOf, Kept
    <3>3. Posting => Posting'
      BY <1>1 DEF Posting
    <3>4. Waiting(t) => Underway(t)'
      BY <1>1, <1>6, <2>1, TokensAreBelow DEF Waiting, Underway
    <3>5. note' = note
      BY <1>1 DEF store
    <3> QED
      BY <1>1, <1>5, <1>8, <2>2, <3>1, <3>2, <3>3, <3>4, <3>5 DEF LatestOf, Kept
  <2> QED
    BY <2>3, <2>4
<1> QED
  BY <1>1, <1>11, <1>12, PageMoveKeeps, LatestOfPage

(* An answer of a page that is neither of an autosave nor of a post.        *)
LEMMA QuietAnswer ==
    ASSUME SafeInv, LatestInv, NEW r \in replies, NEW u \in Composer, r.kind \in {"clear", "load"},
           ui' = [ui EXCEPT ![r.tab] = u], wire' = wire, replies' = replies \ {r},
           UNCHANGED <<store, risen>>, acts' = acts,
           u.sess = ui[r.tab].sess, u.seq >= ui[r.tab].seq, u.ctl = ui[r.tab].ctl,
           u.timer = ui[r.tab].timer,
           \A x \in Tabs : x # r.tab => want'[x] = want[x],
           \/ /\ want'[r.tab] = want[r.tab] /\ u.open = ui[r.tab].open
              /\ u.slot = ui[r.tab].slot /\ u.box = ui[r.tab].box
           \/ want'[r.tab] = Unknown,
           want' \in [Tabs -> WantType]
    PROVE  SafeInv' /\ LatestInv'
<1> USE DEF SafeInv
<1> DEFINE t == r.tab
<1>1. t \in Tabs /\ ui[t].seq \in Nat /\ u.seq \in Nat
  BY ReplyTypes, PageTypes DEF Composer
<1>2. ui'[t] = u
  BY <1>1 DEF DraftTypes
<1>3. wire' = wire \cup {} /\ replies' \subseteq replies
  OBVIOUS
<1>4. SentBy(t, u, {}) /\ NoneSent(t, u, {})
  BY <1>3 DEF SentBy, NoneSent
<1>5. PageMove(t, u, {})
  <2>1. acts' \in Nat
    BY DEF DraftTypes
  <2>2. u.timer # NoTimer => u.timer.slot \in Slots
    BY <1>1, PageTypes
  <2> QED
    BY <1>1, <1>3, <1>4, <2>1, <2>2 DEF PageMove, WantType
<1>6. LatestOf(t)'
  <2> SUFFICES ASSUME want'[t] # Unknown PROVE LatestOf(t)'
    BY DEF LatestOf, Unknown, NoTimer
  <2>1. /\ want'[t] = want[t] /\ u.open = ui[t].open /\ u.slot = ui[t].slot
        /\ u.box = ui[t].box
    OBVIOUS
  <2>2. LatestOf(t) /\ Alone(t) /\ want[t] # Unknown
    BY <1>1, <2>1 DEF LatestInv, LatestOf
  <2>3. Alone(t)'
    BY <1>1, <1>5, <2>2, StillAlone
  <2>4. note' = note /\ tomb' = tomb /\ draft' = draft
    BY DEF store
  <2>5. Posting => Posting'
    BY DEF Posting, Posts
  <2>6. Waiting(t) => Waiting(t)'
    BY <1>2, <2>1 DEF Waiting
  <2>7. Underway(t) => Underway(t)'
    BY <2>1, <2>4 DEF Underway
  <2>8. Overtaken(t) => Overtaken(t)'
    <3> SUFFICES ASSUME Overtaken(t) PROVE Overtaken(t)'
      OBVIOUS
    <3>1. PICK q \in replies :
              /\ q.kind = "save" /\ q.slot = want[t].slot /\ q.sent = want[t].body
              /\ q.ok /\ q.stale /\ ~q.retry
              /\ tomb[q.slot] <= ui[t].seq \/ tomb[q.slot] <= q.seed
      BY DEF Overtaken
    <3>2. q.slot \in Slots /\ q.slot \in DOMAIN tomb /\ tomb[q.slot] \in Nat
      BY <3>1, ReplyTypes DEF DraftTypes
    <3>3. tomb[q.slot] <= u.seq \/ tomb[q.slot] <= q.seed
      BY <1>1, <3>1, <3>2
    <3>4. q \in replies'
      BY <3>1
    <3> QED
      BY <1>2, <2>1, <2>4, <3>1, <3>3, <3>4 DEF Overtaken
  <2>9. Stored(t) => Stored(t)'
    BY <1>2, <2>1, <2>4 DEF Stored
  <2> QED
    BY <1>2, <2>1, <2>2, <2>3, <2>4, <2>5, <2>6, <2>7, <2>8, <2>9 DEF LatestOf, Kept
<1> QED
  BY <1>1, <1>5, <1>6, PageMoveKeeps, LatestOfPage

LEMMA ClearAnsweredStep ==
    ASSUME SafeInv, LatestInv, NEW r \in replies, ClearAnswered(r)
    PROVE  SafeInv' /\ LatestInv'
<1> DEFINE v == Seeded(ui[r.tab], r.seed)
<1> DEFINE u == Mirrored(v, r.slot, Empty)
<1>1. /\ r.kind = "clear" /\ ui' = [ui EXCEPT ![r.tab] = u] /\ wire' = wire /\ replies' = replies \ {r}
      /\ UNCHANGED <<store, risen>> /\ acts' = acts /\ want' = want
  BY DEF ClearAnswered, Handle
<1>2. DraftTypes /\ r.tab \in Tabs /\ r.seed \in Nat /\ ui[r.tab] \in Composer
  BY ReplyTypes, PageTypes DEF SafeInv
<1>3. /\ v \in Composer /\ v.timer = ui[r.tab].timer /\ v.seq >= ui[r.tab].seq
      /\ v.ctl = ui[r.tab].ctl /\ v.sess = ui[r.tab].sess
      /\ v.slot = ui[r.tab].slot /\ v.open = ui[r.tab].open /\ v.box = ui[r.tab].box
  BY <1>2, SeededFields
<1> HIDE DEF v
<1>4. /\ u \in Composer /\ u.timer = v.timer /\ u.seq = v.seq /\ u.ctl = v.ctl /\ u.sess = v.sess
      /\ u.slot = v.slot /\ u.open = v.open /\ u.box = v.box
  BY <1>3, ContentsHold, MirroredFields
<1> HIDE DEF u
<1>5. want' \in [Tabs -> WantType]
  BY <1>1, <1>2 DEF DraftTypes, WantType
<1> QED
  BY <1>1, <1>3, <1>4, <1>5, QuietAnswer

LEMMA LoadedStep ==
    ASSUME SafeInv, LatestInv, NEW r \in replies, Loaded(r)
    PROVE  SafeInv' /\ LatestInv'
<1> DEFINE v == Seeded(ui[r.tab], r.seed)
<1> DEFINE w == [v EXCEPT !.mirror = r.body]
<1> DEFINE opens == /\ r.ok /\ r.sent # Empty /\ w.open = None
                    /\ r.slot = "edit" => note = "there"
<1> DEFINE u == IF opens THEN [w EXCEPT !.open = r.slot, !.slot = r.slot, !.box = r.sent] ELSE w
<1>1. /\ r.kind = "load" /\ ui' = [ui EXCEPT ![r.tab] = u] /\ wire' = wire /\ replies' = replies \ {r}
      /\ UNCHANGED <<store, risen>> /\ acts' = acts
      /\ want' = IF ui'[r.tab].open = ui[r.tab].open THEN want
                 ELSE [want EXCEPT ![r.tab] = Unknown]
  BY DEF Loaded, Handle
<1>2. /\ DraftTypes /\ r.tab \in Tabs /\ r.seed \in Nat /\ ui[r.tab] \in Composer
      /\ r.body \in Contents /\ r.sent \in Contents
      /\ r.ok => r.slot \in Slots
  BY ReplyTypes, PageTypes DEF SafeInv
<1>3. /\ v \in Composer /\ v.timer = ui[r.tab].timer /\ v.seq >= ui[r.tab].seq
      /\ v.ctl = ui[r.tab].ctl /\ v.sess = ui[r.tab].sess
      /\ v.slot = ui[r.tab].slot /\ v.open = ui[r.tab].open /\ v.box = ui[r.tab].box
  BY <1>2, SeededFields
<1> HIDE DEF v
<1>4. /\ w \in Composer /\ w.timer = v.timer /\ w.seq = v.seq /\ w.ctl = v.ctl /\ w.sess = v.sess
      /\ w.slot = v.slot /\ w.open = v.open /\ w.box = v.box
  BY <1>2, <1>3 DEF Composer
<1> HIDE DEF w
<1>5. /\ u \in Composer /\ u.timer = w.timer /\ u.seq = w.seq /\ u.ctl = w.ctl /\ u.sess = w.sess
      /\ \/ u.slot = w.slot /\ u.open = w.open /\ u.box = w.box
         \/ u.open # w.open
  <2>1. CASE opens
    BY <1>2, <1>4, <2>1 DEF Composer, Slots, None
  <2>2. CASE ~opens
    BY <1>4, <2>2
  <2> QED
    BY <2>1, <2>2
<1> HIDE DEF u, opens
<1>6. ui'[r.tab] = u
  BY <1>1, <1>2 DEF DraftTypes
<1>7. /\ want' \in [Tabs -> WantType] /\ \A x \in Tabs : x # r.tab => want'[x] = want[x]
      /\ want'[r.tab] = IF u.open = ui[r.tab].open THEN want[r.tab] ELSE Unknown
  <2>1. Unknown \in WantType
    BY NoTimerType DEF Unknown, WantType
  <2>2. want \in [Tabs -> WantType]
    BY <1>2 DEF DraftTypes, WantType
  <2> HIDE DEF Unknown
  <2> QED
    BY <1>1, <1>2, <1>6, <2>1, <2>2
<1> QED
  BY <1>1, <1>3, <1>4, <1>5, <1>7, QuietAnswer

LEMMA PostFailedStep ==
    ASSUME SafeInv, LatestInv, NEW r \in replies, PostFailed(r)
    PROVE  SafeInv' /\ LatestInv'
<1> USE DEF SafeInv
<1> DEFINE t == r.tab
<1> DEFINE u == [ui[t] EXCEPT !.slot = r.slot]
<1>1. /\ r.kind \in {"create", "change"} /\ ui' = [ui EXCEPT ![t] = u] /\ wire' = wire \cup {}
      /\ replies' \subseteq replies /\ UNCHANGED <<store, risen>> /\ acts' = acts /\ Forget(t)
  BY DEF PostFailed, Handle
<1>2. t \in Tabs /\ r.slot \in Slots /\ ui[t] \in Composer /\ ui[t].seq \in Nat
  BY <1>1, ReplyTypes, PageTypes
<1>3. /\ u \in Composer /\ u.timer = ui[t].timer /\ u.seq = ui[t].seq /\ u.ctl = ui[t].ctl
      /\ u.sess = ui[t].sess
  BY <1>2 DEF Composer
<1> HIDE DEF u
<1>4. /\ want' \in [Tabs -> WantType] /\ want'[t] = Unknown
      /\ \A x \in Tabs : x # t => want'[x] = want[x]
  BY <1>1, <1>2, ForgetTypes
<1>5. SentBy(t, u, {}) /\ NoneSent(t, u, {})
  BY <1>1, <1>3 DEF SentBy, NoneSent
<1>6. PageMove(t, u, {})
  <2>1. acts' \in Nat
    BY <1>1 DEF DraftTypes
  <2>2. u.timer # NoTimer => u.timer.slot \in Slots
    BY <1>2, <1>3, PageTypes
  <2> QED
    BY <1>1, <1>2, <1>3, <1>4, <1>5, <2>1, <2>2 DEF PageMove, WantType
<1>7. LatestOf(t)'
  BY <1>4 DEF LatestOf, Unknown, NoTimer
<1> QED
  BY <1>2, <1>4, <1>6, <1>7, PageMoveKeeps, LatestOfPage

LEMMA ListFailsStep ==
    ASSUME SafeInv, LatestInv, NEW r \in replies, ListFails(r)
    PROVE  SafeInv' /\ LatestInv'
<1> USE DEF SafeInv
<1> DEFINE t == r.tab
<1> DEFINE v == Seeded(ui[t], r.seed)
<1> DEFINE w == Mirrored(v, r.slot, Empty)
<1> DEFINE u == [w EXCEPT !.slot = r.slot]
<1>1. /\ r.kind = "clear" /\ ui' = [ui EXCEPT ![t] = u] /\ wire' = wire \cup {}
      /\ replies' \subseteq replies /\ UNCHANGED <<store, risen>> /\ acts' = acts /\ Forget(t)
  BY DEF ListFails, Handle
<1>2. /\ t \in Tabs /\ r.slot \in Slots /\ ui[t] \in Composer /\ ui[t].seq \in Nat
      /\ r.seed \in Nat
  BY <1>1, ReplyTypes, PageTypes
<1>3. /\ v \in Composer /\ v.timer = ui[t].timer /\ v.seq >= ui[t].seq
      /\ v.ctl = ui[t].ctl /\ v.sess = ui[t].sess
  BY <1>2, SeededFields
<1> HIDE DEF v
<1>4. /\ w \in Composer /\ w.timer = v.timer /\ w.seq = v.seq /\ w.ctl = v.ctl /\ w.sess = v.sess
  BY <1>3, ContentsHold, MirroredFields
<1> HIDE DEF w
<1>5. /\ u \in Composer /\ u.timer = ui[t].timer /\ u.seq >= ui[t].seq /\ u.ctl = ui[t].ctl
      /\ u.sess = ui[t].sess
  BY <1>2, <1>3, <1>4 DEF Composer
<1> HIDE DEF u
<1>6. /\ want' \in [Tabs -> WantType] /\ want'[t] = Unknown
      /\ \A x \in Tabs : x # t => want'[x] = want[x]
  BY <1>1, <1>2, ForgetTypes
<1>7. SentBy(t, u, {}) /\ NoneSent(t, u, {})
  BY <1>1, <1>5 DEF SentBy, NoneSent
<1>8. PageMove(t, u, {})
  <2>1. acts' \in Nat
    BY <1>1 DEF DraftTypes
  <2>2. u.timer # NoTimer => u.timer.slot \in Slots
    BY <1>2, <1>5, PageTypes
  <2> QED
    BY <1>1, <1>2, <1>5, <1>6, <1>7, <2>1, <2>2 DEF PageMove, WantType
<1>9. LatestOf(t)'
  BY <1>6 DEF LatestOf, Unknown, NoTimer
<1> QED
  BY <1>2, <1>6, <1>8, <1>9, PageMoveKeeps, LatestOfPage

LEMMA PostSucceededStep ==
    ASSUME SafeInv, LatestInv, NEW r \in replies, PostSucceeded(r)
    PROVE  SafeInv' /\ LatestInv'
<1> USE DEF SafeInv
<1> DEFINE t == r.tab
<1> DEFINE c == Closed(ui[t])
<1> DEFINE u == [c EXCEPT !.seq = @ + 1]
<1> DEFINE saves == ClosingSave(t, ui[t])
<1> DEFINE m == Clear(t, c, r.slot)
<1> DEFINE sent == saves \cup {m}
<1>1. /\ r.kind \in {"created", "changed"} /\ ui' = [ui EXCEPT ![t] = u]
      /\ wire' = Aborted(t) \cup sent /\ replies' = Unanswered(t) \ {r}
      /\ UNCHANGED <<store, risen>> /\ acts' = acts
      /\ IF ui[t].open = None THEN want' = want ELSE Forget(t)
  BY DEF PostSucceeded
<1>2. t \in Tabs /\ r.slot \in Slots /\ ui[t] \in Composer /\ ui[t].seq \in Nat
  BY <1>1, ReplyTypes, PageTypes
<1>3. /\ c \in Composer /\ c.timer = NoTimer /\ c.sess = ui[t].sess /\ c.open = None
      /\ ui[t].slot = None => c.seq = ui[t].seq /\ c.ctl = 0
      /\ ui[t].slot # None => c.seq = ui[t].seq + 1 /\ c.ctl = ui[t].seq + 1
  BY <1>2, ClosedFields
<1>4. \A n \in saves : /\ ui[t].slot # None /\ n = Save(t, ui[t], ui[t].slot, ui[t].box, FALSE)
                       /\ n \in Message /\ n.kind = "save" /\ n.tab = t /\ n.sess = ui[t].sess
                       /\ n.no = ui[t].seq + 1 /\ n.slot \in Slots /\ ~n.cut /\ ~n.late
  BY <1>2, ClosingSaveIsSent
<1> HIDE DEF c, saves
<1>5. /\ u \in Composer /\ u.timer = NoTimer /\ u.sess = ui[t].sess /\ u.open = None
      /\ u.seq = c.seq + 1 /\ u.ctl = c.ctl
  BY <1>3 DEF Composer
<1>6. /\ m \in Message /\ m.kind = "clear" /\ m.tab = t /\ m.sess = ui[t].sess
      /\ m.no = c.seq + 1 /\ m.slot = r.slot /\ m.cut = FALSE /\ m.late = FALSE
  BY <1>2, <1>3, ContentsHold DEF Clear, Request, Message, Composer, Kinds
<1> HIDE DEF u, m
<1>7. c.seq \in Nat /\ c.seq >= ui[t].seq
  BY <1>2, <1>3
<1>8. SentBy(t, u, sent)
  <2> SUFFICES ASSUME NEW n \in sent
               PROVE  /\ n \in Message /\ n.tab = t /\ n.sess = u.sess /\ n.slot \in Slots
                      /\ ~n.cut /\ ~n.late /\ n.no \in 1..u.seq
    BY DEF SentBy
  <2>1. CASE n \in saves
    <3>1. /\ n \in Message /\ n.tab = t /\ n.sess = ui[t].sess /\ n.slot \in Slots
          /\ ~n.cut /\ ~n.late /\ n.no = ui[t].seq + 1 /\ ui[t].slot # None
      BY <1>4, <2>1
    <3>2. u.seq = ui[t].seq + 2
      BY <1>2, <1>3, <1>5, <3>1
    <3> QED
      BY <1>2, <1>5, <3>1, <3>2
  <2>2. CASE n = m
    BY <1>2, <1>5, <1>6, <1>7, <2>2
  <2> QED
    BY <2>1, <2>2
<1>9. OnlyJustSent(t, u, sent)
  <2>1. \A n \in Aborted(t) : ~Flying(t, n)
    BY <1>2, GivenUp
  <2>2. \A q \in replies' : ~Landed(t, q)
    BY <1>1, <1>2, GivenUp
  <2>3. \A n \in sent : n.kind = "save" => n \in saves
    BY <1>6
  <2>4. \A n \in saves : n.no = u.ctl
    BY <1>3, <1>4, <1>5
  <2> QED
    BY <1>1, <1>4, <1>5, <2>1, <2>2, <2>3, <2>4 DEF OnlyJustSent
<1>10. /\ want' \in [Tabs -> WantType] /\ \A x \in Tabs : x # t => want'[x] = want[x]
       /\ want'[t] = Unknown \/ (want'[t] = want[t] /\ ui[t].open = None)
  <2>1. CASE ui[t].open = None
    BY <1>1, <2>1 DEF DraftTypes, WantType
  <2>2. CASE ui[t].open # None
    BY <1>1, <1>2, <2>2, ForgetTypes
  <2> QED
    BY <2>1, <2>2
<1>11. PageMove(t, u, sent)
  <2>1. acts' \in Nat
    BY <1>1 DEF DraftTypes
  <2>2. replies' \subseteq replies
    BY <1>1, <1>2, GivenUp
  <2>3. u.seq >= ui[t].seq
    BY <1>2, <1>5, <1>7
  <2> HIDE DEF sent
  <2> QED
    BY <1>1, <1>2, <1>5, <1>8, <1>9, <1>10, <2>1, <2>2, <2>3 DEF PageMove, WantType
<1>12. LatestOf(t)'
  <2> SUFFICES ASSUME want'[t] # Unknown PROVE LatestOf(t)'
    BY DEF LatestOf, Unknown, NoTimer
  <2>1. want[t] # Unknown
    BY <1>10
  <2>2. Alone(t)
    BY <1>2, <2>1 DEF LatestInv, LatestOf
  <2>3. Alone(t)' /\ ui'[t] = u
    BY <1>2, <1>11, <2>2, StillAlone DEF PageMove, DraftTypes
  <2> QED
    BY <1>5, <2>3 DEF LatestOf
<1> QED
  BY <1>2, <1>10, <1>11, <1>12, PageMoveKeeps, LatestOfPage

(* An answer of an autosave: it was the only one in flight.                 *)
LEMMA SaveAnsweredStep ==
    ASSUME SafeInv, LatestInv, NEW r \in replies, SaveAnswered(r)
    PROVE  SafeInv' /\ LatestInv'
<1> USE DEF SafeInv
<1> DEFINE t == r.tab
<1> DEFINE b == [ui[t] EXCEPT !.ctl = IF @ = r.no THEN 0 ELSE @]
<1> DEFINE u == Seeded(b, r.seed)
<1> DEFINE again == r.ok /\ r.stale /\ ~r.retry /\ u.ctl = 0 /\ u.slot = r.slot
<1> DEFINE m == Save(t, u, r.slot, r.sent, TRUE)
<1> DEFINE quiet == IF r.ok THEN Mirrored(u, r.slot, r.body) ELSE u
<1>1. /\ r.kind = "save" /\ UNCHANGED <<store, risen>> /\ acts' = acts /\ want' = want
      /\ IF again THEN Handle(r, Persisting(u), {m}) ELSE Handle(r, quiet, {})
  BY DEF SaveAnswered
<1>2. /\ t \in Tabs /\ r.slot \in Slots /\ r.seed \in Nat /\ r.sent \in Contents /\ r.body \in Contents
      /\ r.sess = ui[t].sess /\ ui[t] \in Composer /\ ui[t].seq \in Nat /\ ui[t].ctl \in Nat
  BY <1>1, ReplyTypes, PageTypes DEF DraftTypes
<1>3. FlightOf(t) /\ Landed(t, r)
  BY <1>1, <1>2 DEF FlightInv, Landed, Owned
<1>4. /\ r.no = ui[t].ctl /\ r.no \in 1..ui[t].seq /\ ui[t].timer = NoTimer
      /\ \A n \in wire : ~Flying(t, n)
      /\ \A q \in replies : Landed(t, q) => q = r
  BY <1>2, <1>3 DEF FlightOf, Landed, Writes
<1>5. /\ b \in Composer /\ b.ctl = 0 /\ b.timer = NoTimer /\ b.seq = ui[t].seq
      /\ b.sess = ui[t].sess /\ b.open = ui[t].open /\ b.slot = ui[t].slot /\ b.box = ui[t].box
  BY <1>2, <1>4 DEF Composer
<1> HIDE DEF b
<1>6. /\ u \in Composer /\ u.ctl = 0 /\ u.timer = NoTimer /\ u.seq >= ui[t].seq /\ u.seq >= r.seed
      /\ u.sess = ui[t].sess /\ u.open = ui[t].open /\ u.slot = ui[t].slot /\ u.box = ui[t].box
  BY <1>2, <1>5, SeededFields
<1> HIDE DEF u
<1>7. u.seq \in Nat
  BY <1>6 DEF Composer
<1>8. /\ acts' \in Nat /\ want' \in [Tabs -> WantType]
      /\ note' = note /\ tomb' = tomb /\ draft' = draft
  BY <1>1 DEF DraftTypes, WantType, store
<1>9. want[t] # Unknown =>
        /\ LatestOf(t) /\ Alone(t)
        /\ ~Waiting(t) /\ ~Underway(t)
        /\ Overtaken(t) => /\ r.slot = want[t].slot /\ r.sent = want[t].body
                           /\ r.ok /\ r.stale /\ ~r.retry
                           /\ tomb[r.slot] <= ui[t].seq \/ tomb[r.slot] <= r.seed
        /\ Stored(t) => ~r.stale
  <2> SUFFICES ASSUME want[t] # Unknown
               PROVE  /\ LatestOf(t) /\ Alone(t)
                      /\ ~Waiting(t) /\ ~Underway(t)
                      /\ Overtaken(t) => /\ r.slot = want[t].slot /\ r.sent = want[t].body
                                         /\ r.ok /\ r.stale /\ ~r.retry
                                         /\ tomb[r.slot] <= ui[t].seq \/ tomb[r.slot] <= r.seed
                      /\ Stored(t) => ~r.stale
    OBVIOUS
  <2>1. LatestOf(t) /\ Alone(t)
    BY <1>2 DEF LatestInv, LatestOf
  <2>2. ~Waiting(t)
    BY <1>4 DEF Waiting, Unknown
  <2>3. ~Underway(t)
    BY <1>4, <2>1 DEF Underway, Alone, Flying
  <2>4. \A q \in replies : q.kind = "save" => q = r
    BY <1>4, <2>1 DEF Alone, Landed
  <2>5. Stored(t) => ~r.stale
    BY <1>1 DEF Stored
  <2>6. Overtaken(t) => /\ r.slot = want[t].slot /\ r.sent = want[t].body
                        /\ r.ok /\ r.stale /\ ~r.retry
                        /\ tomb[r.slot] <= ui[t].seq \/ tomb[r.slot] <= r.seed
    BY <2>4 DEF Overtaken
  <2> QED
    BY <2>1, <2>2, <2>3, <2>5, <2>6
<1>10. CASE again
  <2> DEFINE w == Persisting(u)
  <2>1. /\ ui' = [ui EXCEPT ![t] = w] /\ wire' = wire \cup {m} /\ replies' = replies \ {r}
        /\ r.stale
    BY <1>1, <1>10 DEF Handle
  <2>2. /\ w \in Composer /\ w.timer = NoTimer /\ w.seq = u.seq + 1 /\ w.ctl = u.seq + 1
        /\ w.sess = ui[t].sess /\ w.open = ui[t].open /\ w.slot = ui[t].slot /\ w.box = ui[t].box
    BY <1>6, PersistingFields
  <2>3. /\ m \in Message /\ m.kind = "save" /\ m.tab = t /\ m.sess = ui[t].sess
        /\ m.no = u.seq + 1 /\ m.slot = r.slot /\ m.body = r.sent /\ m.retry = TRUE
        /\ m.cut = FALSE /\ m.late = FALSE
    BY <1>2, <1>6 DEF Save, Request, Message, Composer, Kinds
  <2> HIDE DEF m, w
  <2>4. SentBy(t, w, {m})
    BY <1>2, <1>7, <2>2, <2>3 DEF SentBy
  <2>5. OnlyJustSent(t, w, {m})
    BY <1>4, <2>1, <2>2, <2>3 DEF OnlyJustSent
  <2>6. PageMove(t, w, {m})
    <3>1. w.seq >= ui[t].seq /\ replies' \subseteq replies
      BY <1>2, <1>6, <1>7, <2>1, <2>2
    <3> QED
      BY <1>1, <1>2, <1>8, <2>1, <2>2, <2>4, <2>5, <3>1 DEF PageMove, WantType
  <2>7. ui'[t] = w
    BY <1>2, <2>1 DEF DraftTypes
  <2>8. LatestOf(t)'
    <3> SUFFICES ASSUME want[t] # Unknown PROVE LatestOf(t)'
      BY <1>1 DEF LatestOf, Unknown, NoTimer
    <3>1. LatestOf(t) /\ Alone(t) /\ ~Waiting(t) /\ ~Underway(t) /\ ~Stored(t)
      BY <1>9, <2>1
    <3>2. Alone(t)'
      BY <1>2, <2>6, <3>1, StillAlone
    <3>3. Posting => Posting'
      BY <1>1, <2>1 DEF Posting, Posts
    <3>4. Overtaken(t) => Underway(t)'
      <4> SUFFICES ASSUME Overtaken(t) PROVE Underway(t)'
        OBVIOUS
      <4>1. /\ r.slot = want[t].slot /\ r.sent = want[t].body
            /\ tomb[r.slot] <= ui[t].seq \/ tomb[r.slot] <= r.seed
        BY <1>9
      <4>2. tomb[r.slot] \in Nat
        BY <1>2 DEF DraftTypes
      <4>3. tomb[r.slot] < u.seq + 1
        BY <1>2, <1>6, <1>7, <4>1, <4>2
      <4>4. \A x \in wire : x.kind \in Writes => x.no < u.seq + 1
        <5> SUFFICES ASSUME NEW x \in wire, x.kind \in Writes PROVE x.no < u.seq + 1
          OBVIOUS
        <5>1. x.no < ui[t].seq + 1 /\ x.no \in Nat
          BY <1>2, <3>1, TokensAreBelow, WireTypes
        <5> QED
          BY <1>2, <1>6, <1>7, <5>1
      <4>5. \A x \in wire' \ {m} : x.kind \in Writes => x.no < m.no
        BY <2>1, <2>3, <4>4
      <4> QED
        BY <1>1, <1>8, <2>1, <2>3, <4>1, <4>3, <4>5 DEF Underway
    <3> QED
      BY <1>1, <1>8, <2>2, <2>7, <3>1, <3>2, <3>3, <3>4 DEF LatestOf, Kept
  <2> QED
    BY <1>1, <1>2, <2>6, <2>8, PageMoveKeeps, LatestOfPage
<1>11. CASE ~again
  <2>1. ui' = [ui EXCEPT ![t] = quiet] /\ wire' = wire \cup {} /\ replies' = replies \ {r}
    BY <1>1, <1>11 DEF Handle
  <2>2. /\ quiet \in Composer /\ quiet.timer = NoTimer /\ quiet.seq = u.seq /\ quiet.ctl = 0
        /\ quiet.sess = ui[t].sess /\ quiet.open = ui[t].open /\ quiet.slot = ui[t].slot
        /\ quiet.box = ui[t].box
    <3>1. CASE r.ok
      BY <1>2, <1>6, <3>1, MirroredFields
    <3>2. CASE ~r.ok
      BY <1>6, <3>2
    <3> QED
      BY <3>1, <3>2
  <2> HIDE DEF quiet
  <2>3. SentBy(t, quiet, {}) /\ OnlyJustSent(t, quiet, {})
    BY <1>4, <2>1, <2>2 DEF SentBy, OnlyJustSent
  <2>4. PageMove(t, quiet, {})
    <3>1. quiet.seq >= ui[t].seq /\ replies' \subseteq replies
      BY <1>6, <2>1, <2>2
    <3> QED
      BY <1>1, <1>2, <1>8, <2>1, <2>2, <2>3, <3>1 DEF PageMove, WantType
  <2>5. ui'[t] = quiet
    BY <1>2, <2>1 DEF DraftTypes
  <2>6. LatestOf(t)'
    <3> SUFFICES ASSUME want[t] # Unknown PROVE LatestOf(t)'
      BY <1>1 DEF LatestOf, Unknown, NoTimer
    <3>1. LatestOf(t) /\ Alone(t) /\ ~Waiting(t) /\ ~Underway(t)
      BY <1>9
    <3>2. Alone(t)'
      BY <1>2, <2>4, <3>1, StillAlone
    <3>3. Posting => Posting'
      BY <1>1, <2>1 DEF Posting, Posts
    <3>4. ui[t].open # None => ~Overtaken(t)
      <4> SUFFICES ASSUME ui[t].open # None, Overtaken(t) PROVE FALSE
        OBVIOUS
      <4>1. want[t].slot = ui[t].slot
        BY <3>1 DEF LatestOf
      <4>2. r.slot = want[t].slot /\ r.ok /\ r.stale /\ ~r.retry
        BY <1>9
      <4> QED
        BY <1>6, <1>11, <4>1, <4>2
    <3>5. Stored(t) => Stored(t)'
      BY <1>1, <1>8, <2>1, <2>2, <2>5 DEF Stored
    <3> QED
      BY <1>1, <1>8, <2>2, <2>5, <3>1, <3>2, <3>3, <3>4, <3>5 DEF LatestOf, Kept
  <2> QED
    BY <1>1, <1>2, <2>4, <2>6, PageMoveKeeps, LatestOfPage
<1> QED
  BY <1>10, <1>11

-----------------------------------------------------------------------------
(* A step of the server with a request m: what is on its way is G of what   *)
(* was, and q is its answer, if it gives one.                               *)

Further(n, o) ==
    /\ n \in Message /\ n.tab = o.tab /\ n.sess = o.sess /\ n.no = o.no /\ n.slot = o.slot
    /\ n.cut = o.cut
    /\ n.kind = o.kind \/ (n.kind \in Posts /\ o.kind \in Posts)

AnswerTo(q, m) ==
    /\ q \in Reply /\ q.tab = m.tab /\ q.sess = m.sess /\ q.no = m.no
    /\ q.kind = m.kind \/ (q.kind \in Posts /\ m.kind \in Posts)
    /\ q.kind # "load" \/ q.ok => q.slot \in Slots

ServerMove(m, G, q) ==
    /\ ui' = ui
    /\ \A n \in wire' : \E o \in wire : n = G[o] /\ Further(n, o) /\ (o = m => n.kind \in Posts)
    /\ \A r \in replies' \ replies : r = q /\ ~m.cut /\ AnswerTo(q, m)

StoreTypes ==
    /\ draft \in [Slots -> Contents] /\ tomb \in [Slots -> Nat] /\ note \in {"there", "gone"}
    /\ acts \in Nat /\ want \in [Tabs -> WantType]

LEMMA ServerKeepsTypes ==
    ASSUME DraftTypes, NEW m \in wire, NEW G, NEW q, ServerMove(m, G, q), StoreTypes'
    PROVE  DraftTypes'
<1>1. ASSUME NEW n \in wire'
      PROVE  /\ n \in Message /\ n.sess <= ui[n.tab].sess /\ (n.cut \/ n.sess = ui[n.tab].sess)
             /\ n.kind # "load" => n.slot \in Slots
  <2>1. PICK o \in wire : Further(n, o)
    BY DEF ServerMove
  <2>2. /\ o.sess <= ui[o.tab].sess /\ (o.cut \/ o.sess = ui[o.tab].sess)
        /\ o.kind # "load" => o.slot \in Slots
    BY DEF DraftTypes
  <2>3. n.kind # "load" => o.kind # "load"
    BY <2>1 DEF Further, Posts
  <2> QED
    BY <2>1, <2>2, <2>3 DEF Further
<1>2. ASSUME NEW r \in replies'
      PROVE  /\ r \in Reply /\ r.sess = ui[r.tab].sess
             /\ r.kind # "load" \/ r.ok => r.slot \in Slots
  <2>1. CASE r \in replies
    BY <2>1 DEF DraftTypes
  <2>2. CASE r \notin replies
    <3>1. r = q /\ ~m.cut /\ AnswerTo(q, m)
      BY <2>2 DEF ServerMove
    <3>2. m.sess = ui[m.tab].sess
      BY <3>1 DEF DraftTypes
    <3> QED
      BY <3>1, <3>2 DEF AnswerTo
  <2> QED
    BY <2>1, <2>2
<1>3. ui' = ui
  BY DEF ServerMove
<1> QED
  BY <1>1, <1>2, <1>3 DEF DraftTypes, StoreTypes, WantType

LEMMA ServerKeepsFlight ==
    ASSUME DraftTypes, FlightInv, NEW m \in wire, NEW G, NEW q, ServerMove(m, G, q)
    PROVE  FlightInv'
<1>1. ASSUME NEW t \in Tabs PROVE FlightOf(t)'
  <2>1. FlightOf(t) /\ ui' = ui
    BY DEF FlightInv, ServerMove
  <2>2. \A n : (Owned(t, n)' <=> Owned(t, n)) /\ (Flying(t, n)' <=> Flying(t, n))
               /\ (Landed(t, n)' <=> Landed(t, n))
    BY <2>1 DEF Owned, Flying, Landed
  <2>3. ASSUME NEW n \in wire'
        PROVE  \E o \in wire :
                 /\ n = G[o] /\ Further(n, o)
                 /\ Owned(t, n) => Owned(t, o)
                 /\ n.kind \in Writes => o.kind = n.kind /\ o # m
                 /\ Flying(t, n) => Flying(t, o) /\ o # m
    <3>1. PICK o \in wire : n = G[o] /\ Further(n, o) /\ (o = m => n.kind \in Posts)
      BY DEF ServerMove
    <3>2. Owned(t, n) => Owned(t, o)
      BY <3>1 DEF Owned, Further
    <3>3. n.kind \in Writes => o.kind = n.kind /\ o # m
      BY <3>1 DEF Further, Writes, Posts
    <3>4. Flying(t, n) => Flying(t, o) /\ o # m
      BY <3>1, <3>2, <3>3 DEF Flying, Further, Writes
    <3> QED
      BY <3>1, <3>2, <3>3, <3>4
  <2>4. ASSUME NEW r \in replies', r \notin replies
        PROVE  /\ r = q /\ r.no = m.no
               /\ Owned(t, r) => Owned(t, m)
               /\ r.kind \in Writes => m.kind = r.kind
               /\ Landed(t, r) => Flying(t, m)
    <3>1. r = q /\ ~m.cut /\ AnswerTo(q, m)
      BY <2>4 DEF ServerMove
    <3> QED
      BY <3>1 DEF AnswerTo, Owned, Landed, Flying, Writes, Posts
  <2>5. \A n \in wire' \cup replies' : Owned(t, n) /\ n.kind \in Writes => n.no \in 1..ui[t].seq
    <3>1. \A n \in wire' : Owned(t, n) /\ n.kind \in Writes => n.no \in 1..ui[t].seq
      BY <2>1, <2>3 DEF FlightOf, Further
    <3>2. \A r \in replies' : Owned(t, r) /\ r.kind \in Writes => r.no \in 1..ui[t].seq
      BY <2>1, <2>4 DEF FlightOf
    <3> QED
      BY <3>1, <3>2
  <2>6. \A n \in wire' : Owned(t, n) /\ n.cut => n.kind = "save"
    <3> SUFFICES ASSUME NEW n \in wire', Owned(t, n), n.cut PROVE n.kind = "save"
      OBVIOUS
    <3>1. PICK o \in wire : Further(n, o) /\ Owned(t, o)
      BY <2>3
    <3>2. o.kind = "save"
      BY <2>1, <3>1 DEF Further, FlightOf
    <3> QED
      BY <3>1, <3>2 DEF Further, Posts
  <2>7. \A n \in wire' : Flying(t, n) => n.no = ui[t].ctl
    BY <2>1, <2>3 DEF FlightOf, Further
  <2>8. \A r \in replies' : Landed(t, r) => r.no = ui[t].ctl
    BY <2>1, <2>4 DEF FlightOf
  <2>9. \A n, k \in wire' : Flying(t, n) /\ Flying(t, k) => n = k
    BY <2>1, <2>3 DEF FlightOf
  <2>10. \A r, s \in replies' : Landed(t, r) /\ Landed(t, s) => r = s
    BY <2>1, <2>4 DEF FlightOf
  <2>11. \A n \in wire', r \in replies' : ~ (Flying(t, n) /\ Landed(t, r))
    BY <2>1, <2>3, <2>4 DEF FlightOf
  <2> QED
    BY <2>1, <2>2, <2>5, <2>6, <2>7, <2>8, <2>9, <2>10, <2>11 DEF FlightOf
<1> QED
  BY <1>1 DEF FlightInv, FlightOf

LEMMA ServerKeepsAlone ==
    ASSUME NEW m \in wire, NEW G, NEW q, ServerMove(m, G, q), NEW t \in Tabs, Alone(t)
    PROVE  Alone(t)' /\ Owned(t, m)
<1>1. \A n \in wire' : Owned(t, n)
  BY DEF Alone, Owned, ServerMove, Further
<1>2. \A r \in replies' : Owned(t, r)
  BY DEF Alone, Owned, ServerMove, AnswerTo
<1> QED
  BY <1>1, <1>2 DEF Alone, Owned, ServerMove

(* What a tab whose text is known has to show after a step of the server.   *)
LEMMA LatestOfServer ==
    ASSUME DraftTypes, LatestInv, NEW m \in wire, NEW G, NEW q, ServerMove(m, G, q), want' = want,
           ASSUME NEW t \in Tabs, want[t] # Unknown, Alone(t), Owned(t, m), ui[t].slot \in Slots,
                  want[t].slot \in Slots,
                  Kept(t)
           PROVE  Kept(t)'
    PROVE  LatestInv'
<1>1. ASSUME NEW t \in Tabs PROVE LatestOf(t)'
  <2> SUFFICES ASSUME want[t] # Unknown PROVE LatestOf(t)'
    BY DEF LatestOf, Unknown, NoTimer
  <2>1. LatestOf(t) /\ Alone(t)
    BY DEF LatestInv, LatestOf
  <2>2. Alone(t)' /\ Owned(t, m) /\ ui' = ui
    BY <2>1, ServerKeepsAlone DEF ServerMove
  <2>3. CASE ui[t].open = None
    BY <2>2, <2>3 DEF LatestOf
  <2>4. CASE ui[t].open # None
    <3>1. /\ want[t] = [slot |-> ui[t].slot, body |-> ui[t].box] /\ ui[t].slot \in Slots
          /\ Kept(t)
      BY <2>1, <2>4 DEF LatestOf
    <3>2. want[t].slot \in Slots
      BY <3>1
    <3>3. Kept(t)'
      BY <2>1, <2>2, <3>1, <3>2
    <3> QED
      BY <2>2, <3>1, <3>3 DEF LatestOf
  <2> QED
    BY <2>3, <2>4
<1> QED
  BY <1>1 DEF LatestInv, LatestOf

LEMMA TwoMax ==
    ASSUME NEW f \in [Slots -> Nat]
    PROVE  /\ Max({f[s] : s \in Slots}) \in Nat
           /\ \A s \in Slots : f[s] <= Max({f[x] : x \in Slots})
<1> DEFINE S == {f[s] : s \in Slots}
<1>1. PICK n \in S : \A k \in S : n >= k
  <2>1. f["new"] \in Nat /\ f["edit"] \in Nat /\ f["new"] \in S /\ f["edit"] \in S
        /\ \A k \in S : k = f["new"] \/ k = f["edit"]
    BY DEF Slots
  <2>2. CASE f["new"] >= f["edit"]
    BY <2>1, <2>2
  <2>3. CASE f["edit"] >= f["new"]
    BY <2>1, <2>3
  <2> QED
    BY <2>1, <2>2, <2>3
<1>2. Max(S) \in S /\ \A k \in S : Max(S) >= k
  BY <1>1 DEF Max
<1> QED
  BY <1>2

LEMMA LateFields ==
    ASSUME NEW m \in Message, NEW n, n = [m EXCEPT !.late = TRUE] \/ n = [m EXCEPT !.late = FALSE]
    PROVE  /\ n \in Message /\ n.kind = m.kind /\ n.tab = m.tab /\ n.sess = m.sess
           /\ n.no = m.no /\ n.slot = m.slot /\ n.body = m.body /\ n.retry = m.retry
           /\ n.cut = m.cut
           /\ n = [m EXCEPT !.late = FALSE] => n.late = FALSE
BY DEF Message

(* The parts of a step that applies, or refuses, an autosave or a clear.    *)
Draft(m) ==
    LET stale == StaleToken(m.slot, m.no)
    IN [x \in wire |-> IF ~stale /\ Outruns(m, x) THEN [x EXCEPT !.late = TRUE] ELSE x]

Said(m) ==
    Answer(m, TRUE, StaleToken(m.slot, m.no), draft'[m.slot], Max({tomb'[s] : s \in Slots}))

LEMMA DraftFields ==
    ASSUME DraftTypes, NEW m, NEW x \in wire
    PROVE  LET n == Draft(m)[x]
           IN  /\ n \in Message /\ n.kind = x.kind /\ n.tab = x.tab /\ n.sess = x.sess
               /\ n.no = x.no /\ n.slot = x.slot /\ n.body = x.body /\ n.retry = x.retry
               /\ n.cut = x.cut
               /\ n = x \/ (~StaleToken(m.slot, m.no) /\ Outruns(m, x))
<1> DEFINE n == Draft(m)[x]
<1>1. x \in Message
  BY DEF DraftTypes
<1>2. CASE ~StaleToken(m.slot, m.no) /\ Outruns(m, x)
  <2>1. n = [x EXCEPT !.late = TRUE]
    BY <1>2 DEF Draft
  <2> HIDE DEF n
  <2>2. /\ n \in Message /\ n.kind = x.kind /\ n.tab = x.tab /\ n.sess = x.sess
        /\ n.no = x.no /\ n.slot = x.slot /\ n.body = x.body /\ n.retry = x.retry
        /\ n.cut = x.cut
    BY <1>1, <2>1, LateFields
  <2> QED
    BY <1>2, <2>2 DEF n
<1>3. CASE ~(~StaleToken(m.slot, m.no) /\ Outruns(m, x))
  <2>1. n = x
    BY <1>3 DEF Draft
  <2> QED
    BY <1>1, <2>1
<1> QED
  BY <1>2, <1>3

LEMMA ServeDraftMoves ==
    ASSUME DraftTypes, NEW m \in wire, ServeDraft(m)
    PROVE  /\ StoreTypes' /\ want' = want /\ note' = note /\ ui' = ui /\ m.kind \in Writes
           /\ m.slot \in Slots
           /\ IF StaleToken(m.slot, m.no) THEN draft' = draft /\ tomb' = tomb /\ risen' = risen
              ELSE /\ draft' = [draft EXCEPT ![m.slot] = m.body]
                   /\ tomb' = [tomb EXCEPT ![m.slot] = m.no] /\ risen' = (risen \/ m.late)
           /\ wire' = {Draft(m)[x] : x \in wire \ {m}}
           /\ replies' = IF m.cut THEN replies ELSE replies \cup {Said(m)}
           /\ Said(m) \in Reply /\ Said(m).kind = m.kind /\ Said(m).tab = m.tab
           /\ Said(m).sess = m.sess /\ Said(m).no = m.no /\ Said(m).slot = m.slot
           /\ Said(m).sent = m.body /\ Said(m).ok /\ Said(m).retry = m.retry
           /\ Said(m).stale = StaleToken(m.slot, m.no)
           /\ \A s \in Slots : tomb'[s] \in Nat /\ tomb'[s] <= Said(m).seed
<1> DEFINE stale == StaleToken(m.slot, m.no)
<1>1. /\ m \in Message /\ m.kind \in Kinds /\ m.slot \in Slots /\ m.no \in Nat /\ m.body \in Contents
      /\ m.kind \in Writes
  BY WireTypes DEF ServeDraft, Writes
<1>2. /\ want' = want /\ note' = note /\ ui' = ui /\ acts' = acts
      /\ wire' = {Draft(m)[x] : x \in wire \ {m}}
      /\ replies' = IF m.cut THEN replies ELSE replies \cup {Said(m)}
  BY DEF ServeDraft, Draft, Said
<1>3. IF stale THEN draft' = draft /\ tomb' = tomb /\ risen' = risen
      ELSE /\ draft' = [draft EXCEPT ![m.slot] = m.body]
           /\ tomb' = [tomb EXCEPT ![m.slot] = m.no] /\ risen' = (risen \/ m.late)
  BY DEF ServeDraft, Apply
<1>4. StoreTypes'
  BY <1>1, <1>2, <1>3 DEF StoreTypes, DraftTypes, WantType
<1>5. tomb' \in [Slots -> Nat] /\ draft'[m.slot] \in Contents
  BY <1>1, <1>4 DEF StoreTypes
<1>6. /\ Max({tomb'[s] : s \in Slots}) \in Nat
      /\ \A s \in Slots : tomb'[s] <= Max({tomb'[x] : x \in Slots})
  BY <1>5, TwoMax
<1>7. stale \in BOOLEAN /\ TRUE \in BOOLEAN
  BY DEF StaleToken
<1> DEFINE body == draft'[m.slot]
<1> DEFINE top == Max({tomb'[s] : s \in Slots})
<1> HIDE DEF stale, body, top
<1>8. LET r == Answer(m, TRUE, stale, body, top)
      IN  /\ r \in Reply /\ r.kind = m.kind /\ r.tab = m.tab /\ r.sess = m.sess
          /\ r.no = m.no /\ r.slot = m.slot /\ r.retry = m.retry
          /\ r.ok = TRUE /\ r.stale = stale /\ r.seed = top /\ r.sent = m.body
  <2>1. body \in Contents /\ top \in Nat
    BY <1>5, <1>6 DEF body, top
  <2> QED
    BY <1>1, <1>7, <2>1 DEF Answer, Message, Reply
<1>9. Said(m) = Answer(m, TRUE, stale, body, top)
  BY DEF Said, stale, body, top
<1> QED
  BY <1>1, <1>2, <1>3, <1>4, <1>5, <1>6, <1>8, <1>9 DEF stale, top

LEMMA ServeDraftStep ==
    ASSUME SafeInv, LatestInv, NEW m \in wire, ServeDraft(m)
    PROVE  SafeInv' /\ LatestInv'
<1> USE DEF SafeInv
<1> DEFINE stale == StaleToken(m.slot, m.no)
<1>1. /\ StoreTypes' /\ want' = want /\ note' = note /\ ui' = ui /\ m.kind \in Writes
      /\ m.slot \in Slots
      /\ IF stale THEN draft' = draft /\ tomb' = tomb /\ risen' = risen
         ELSE /\ draft' = [draft EXCEPT ![m.slot] = m.body]
              /\ tomb' = [tomb EXCEPT ![m.slot] = m.no] /\ risen' = (risen \/ m.late)
      /\ wire' = {Draft(m)[x] : x \in wire \ {m}}
      /\ replies' = IF m.cut THEN replies ELSE replies \cup {Said(m)}
      /\ \A s \in Slots : tomb'[s] \in Nat /\ tomb'[s] <= Said(m).seed
  BY ServeDraftMoves
<1>2. /\ Said(m) \in Reply /\ Said(m).kind = m.kind /\ Said(m).tab = m.tab
      /\ Said(m).sess = m.sess /\ Said(m).no = m.no /\ Said(m).slot = m.slot
      /\ Said(m).sent = m.body /\ Said(m).ok /\ Said(m).retry = m.retry /\ Said(m).stale = stale
  BY ServeDraftMoves
<1>3. \A x \in wire :
        /\ Draft(m)[x] \in Message /\ Draft(m)[x].kind = x.kind /\ Draft(m)[x].tab = x.tab
        /\ Draft(m)[x].sess = x.sess /\ Draft(m)[x].no = x.no /\ Draft(m)[x].slot = x.slot
        /\ Draft(m)[x].body = x.body /\ Draft(m)[x].retry = x.retry
        /\ Draft(m)[x].cut = x.cut /\ (Draft(m)[x] = x \/ (~stale /\ Outruns(m, x)))
  BY DraftFields
<1>4. ServerMove(m, Draft(m), Said(m))
  <2>1. \A n \in wire' : \E o \in wire : n = Draft(m)[o] /\ Further(n, o) /\ (o = m => n.kind \in Posts)
    <3> SUFFICES ASSUME NEW o \in wire \ {m} PROVE Further(Draft(m)[o], o)
      BY <1>1
    <3> QED
      BY <1>3 DEF Further
  <2>2. AnswerTo(Said(m), m)
    BY <1>1, <1>2 DEF AnswerTo
  <2> QED
    BY <1>1, <2>1, <2>2 DEF ServerMove
<1>5. m.no \in Nat /\ tomb \in [Slots -> Nat] /\ draft \in [Slots -> Contents]
  BY WireTypes DEF DraftTypes
<1>6. stale <=> m.no <= tomb[m.slot]
  BY DEF StaleToken
<1> HIDE DEF stale
<1>7. \A s \in Slots : tomb[s] <= tomb'[s]
  BY <1>1, <1>5, <1>6
<1>8. LateInv'
  <2>1. ~risen'
    BY <1>1, <1>6 DEF LateInv
  <2>2. ASSUME NEW x \in wire \ {m}, Draft(m)[x].late
        PROVE  x.kind = "save" /\ x.no <= tomb'[x.slot]
    <3>1. x.no \in Nat
      BY WireTypes
    <3>2. CASE Draft(m)[x] = x
      <4>1. x.kind = "save" /\ x.no <= tomb[x.slot]
        BY <2>2, <3>2 DEF LateInv
      <4>2. x.slot \in Slots
        BY <4>1, WireTypes
      <4> QED
        BY <1>1, <1>5, <1>7, <3>1, <4>1, <4>2
    <3>3. CASE ~stale /\ Outruns(m, x)
      BY <1>1, <1>5, <3>1, <3>3 DEF Outruns
    <3> QED
      BY <1>3, <3>2, <3>3
  <2> QED
    BY <1>1, <1>3, <2>1, <2>2 DEF LateInv
<1>9. LatestInv'
  <2>1. ASSUME NEW t \in Tabs, want[t] # Unknown, Alone(t), Owned(t, m), ui[t].slot \in Slots,
               want[t].slot \in Slots, Kept(t)
        PROVE  Kept(t)'
    <3>1. FlightOf(t) /\ ui[t].seq \in Nat /\ m.no \in 1..ui[t].seq
      BY <1>1, <2>1, PageTypes DEF FlightInv, FlightOf
    <3>2. Posting => Posting'
      <4> SUFFICES ASSUME NEW p \in wire \cup replies, p.kind \in Posts PROVE Posting'
        BY DEF Posting
      <4>1. CASE p \in replies
        BY <1>1, <4>1 DEF Posting
      <4>2. CASE p \in wire
        <5>1. p # m
          BY <1>1 DEF Posts, Writes
        <5>2. Draft(m)[p] \in wire' /\ Draft(m)[p].kind \in Posts
          BY <1>1, <1>3, <4>2, <5>1
        <5> QED
          BY <5>2 DEF Posting
      <4> QED
        BY <4>1, <4>2
    <3>3. Waiting(t) => Waiting(t)'
      BY <1>1 DEF Waiting
    <3>4. Underway(t) => Underway(t)' \/ Overtaken(t)' \/ Stored(t)'
      <4> SUFFICES ASSUME NEW k \in wire,
                          k.kind = "save" /\ ~k.cut /\ k.slot = want[t].slot /\ k.body = want[t].body,
                          \A x \in wire \ {k} : x.kind \in Writes => x.no < k.no,
                          k.retry => tomb[k.slot] < k.no
                   PROVE  Underway(t)' \/ Overtaken(t)' \/ Stored(t)'
        BY DEF Underway
      <4>1. k.no \in Nat /\ Flying(t, k) /\ k.no = ui[t].ctl /\ k.no \in 1..ui[t].seq
            /\ ui[t].timer = NoTimer
        <5>1. k.no \in Nat /\ Flying(t, k)
          BY <2>1, WireTypes DEF Alone, Flying
        <5>2. k.no \in 1..ui[t].seq
          BY <3>1, <5>1 DEF FlightOf, Flying, Writes
        <5>3. k.no = ui[t].ctl
          BY <3>1, <5>1 DEF FlightOf
        <5> QED
          BY <3>1, <5>1, <5>2, <5>3 DEF FlightOf
      <4>2. CASE k = m /\ stale
        <5>1. ~m.retry /\ tomb' = tomb
          BY <1>1, <1>5, <1>6, <4>2
        <5>2. Said(m) \in replies'
          BY <1>1, <4>2
        <5> QED
          BY <1>1, <1>2, <4>2, <5>1, <5>2 DEF Overtaken
      <4>3. CASE k = m /\ ~stale
        <5>1. draft'[m.slot] = m.body /\ tomb'[m.slot] = m.no
          BY <1>1, <1>5, <4>3
        <5>2. \A x \in wire \ {m} : /\ x.kind \in Writes /\ x.slot = m.slot => x.no <= tomb'[m.slot]
                                    /\ x.kind = "save" => x.cut
          <6> SUFFICES ASSUME NEW x \in wire \ {m}
                       PROVE  /\ x.kind \in Writes => x.no <= m.no
                              /\ x.kind = "save" => x.cut
            BY <5>1
          <6>1. x.kind = "save" => x.cut
            BY <2>1, <3>1, <4>1, <4>3 DEF FlightOf, Flying, Alone
          <6>2. x.no \in Nat
            BY WireTypes
          <6> QED
            BY <1>5, <4>3, <6>1, <6>2
        <5>3. \A r \in replies' : r.kind = "save" => ~r.stale
          <6>1. \A r \in replies : r.kind # "save"
            BY <2>1, <3>1, <4>1 DEF FlightOf, Landed, Alone
          <6> QED
            BY <1>1, <1>2, <4>3, <6>1
        <5>4. \A n \in wire' : /\ n.kind \in Writes /\ n.slot = want[t].slot => n.no <= tomb'[n.slot]
                               /\ n.kind = "save" => n.cut
          BY <1>1, <1>3, <4>3, <5>2
        <5> QED
          BY <1>1, <4>1, <4>3, <5>1, <5>3, <5>4 DEF Stored
      <4>4. CASE k # m
        <5> DEFINE n == Draft(m)[k]
        <5>1. m.no < k.no
          BY <1>1, <4>4
        <5>2. /\ n \in wire' /\ n.kind = "save" /\ ~n.cut /\ n.slot = want[t].slot
              /\ n.body = want[t].body /\ n.no = k.no /\ n.retry = k.retry
          BY <1>1, <1>3, <4>4
        <5>3. \A x \in wire' \ {n} : x.kind \in Writes => x.no < k.no
          <6> SUFFICES ASSUME NEW o \in wire \ {m}, Draft(m)[o] # n, o.kind \in Writes
                       PROVE  o.no < k.no
            BY <1>1, <1>3
          <6> QED
            OBVIOUS
        <5>4. k.retry => tomb'[k.slot] < k.no
          <6>1. k.slot \in Slots
            BY <2>1
          <6> QED
            BY <1>1, <1>5, <5>1, <6>1
        <5> HIDE DEF n
        <5> QED
          BY <1>1, <5>2, <5>3, <5>4 DEF Underway
      <4> QED
        BY <4>2, <4>3, <4>4
    <3>5. Overtaken(t) => Overtaken(t)'
      <4> SUFFICES ASSUME NEW r \in replies,
                          r.kind = "save" /\ r.slot = want[t].slot /\ r.sent = want[t].body,
                          r.ok /\ r.stale /\ ~r.retry,
                          tomb[r.slot] <= ui[t].seq \/ tomb[r.slot] <= r.seed
                   PROVE  Overtaken(t)'
        BY DEF Overtaken
      <4>1. r \in replies'
        BY <1>1
      <4>2. tomb'[r.slot] <= ui[t].seq \/ tomb'[r.slot] <= r.seed
        <5>1. r.slot \in Slots
          BY <2>1
        <5> QED
          BY <1>1, <1>5, <3>1, <5>1
      <4> QED
        BY <1>1, <4>1, <4>2 DEF Overtaken
    <3>6. Stored(t) => Stored(t)'
      <4> SUFFICES ASSUME Stored(t) PROVE Stored(t)'
        OBVIOUS
      <4>1. draft'[want[t].slot] = draft[want[t].slot] /\ tomb'[want[t].slot] = tomb[want[t].slot]
        <5>1. CASE m.slot = want[t].slot
          <6>1. stale
            BY <1>1, <1>6, <5>1 DEF Stored
          <6> QED
            BY <1>1, <6>1
        <5>2. CASE m.slot # want[t].slot
          BY <1>1, <1>5, <2>1, <5>2
        <5> QED
          BY <5>1, <5>2
      <4>2. \A x \in wire : /\ x.kind \in Writes /\ x.slot = want[t].slot => x.no <= tomb[x.slot]
                            /\ x.kind = "save" => x.cut
        BY DEF Stored
      <4>3. \A r \in replies' : r.kind = "save" => ~r.stale
        BY <1>1, <1>2, <4>2 DEF Stored
      <4>4. \A n \in wire' : /\ n.kind \in Writes /\ n.slot = want[t].slot => n.no <= tomb'[n.slot]
                             /\ n.kind = "save" => n.cut
        BY <1>1, <1>3, <4>1, <4>2
      <4> QED
        BY <1>1, <4>1, <4>3, <4>4 DEF Stored
    <3> QED
      BY <1>1, <2>1, <3>2, <3>3, <3>4, <3>5, <3>6 DEF Kept
  <2> QED
    BY <1>1, <1>4, <2>1, LatestOfServer
<1> QED
  BY <1>1, <1>4, <1>8, <1>9, ServerKeepsTypes, ServerKeepsFlight

(* A request that leaves nothing on its way but its answer.                 *)
LEMMA TakenMoves ==
    ASSUME DraftTypes, NEW m \in wire, NEW q, AnswerTo(q, m), ui' = ui,
           wire' = (wire \ {m}) \cup {},
           replies' = (IF m.cut THEN replies ELSE replies \cup {q})
    PROVE  ServerMove(m, [x \in wire |-> x], q)
<1>1. \A n \in wire' : Further(n, n)
  BY DEF DraftTypes, Further
<1> QED
  BY <1>1 DEF ServerMove

LEMMA PostsAreNeverCut ==
    ASSUME FlightInv, NEW t \in Tabs, NEW m \in wire, Owned(t, m), m.kind \in Posts
    PROVE  ~m.cut
BY DEF FlightInv, FlightOf, Posts

LEMMA ServePostStep ==
    ASSUME SafeInv, LatestInv, NEW m \in wire, ServePost(m)
    PROVE  SafeInv' /\ LatestInv'
<1> USE DEF SafeInv
<1>1. /\ m \in Message /\ m.kind \in Posts /\ m.slot \in Slots
      /\ draft' = draft /\ tomb' = tomb /\ note' = note /\ acts' = acts /\ ui' = ui
      /\ risen' = risen /\ want' = want
  BY WireTypes DEF ServePost, store, Posts
<1>2. StoreTypes'
  BY <1>1 DEF StoreTypes, DraftTypes, WantType
<1>3. CASE m.kind = "change" /\ note = "gone"
  <2> DEFINE q == Answer(m, FALSE, FALSE, Empty, 0)
  <2>1. /\ wire' = (wire \ {m}) \cup {}
        /\ replies' = (IF m.cut THEN replies ELSE replies \cup {q})
    BY <1>3 DEF ServePost, Respond
  <2>2. /\ q \in Reply /\ q.kind = m.kind /\ q.tab = m.tab /\ q.sess = m.sess /\ q.no = m.no
        /\ q.slot = m.slot
    BY <1>1, ContentsHold DEF Answer, Message, Reply
  <2> HIDE DEF q
  <2>3. ServerMove(m, [x \in wire |-> x], q)
    BY <1>1, <2>1, <2>2, TakenMoves DEF AnswerTo
  <2>4. LateInv'
    BY <1>1, <2>1 DEF LateInv
  <2>5. ASSUME NEW t \in Tabs, want[t] # Unknown, Alone(t), Owned(t, m), ui[t].slot \in Slots,
               want[t].slot \in Slots, Kept(t)
        PROVE  Kept(t)'
    <3>1. q \in replies' /\ q.kind \in Posts
      BY <1>1, <2>1, <2>2, <2>5, PostsAreNeverCut
    <3> QED
      BY <3>1 DEF Kept, Posting
  <2>6. LatestInv'
    BY <1>1, <2>3, <2>5, LatestOfServer
  <2> QED
    BY <1>2, <2>3, <2>4, <2>6, ServerKeepsTypes, ServerKeepsFlight
<1>4. CASE ~(m.kind = "change" /\ note = "gone")
  <2> DEFINE n == [m EXCEPT !.kind = IF @ = "create" THEN "created" ELSE "changed"]
  <2> DEFINE G == [x \in wire |-> IF x = m THEN n ELSE x]
  <2>1. wire' = (wire \ {m}) \cup {n} /\ replies' = replies
    BY <1>4 DEF ServePost
  <2>2. /\ n \in Message /\ n.kind \in Posts /\ n.tab = m.tab /\ n.sess = m.sess /\ n.no = m.no
        /\ n.slot = m.slot /\ n.cut = m.cut /\ n.late = m.late
    BY <1>1 DEF Message, Kinds, Posts
  <2> HIDE DEF n
  <2>3. ServerMove(m, G, m)
    <3>1. \A x \in wire \ {m} : G[x] = x /\ Further(x, x)
      BY DEF DraftTypes, Further
    <3>2. G[m] = n /\ Further(n, m)
      BY <1>1, <2>2 DEF Further
    <3> HIDE DEF G
    <3> QED
      BY <1>1, <2>1, <2>2, <3>1, <3>2 DEF ServerMove
  <2>4. LateInv'
    <3>1. ~n.late
      BY <1>1, <2>2 DEF LateInv, Posts
    <3> QED
      BY <1>1, <2>1, <3>1 DEF LateInv
  <2>5. ASSUME NEW t \in Tabs, want[t] # Unknown, Alone(t), Owned(t, m), ui[t].slot \in Slots,
               want[t].slot \in Slots, Kept(t)
        PROVE  Kept(t)'
    BY <2>1, <2>2 DEF Kept, Posting
  <2> HIDE DEF G
  <2>6. LatestInv'
    BY <1>1, <2>3, <2>5, LatestOfServer
  <2> QED
    BY <1>2, <2>3, <2>4, <2>6, ServerKeepsTypes, ServerKeepsFlight
<1> QED
  BY <1>3, <1>4

LEMMA ServePostedStep ==
    ASSUME SafeInv, LatestInv, NEW m \in wire, ServePosted(m)
    PROVE  SafeInv' /\ LatestInv'
<1> USE DEF SafeInv
<1> DEFINE q == Answer(m, TRUE, FALSE, Empty, 0)
<1>1. /\ m \in Message /\ m.kind \in Posts /\ m.slot \in Slots
      /\ draft' = [draft EXCEPT ![m.slot] = Empty]
      /\ tomb' = tomb /\ note' = note /\ acts' = acts /\ ui' = ui
      /\ risen' = risen /\ want' = want
      /\ wire' = (wire \ {m}) \cup {}
      /\ replies' = (IF m.cut THEN replies ELSE replies \cup {q})
  BY WireTypes DEF ServePosted, Respond, Posts
<1>2. StoreTypes'
  BY <1>1, ContentsHold DEF StoreTypes, DraftTypes, WantType
<1>3. /\ q \in Reply /\ q.kind = m.kind /\ q.tab = m.tab /\ q.sess = m.sess /\ q.no = m.no
      /\ q.slot = m.slot
  BY <1>1, ContentsHold DEF Answer, Message, Reply
<1> HIDE DEF q
<1>4. ServerMove(m, [x \in wire |-> x], q)
  BY <1>1, <1>3, TakenMoves DEF AnswerTo
<1>5. LateInv'
  BY <1>1 DEF LateInv
<1>6. ASSUME NEW t \in Tabs, want[t] # Unknown, Alone(t), Owned(t, m), ui[t].slot \in Slots,
             want[t].slot \in Slots, Kept(t)
      PROVE  Kept(t)'
  <2>1. q \in replies' /\ q.kind \in Posts
    BY <1>1, <1>3, <1>6, PostsAreNeverCut
  <2> QED
    BY <2>1 DEF Kept, Posting
<1>7. LatestInv'
  BY <1>1, <1>4, <1>6, LatestOfServer
<1> QED
  BY <1>2, <1>4, <1>5, <1>7, ServerKeepsTypes, ServerKeepsFlight

LEMMA ServeLoadStep ==
    ASSUME SafeInv, LatestInv, NEW m \in wire, ServeLoad(m)
    PROVE  SafeInv' /\ LatestInv'
<1> USE DEF SafeInv
<1>1. PICK s \in Slots :
          Respond(m, {}, {[Answer(m, TRUE, FALSE, draft["edit"], HighestToken)
                             EXCEPT !.slot = s, !.sent = draft[s]]})
  BY DEF ServeLoad
<1> DEFINE a == Answer(m, TRUE, FALSE, draft["edit"], HighestToken)
<1> DEFINE q == [a EXCEPT !.slot = s, !.sent = draft[s]]
<1>2. /\ m \in Message /\ m.kind = "load"
      /\ draft' = draft /\ tomb' = tomb /\ note' = note /\ acts' = acts /\ ui' = ui
      /\ risen' = risen /\ want' = want
      /\ wire' = (wire \ {m}) \cup {}
      /\ replies' = (IF m.cut THEN replies ELSE replies \cup {q})
  BY <1>1, WireTypes DEF ServeLoad, Respond, store
<1>3. StoreTypes'
  BY <1>2 DEF StoreTypes, DraftTypes, WantType
<1>4. draft["edit"] \in Contents /\ draft[s] \in Contents /\ HighestToken \in Nat
  BY TwoMax DEF HighestToken, DraftTypes, Slots
<1>5. /\ a \in Reply /\ a.kind = m.kind /\ a.tab = m.tab /\ a.sess = m.sess /\ a.no = m.no
  BY <1>2, <1>4 DEF Answer, Message, Reply
<1> HIDE DEF a
<1>6. /\ q \in Reply /\ q.kind = m.kind /\ q.tab = m.tab /\ q.sess = m.sess /\ q.no = m.no
      /\ q.slot = s
  BY <1>4, <1>5 DEF Reply
<1> HIDE DEF q
<1>7. ServerMove(m, [x \in wire |-> x], q)
  BY <1>2, <1>6, TakenMoves DEF AnswerTo
<1>8. LateInv'
  BY <1>2 DEF LateInv
<1>9. ASSUME NEW t \in Tabs, want[t] # Unknown, Alone(t), Owned(t, m), ui[t].slot \in Slots,
             want[t].slot \in Slots, Kept(t)
      PROVE  Kept(t)'
  <2>1. wire' \subseteq wire /\ \A x \in wire : x.kind # "load" => x \in wire'
    BY <1>2
  <2>2. replies \subseteq replies' /\ \A r \in replies' : r.kind # "load" => r \in replies
    BY <1>2, <1>6
  <2>3. Posting => Posting'
    BY <2>1, <2>2 DEF Posting, Posts
  <2>4. Waiting(t) => Waiting(t)'
    BY <1>2 DEF Waiting
  <2>5. Underway(t) => Underway(t)'
    BY <1>2, <2>1 DEF Underway
  <2>6. Overtaken(t) => Overtaken(t)'
    BY <1>2, <2>2 DEF Overtaken
  <2>7. Stored(t) => Stored(t)'
    BY <1>2, <2>1, <2>2 DEF Stored
  <2> QED
    BY <1>2, <1>9, <2>3, <2>4, <2>5, <2>6, <2>7 DEF Kept
<1>10. LatestInv'
  BY <1>2, <1>7, <1>9, LatestOfServer
<1> QED
  BY <1>3, <1>7, <1>8, <1>10, ServerKeepsTypes, ServerKeepsFlight

(* The tokens of a note that is deleted are forgotten with its draft.       *)
LEMMA ServeDeleteStep ==
    ASSUME SafeInv, LatestInv, NEW m \in wire, ServeDelete(m)
    PROVE  SafeInv' /\ LatestInv'
<1> USE DEF SafeInv
<1> DEFINE G == [x \in wire |-> IF x.slot = "edit" THEN [x EXCEPT !.late = FALSE] ELSE x]
<1>1. /\ m.kind = "delete" /\ acts' = acts /\ ui' = ui /\ replies' = replies
      /\ risen' = risen /\ want' = want
      /\ wire' = {G[x] : x \in wire \ {m}}
  BY DEF ServeDelete
<1>2. /\ note' = "gone"
      /\ IF note = "gone" THEN draft' = draft /\ tomb' = tomb
         ELSE /\ draft' = [draft EXCEPT !["edit"] = Empty] /\ tomb' = [tomb EXCEPT !["edit"] = 0]
  BY DEF ServeDelete, store
<1>3. StoreTypes'
  BY <1>1, <1>2, ContentsHold DEF StoreTypes, DraftTypes, WantType
<1>4. draft'["new"] = draft["new"] /\ tomb'["new"] = tomb["new"]
  BY <1>2 DEF DraftTypes, Slots
<1>5. ASSUME NEW x \in wire
      PROVE  /\ G[x] \in Message /\ G[x].kind = x.kind /\ G[x].tab = x.tab /\ G[x].sess = x.sess
             /\ G[x].no = x.no /\ G[x].slot = x.slot /\ G[x].body = x.body
             /\ G[x].retry = x.retry /\ G[x].cut = x.cut
             /\ x.slot = "edit" => ~G[x].late
             /\ x.slot # "edit" => G[x] = x
  <2>1. x \in Message
    BY DEF DraftTypes
  <2>2. CASE x.slot = "edit"
    <3> DEFINE n == G[x]
    <3>1. n = [x EXCEPT !.late = FALSE]
      BY <2>2
    <3> HIDE DEF n
    <3>2. /\ n \in Message /\ n.kind = x.kind /\ n.tab = x.tab /\ n.sess = x.sess
          /\ n.no = x.no /\ n.slot = x.slot /\ n.body = x.body /\ n.retry = x.retry
          /\ n.cut = x.cut /\ n.late = FALSE
      BY <2>1, <3>1, LateFields
    <3> QED
      BY <2>2, <3>2 DEF n
  <2>3. CASE x.slot # "edit"
    <3>1. G[x] = x
      BY <2>3
    <3> HIDE DEF G
    <3> QED
      BY <2>1, <2>3, <3>1
  <2> QED
    BY <2>2, <2>3
<1> HIDE DEF G
<1>6. ServerMove(m, G, m)
  <2>1. \A o \in wire \ {m} : Further(G[o], o)
    BY <1>5 DEF Further
  <2> QED
    BY <1>1, <2>1 DEF ServerMove
<1>7. LateInv'
  <2>1. ASSUME NEW x \in wire, G[x].late PROVE x.kind = "save" /\ x.no <= tomb'[x.slot]
    <3>1. x.slot # "edit" /\ x.late
      BY <1>5, <2>1
    <3>2. x.kind = "save" /\ x.no <= tomb[x.slot]
      BY <3>1 DEF LateInv
    <3>3. x.slot = "new"
      BY <3>1, <3>2, WireTypes DEF Slots
    <3> QED
      BY <1>4, <3>2, <3>3
  <2> QED
    BY <1>1, <1>5, <2>1 DEF LateInv
<1>8. ASSUME NEW t \in Tabs, want[t] # Unknown, Alone(t), Owned(t, m), ui[t].slot \in Slots,
             want[t].slot \in Slots, Kept(t)
      PROVE  Kept(t)'
  <2>1. CASE want[t].slot = "edit"
    BY <1>1, <1>2, <2>1 DEF Kept
  <2>2. CASE want[t].slot = "new"
    <3>1. Posting => Posting'
      <4> SUFFICES ASSUME NEW p \in wire \cup replies, p.kind \in Posts PROVE Posting'
        BY DEF Posting
      <4>1. CASE p \in replies
        BY <1>1, <4>1 DEF Posting
      <4>2. CASE p \in wire
        <5>1. p # m
          BY <1>1 DEF Posts
        <5>2. G[p] \in wire' /\ G[p].kind \in Posts
          BY <1>1, <1>5, <4>2, <5>1
        <5> QED
          BY <5>2 DEF Posting
      <4> QED
        BY <4>1, <4>2
    <3>2. Waiting(t) => Waiting(t)'
      BY <1>1 DEF Waiting
    <3>3. Underway(t) => Underway(t)'
      <4> SUFFICES ASSUME NEW k \in wire,
                          k.kind = "save" /\ ~k.cut /\ k.slot = want[t].slot /\ k.body = want[t].body,
                          \A x \in wire \ {k} : x.kind \in Writes => x.no < k.no,
                          k.retry => tomb[k.slot] < k.no
                   PROVE  Underway(t)'
        BY DEF Underway
      <4>1. k # m /\ G[k] = k /\ k \in wire'
        BY <1>1, <1>5, <2>2
      <4>2. \A x \in wire' \ {k} : x.kind \in Writes => x.no < k.no
        BY <1>1, <1>5, <4>1
      <4> QED
        BY <1>1, <1>4, <2>2, <4>1, <4>2 DEF Underway
    <3>4. Overtaken(t) => Overtaken(t)'
      BY <1>1, <1>4, <2>2 DEF Overtaken
    <3>5. Stored(t) => Stored(t)'
      <4> SUFFICES ASSUME Stored(t) PROVE Stored(t)'
        OBVIOUS
      <4>1. \A x \in wire : /\ x.kind \in Writes /\ x.slot = want[t].slot => x.no <= tomb[x.slot]
                            /\ x.kind = "save" => x.cut
        BY DEF Stored
      <4>2. \A n \in wire' : /\ n.kind \in Writes /\ n.slot = want[t].slot => n.no <= tomb'[n.slot]
                             /\ n.kind = "save" => n.cut
        BY <1>1, <1>4, <1>5, <2>2, <4>1
      <4> QED
        BY <1>1, <1>4, <2>2, <4>2 DEF Stored
    <3>6. ~(want[t].slot = "edit" /\ note = "gone")
      BY <2>2
    <3> QED
      BY <1>8, <3>1, <3>2, <3>3, <3>4, <3>5, <3>6 DEF Kept
  <2> QED
    BY <1>8, <2>1, <2>2 DEF Slots
<1>9. LatestInv'
  BY <1>1, <1>6, <1>8, LatestOfServer
<1> QED
  BY <1>3, <1>6, <1>7, <1>9, ServerKeepsTypes, ServerKeepsFlight

-----------------------------------------------------------------------------
(* A request, or its answer, is lost.                                       *)

LEMMA FailedAnswers ==
    ASSUME DraftTypes, NEW m \in wire \cup replies
    PROVE  AnswerTo(Failed(m), m) /\ m.tab \in Tabs
<1>1. /\ m \in Message \/ m \in Reply
      /\ m.kind \in Kinds /\ m.tab \in Tabs
      /\ m.kind # "load" => m.slot \in Slots
  BY WireTypes, ReplyTypes
<1>2. /\ Failed(m) \in Reply /\ Failed(m).tab = m.tab /\ Failed(m).sess = m.sess
      /\ Failed(m).no = m.no /\ Failed(m).slot = m.slot /\ Failed(m).ok = FALSE
      /\ m.kind \in {"save", "clear", "load", "delete"} => Failed(m).kind = m.kind
      /\ m.kind \in Posts => Failed(m).kind \in Posts
  BY <1>1, FailedFields
<1> QED
  BY <1>1, <1>2 DEF AnswerTo, Kinds, Posts

LEMMA LoseStep ==
    ASSUME SafeInv, LatestInv, NEW m \in wire \cup replies, Lose(m)
    PROVE  SafeInv' /\ LatestInv'
<1> USE DEF SafeInv
<1> DEFINE q == Failed(m)
<1>1. AnswerTo(q, m) /\ m.tab \in Tabs
  BY FailedAnswers
<1>2. /\ draft' = draft /\ tomb' = tomb /\ note' = note /\ acts' = acts /\ ui' = ui
      /\ risen' = risen /\ Forget(m.tab)
  BY DEF Lose, store
<1>3. /\ want' \in [Tabs -> WantType] /\ want'[m.tab] = Unknown
      /\ \A x \in Tabs : x # m.tab => want'[x] = want[x]
  BY <1>1, <1>2, ForgetTypes
<1>4. LatestInv'
  <2>1. LatestOf(m.tab)'
    BY <1>3 DEF LatestOf, Unknown, NoTimer
  <2> QED
    BY <1>1, <1>3, <2>1, LatestOfPage
<1>5. StoreTypes'
  BY <1>2, <1>3 DEF StoreTypes, DraftTypes
<1>6. CASE m \in wire /\ ~m.cut /\ wire' = wire \ {m} /\ replies' = replies \cup {q}
  <2> HIDE DEF q
  <2>1. ServerMove(m, [x \in wire |-> x], q)
    BY <1>1, <1>2, <1>6, TakenMoves
  <2>2. LateInv'
    BY <1>2, <1>6 DEF LateInv
  <2> QED
    BY <1>4, <1>5, <1>6, <2>1, <2>2, ServerKeepsTypes, ServerKeepsFlight
<1>7. CASE m \in replies /\ replies' = (replies \ {m}) \cup {q} /\ wire' = wire
  <2> HIDE DEF q
  <2>1. DraftTypes'
    <3>1. /\ q \in Reply /\ q.sess = ui[q.tab].sess
          /\ q.kind # "load" \/ q.ok => q.slot \in Slots
      BY <1>1, <1>7 DEF AnswerTo, DraftTypes
    <3> QED
      BY <1>2, <1>5, <1>7, <3>1 DEF DraftTypes, StoreTypes, WantType
  <2>2. LateInv'
    BY <1>2, <1>7 DEF LateInv
  <2>3. ASSUME NEW t \in Tabs PROVE FlightOf(t)'
    <3>1. FlightOf(t)
      BY DEF FlightInv
    <3>2. \A n : (Owned(t, n)' <=> Owned(t, n)) /\ (Flying(t, n)' <=> Flying(t, n))
                 /\ (Landed(t, n)' <=> Landed(t, n))
      BY <1>2 DEF Owned, Flying, Landed
    <3>3. /\ q.no = m.no
          /\ Owned(t, q) => Owned(t, m)
          /\ q.kind \in Writes => m.kind = q.kind
          /\ Landed(t, q) => Landed(t, m)
      BY <1>1 DEF AnswerTo, Owned, Landed, Writes, Posts
    <3> QED
      BY <1>2, <1>7, <3>1, <3>2, <3>3 DEF FlightOf
  <2> QED
    BY <1>4, <2>1, <2>2, <2>3 DEF FlightInv
<1> QED
  BY <1>6, <1>7 DEF Lose

-----------------------------------------------------------------------------
(* The invariant, and what it says.                                         *)

LEMMA DraftsInit == Init => DraftsInv
<1> SUFFICES ASSUME Init PROVE DraftsInv
  OBVIOUS
<1>1. Fresh(1) \in Composer /\ Fresh(1).timer = NoTimer /\ Fresh(1).ctl = 0
  BY FreshFields
<1>2. \A t \in Tabs : ui[t] = Fresh(1)
  BY DEF Init
<1>3. DraftTypes
  BY <1>1, ContentsHold, NoTimerType DEF Init, DraftTypes, Unknown
<1>4. LateInv
  BY DEF Init, LateInv
<1>5. FlightInv
  BY <1>1, <1>2 DEF Init, FlightInv, FlightOf
<1>6. LatestInv
  BY DEF Init, LatestInv, LatestOf
<1> QED
  BY <1>3, <1>4, <1>5, <1>6 DEF DraftsInv

LEMMA DraftsStep ==
    ASSUME DraftsInv, [Next]_vars
    PROVE  DraftsInv'
<1>1. SafeInv /\ LatestInv
  BY DEF DraftsInv, SafeInv
<1>2. CASE \E t \in Tabs : \/ OpenNew(t) \/ OpenEdit(t) \/ TimerFires(t) \/ Close(t)
                           \/ Submit(t) \/ DeleteNote(t) \/ Reload(t)
                           \/ \E text \in Texts \cup {Empty} : Type(t, text)
  BY <1>1, <1>2, OpenNewStep, OpenEditStep, TimerStep, CloseStep, SubmitStep, DeleteNoteStep,
     ReloadStep, TypeStep DEF DraftsInv, SafeInv
<1>3. CASE \E m \in wire : \/ ServeDraft(m) \/ ServePost(m) \/ ServePosted(m)
                           \/ ServeDelete(m) \/ ServeLoad(m)
  BY <1>1, <1>3, ServeDraftStep, ServePostStep, ServePostedStep, ServeDeleteStep, ServeLoadStep
     DEF DraftsInv, SafeInv
<1>4. CASE \E m \in wire \cup replies : Lose(m)
  BY <1>1, <1>4, LoseStep DEF DraftsInv, SafeInv
<1>5. CASE \E r \in replies : \/ SaveAnswered(r) \/ ClearAnswered(r) \/ ListFails(r)
                              \/ PostSucceeded(r) \/ PostFailed(r) \/ Loaded(r)
  BY <1>1, <1>5, SaveAnsweredStep, ClearAnsweredStep, ListFailsStep, PostSucceededStep, PostFailedStep,
     LoadedStep DEF DraftsInv, SafeInv
<1>6. CASE UNCHANGED vars
  <2>1. /\ draft' = draft /\ tomb' = tomb /\ note' = note /\ acts' = acts /\ ui' = ui
        /\ wire' = wire /\ replies' = replies /\ want' = want /\ risen' = risen
    BY <1>6 DEF vars, store
  <2>2. DraftTypes' /\ LateInv'
    BY <1>1, <2>1 DEF SafeInv, DraftTypes, LateInv
  <2>3. \A t, m : /\ Owned(t, m)' <=> Owned(t, m)
                  /\ Flying(t, m)' <=> Flying(t, m)
                  /\ Landed(t, m)' <=> Landed(t, m)
    BY <2>1 DEF Owned, Flying, Landed
  <2>4. FlightInv'
    BY <1>1, <2>1, <2>3 DEF SafeInv, FlightInv, FlightOf
  <2>5. \A t \in Tabs : Kept(t) => Kept(t)'
    BY <2>1 DEF Kept, Posting, Waiting, Underway, Overtaken, Stored
  <2>6. LatestInv'
    BY <1>1, <2>1, <2>3, <2>5 DEF LatestInv, LatestOf, Alone
  <2> QED
    BY <2>2, <2>4, <2>6 DEF DraftsInv
<1> QED
  BY <1>2, <1>3, <1>4, <1>5, <1>6 DEF Next

(* For any tabs, texts, losses and orders of arrival: the types, what late  *)
(* autosaves can do, what a page has in flight, and where its text is.      *)
THEOREM DraftsInvariant == Spec => []DraftsInv
<1>1. Init => DraftsInv
  BY DraftsInit
<1>2. DraftsInv /\ [Next]_vars => DraftsInv'
  BY DraftsStep
<1> QED
  BY <1>1, <1>2, PTL DEF Spec

(* No autosave that a page had sent before its clear of a slot is stored    *)
(* there once the server has applied the clear.                             *)
THEOREM ClearsStand == Spec => []ClearedStaysCleared
<1>1. DraftsInv => ClearedStaysCleared
  BY DEF DraftsInv, LateInv, ClearedStaysCleared
<1> QED
  BY <1>1, DraftsInvariant, PTL

(* The text in a composer that stays open is what the server holds once its *)
(* tab is at rest, if no one else was busy and nothing of it was lost.      *)
THEOREM LatestTextReachesTheServer == Spec => []LatestTextIsSaved
<1>1. DraftsInv => LatestTextIsSaved
  <2> SUFFICES ASSUME DraftsInv, NEW t \in Tabs, ui[t].open # None, want[t] # Unknown, AtRest(t),
                      want[t].slot = "edit" => note = "there"
               PROVE  draft[want[t].slot] = want[t].body
    BY DEF LatestTextIsSaved, Held
  <2>1. DraftTypes /\ LatestOf(t) /\ FlightOf(t)
    BY DEF DraftsInv, LatestInv, FlightInv
  <2>2. Alone(t) /\ Kept(t) /\ want[t].slot \in Slots
    BY <2>1 DEF LatestOf
  <2>3. replies = {} /\ \A m \in wire : m.cut /\ m.kind = "save"
    <3>1. \A m \in wire \cup replies : Owned(t, m) /\ m \in wire /\ m.cut
      BY <2>2 DEF Alone, AtRest
    <3>2. \A r \in replies : r \notin wire
      BY <2>1, NoReplyIsSent
    <3> QED
      BY <2>1, <3>1, <3>2 DEF FlightOf
  <2>4. ~Posting
    BY <2>3 DEF Posting, Posts
  <2>5. ~Waiting(t)
    BY DEF Waiting, AtRest, Unknown
  <2>6. ~Underway(t) /\ ~Overtaken(t)
    BY <2>3 DEF Underway, Overtaken
  <2>7. ~(want[t].slot = "edit" /\ note = "gone")
    OBVIOUS
  <2> QED
    BY <2>2, <2>4, <2>5, <2>6, <2>7 DEF Kept, Stored
<1> QED
  BY <1>1, DraftsInvariant, PTL
=============================================================================
