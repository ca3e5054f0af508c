----------------------------- MODULE SpecDrafts -----------------------------
(***************************************************************************)
(* Autosave of half-typed notes in spec-web: the composer of each browser  *)
(* tab (static/app.js), the requests it sends, which overtake each other,  *)
(* and the server's draft store with its ordering tokens (store.py).       *)
(*                                                                         *)
(* One note exists from the start and can be edited or deleted; any number *)
(* of new ones can be added.  A text is what the composer's box holds.     *)
(***************************************************************************)
EXTENDS Integers, FiniteSets, FiniteSetsExt

CONSTANTS Tabs,
          Texts,     \* what a reviewer types
          Original,  \* the body of the note that exists
          MaxActs,   \* bound: what the reviewers do
          MaxLoss    \* bound: requests or answers lost

None == "none"
Empty == ""
Slots == {"new", "edit"}
Contents == Texts \cup {Empty, Original}

ASSUME DraftsAssumption ==
    /\ IsFiniteSet(Tabs)
    /\ Texts \cap {None, Empty, Original} = {}
    /\ {MaxActs, MaxLoss} \subseteq Nat

VARIABLES
    draft,   \* slot -> the body of the stored draft
    tomb,    \* slot -> its last applied token, 0 for none
    note,    \* the note that exists: there, gone
    acts,    \* what the reviewers did so far
    ui,      \* tab -> its composer and its autosave
    wire,    \* requests on their way
    replies, \* answers on their way back
    losses,  \* requests and answers lost so far
    want,    \* history: the slot and text a reviewer last left in a tab, if nothing else
             \* was under way then and nothing has interfered since
    risen    \* history: a draft came back that its page had cleared

store == <<draft, tomb, note>>
vars == <<store, acts, ui, wire, replies, losses, want, risen>>

NoTimer == [slot |-> None, body |-> Empty]
Unknown == NoTimer

(* The composer of a page that was just loaded.                            *)
Fresh(sess) ==
    [seq |-> 0, slot |-> None, open |-> None, box |-> Empty, timer |-> NoTimer,
     ctl |-> 0, mirror |-> Empty, sess |-> sess]

Load(t, sess) ==
    [kind |-> "load", tab |-> t, sess |-> sess, no |-> 0, slot |-> None,
     body |-> Empty, retry |-> FALSE, cut |-> FALSE, late |-> FALSE]

Init ==
    /\ draft = [s \in Slots |-> Empty]
    /\ tomb = [s \in Slots |-> 0]
    /\ note = "there"
    /\ acts = 0
    /\ ui = [t \in Tabs |-> Fresh(1)]
    /\ wire = {}
    /\ replies = {}
    /\ losses = 0
    /\ want = [t \in Tabs |-> Unknown]
    /\ risen = FALSE

(***************************************************************************)
(* What a handler of the page does to its tab                              *)
(***************************************************************************)
(* An aborted request may arrive, or never; its answer reaches nobody.     *)
Owned(t, m) == m.tab = t /\ m.sess = ui[t].sess
InFlight(t, m) == Owned(t, m) /\ m.kind = "save" /\ m.no = ui[t].ctl
Aborted(t) == {IF InFlight(t, m) THEN [m EXCEPT !.cut = TRUE] ELSE m : m \in wire}
Unanswered(t) == {r \in replies : ~InFlight(t, r)}

(* cancelDraftSave: no timer, and the autosave in flight is aborted.       *)
Cancelled(u) == [u EXCEPT !.timer = NoTimer, !.ctl = 0]

Request(t, u, kind, slot, body, retry) ==
    [kind |-> kind, tab |-> t, sess |-> u.sess, no |-> u.seq + 1, slot |-> slot,
     body |-> body, retry |-> retry, cut |-> FALSE, late |-> FALSE]

(* Every draft write takes the next token, at the time it is sent.         *)
Persisting(u) == [u EXCEPT !.seq = @ + 1, !.ctl = u.seq + 1]
Save(t, u, slot, body, retry) == Request(t, u, "save", slot, body, retry)
Clear(t, u, slot) == Request(t, u, "clear", slot, Empty, FALSE)

(* closeComposer: keep the draft of an armed slot.                         *)
Closed(u) ==
    LET c == IF u.slot = None THEN Cancelled(u) ELSE Persisting(Cancelled(u))
    IN [c EXCEPT !.open = None, !.slot = None, !.box = Empty]
ClosingSave(t, u) ==
    IF u.slot = None THEN {} ELSE {Save(t, u, u.slot, u.box, FALSE)}

(* The page's tab becomes u and sends some requests.                       *)
Become(t, u, sent) ==
    /\ ui' = [ui EXCEPT ![t] = u]
    /\ wire' = wire \cup sent
    /\ UNCHANGED replies

(* The same, where the handler has called cancelDraftSave first.           *)
BecomeCancelled(t, u, sent) ==
    /\ ui' = [ui EXCEPT ![t] = u]
    /\ wire' = Aborted(t) \cup sent
    /\ replies' = Unanswered(t)

(* What a reviewer does in one tab may overrule what another tab holds.    *)
Acts(t, left) ==
    /\ acts < MaxActs
    /\ acts' = acts + 1
    /\ want' = [x \in Tabs |-> IF x = t THEN left ELSE Unknown]
Forget(t) == want' = [want EXCEPT ![t] = Unknown]

Left(t, text) ==
    IF /\ \A m \in wire \cup replies : Owned(t, m)
       /\ \A x \in Tabs \ {t} : ui[x].timer = NoTimer
    THEN [slot |-> ui[t].slot, body |-> text] ELSE Unknown

(***************************************************************************)
(* The reviewer                                                            *)
(***************************************************************************)
OpenNew(t) ==
    /\ ui[t].open = None
    /\ Become(t, [ui[t] EXCEPT !.open = "new", !.slot = "new", !.box = Empty], {})
    /\ Acts(t, Unknown)
    /\ UNCHANGED <<store, losses, risen>>

(* A draft in the page's mirror wins over the note's body.                 *)
EditBox(u) == IF u.mirror # Empty THEN u.mirror ELSE Original

OpenEdit(t) ==
    /\ ui[t].open = None
    /\ note = "there"
    /\ Become(t, [ui[t] EXCEPT !.open = "edit", !.slot = "edit", !.box = EditBox(ui[t])], {})
    /\ Acts(t, Unknown)
    /\ UNCHANGED <<store, losses, risen>>

(* scheduleDraftSave: an emptied box is saved at once, the rest debounced. *)
Type(t, text) ==
    /\ ui[t].open # None
    /\ ui[t].box # text
    /\ LET u == [Cancelled(ui[t]) EXCEPT !.box = text]
       IN IF ui[t].slot = None
          THEN /\ Become(t, [ui[t] EXCEPT !.box = text], {})
               /\ Acts(t, Unknown)
          ELSE /\ IF text = Empty
                  THEN BecomeCancelled(t, Persisting(u), {Save(t, u, u.slot, text, FALSE)})
                  ELSE BecomeCancelled(t, [u EXCEPT !.timer = [slot |-> u.slot, body |-> text]], {})
               /\ Acts(t, Left(t, text))
    /\ UNCHANGED <<store, losses, risen>>

TimerFires(t) ==
    /\ ui[t].timer # NoTimer
    /\ LET u == [ui[t] EXCEPT !.timer = NoTimer]
       IN Become(t, Persisting(u), {Save(t, u, ui[t].timer.slot, ui[t].timer.body, FALSE)})
    /\ UNCHANGED <<store, acts, losses, risen, want>>

(* Cancel, Escape or a click beside the composer.                          *)
Close(t) ==
    /\ ui[t].open # None
    /\ BecomeCancelled(t, Closed(ui[t]), ClosingSave(t, ui[t]))
    /\ Acts(t, IF ui[t].slot = None THEN Unknown ELSE Left(t, ui[t].box))
    /\ UNCHANGED <<store, losses, risen>>

(* submitComposer disarms the slot and posts; nothing stops a second one.  *)
Submit(t) ==
    /\ ui[t].open # None
    /\ ui[t].box # Empty
    /\ LET u == [Cancelled(ui[t]) EXCEPT !.slot = None]
           kind == IF u.open = "new" THEN "create" ELSE "change"
       IN BecomeCancelled(t, u,
             {[Request(t, u, kind, u.open, u.box, FALSE) EXCEPT !.no = acts]})
    /\ Acts(t, Unknown)
    /\ UNCHANGED <<store, losses, risen>>

(* The list of notes is behind the composer.                               *)
DeleteNote(t) ==
    /\ ui[t].open = None
    /\ note = "there"
    /\ Become(t, ui[t], {[Request(t, ui[t], "delete", "edit", Empty, FALSE) EXCEPT !.no = 0]})
    /\ Acts(t, Unknown)
    /\ UNCHANGED <<store, losses, risen>>

(* The page is loaded again; what it sent may still arrive.                *)
Reload(t) ==
    /\ LET sess == ui[t].sess + 1
       IN /\ ui' = [ui EXCEPT ![t] = Fresh(sess)]
          /\ wire' = {IF m.tab = t THEN [m EXCEPT !.cut = TRUE] ELSE m : m \in wire}
                     \cup {Load(t, sess)}
          /\ replies' = {r \in replies : r.tab # t}
    /\ Acts(t, Unknown)
    /\ UNCHANGED <<store, losses, risen>>

(***************************************************************************)
(* The server: one request at a time has the store's lock                  *)
(***************************************************************************)
HighestToken == Max({tomb[s] : s \in Slots})

Answer(m, ok, stale, body, seed) ==
    [kind |-> m.kind, tab |-> m.tab, sess |-> m.sess, no |-> m.no, slot |-> m.slot,
     body |-> body, retry |-> m.retry, ok |-> ok, stale |-> stale, seed |-> seed,
     sent |-> m.body]

(* Nobody waits for the answer of an aborted request.                      *)
Respond(m, left, r) ==
    /\ wire' = (wire \ {m}) \cup left
    /\ replies' = IF m.cut THEN replies ELSE replies \cup r

(* _is_stale_token                                                         *)
StaleToken(slot, token) == token <= tomb[slot]

(* Mutant: only a write that leaves a draft leaves a token.                *)
MutApply(m) ==
    /\ draft' = [draft EXCEPT ![m.slot] = m.body]
    /\ tomb' = IF m.body = Empty THEN tomb ELSE [tomb EXCEPT ![m.slot] = m.no]

(* _apply_draft_write, an empty body leaves none; the token outlives it.   *)
Apply(m) ==
    /\ draft' = [draft EXCEPT ![m.slot] = m.body]
    /\ tomb' = [tomb EXCEPT ![m.slot] = m.no]

(* History: a clear makes late whatever its page sent before it.           *)
Outruns(m, x) ==
    /\ m.body = Empty /\ x.kind = "save"
    /\ <<x.slot, x.tab, x.sess>> = <<m.slot, m.tab, m.sess>>
    /\ x.no < m.no

(* save_draft_result, and the header with the highest token of all slots   *)
(* (read in a critical section of its own, where it can only be higher).   *)
ServeDraft(m) ==
    /\ m.kind \in {"save", "clear"}
    /\ LET stale == StaleToken(m.slot, m.no)
       IN /\ IF stale THEN UNCHANGED <<draft, tomb, risen>>
             ELSE Apply(m) /\ risen' = (risen \/ m.late)
          /\ wire' = {IF ~stale /\ Outruns(m, x) THEN [x EXCEPT !.late = TRUE] ELSE x :
                         x \in wire \ {m}}
          /\ replies' = IF m.cut THEN replies
                        ELSE replies \cup {Answer(m, TRUE, stale, draft'[m.slot],
                                                  Max({tomb'[s] : s \in Slots}))}
    /\ UNCHANGED <<note, acts, ui, losses, want>>

(* The note is added or changed in one critical section ...                *)
ServePost(m) ==
    /\ m.kind \in {"create", "change"}
    /\ IF m.kind = "change" /\ note = "gone"
       THEN Respond(m, {}, {Answer(m, FALSE, FALSE, Empty, 0)})
       ELSE /\ wire' = (wire \ {m}) \cup {[m EXCEPT !.kind = IF @ = "create" THEN "created" ELSE "changed"]}
            /\ UNCHANGED replies
    /\ UNCHANGED <<store, acts, ui, losses, risen, want>>

(* ... and its draft is dropped in a second one; the token stays.          *)
ServePosted(m) ==
    /\ m.kind \in {"created", "changed"}
    /\ draft' = [draft EXCEPT ![m.slot] = Empty]
    /\ Respond(m, {}, {Answer(m, TRUE, FALSE, Empty, 0)})
    /\ UNCHANGED <<tomb, note, acts, ui, losses, risen, want>>

(* delete_comment drops the draft of the note and its token with it.       *)
ServeDelete(m) ==
    /\ m.kind = "delete"
    /\ IF note = "gone" THEN UNCHANGED store
       ELSE /\ note' = "gone"
            /\ draft' = [draft EXCEPT !["edit"] = Empty]
            /\ tomb' = [tomb EXCEPT !["edit"] = 0]
    /\ wire' = {IF x.slot = "edit" THEN [x EXCEPT !.late = FALSE] ELSE x :
                x \in wire \ {m}}
    /\ UNCHANGED <<acts, ui, replies, losses, risen, want>>

(* The drafts, and the seed; which of two is the newer one is left open.   *)
ServeLoad(m) ==
    /\ m.kind = "load"
    /\ \E s \in Slots :
          /\ draft[s] # Empty \/ \A x \in Slots : draft[x] = Empty
          /\ Respond(m, {}, {[Answer(m, TRUE, FALSE, draft["edit"], HighestToken)
                                EXCEPT !.slot = s, !.sent = draft[s]]})
    /\ UNCHANGED <<store, acts, ui, losses, risen, want>>

(***************************************************************************)
(* The network                                                             *)
(***************************************************************************)
Failed(m) ==
    [kind |-> IF m.kind = "created" THEN "create"
              ELSE IF m.kind = "changed" THEN "change" ELSE m.kind,
     tab |-> m.tab, sess |-> m.sess, no |-> m.no, slot |-> m.slot, body |-> Empty,
     retry |-> m.retry, ok |-> FALSE, stale |-> FALSE, seed |-> 0, sent |-> Empty]

(* The request, or its answer, is lost and the page sees an error.         *)
Lose(m) ==
    /\ losses < MaxLoss
    /\ losses' = losses + 1
    /\ \/ /\ m \in wire /\ ~m.cut /\ m.kind \notin {"created", "changed", "delete"}
          /\ wire' = wire \ {m} /\ replies' = replies \cup {Failed(m)}
       \/ /\ m \in replies /\ m.ok
          /\ replies' = (replies \ {m}) \cup {Failed(m)} /\ UNCHANGED wire
    /\ Forget(m.tab)
    /\ UNCHANGED <<store, acts, ui, risen>>

(***************************************************************************)
(* The page gets an answer                                                 *)
(***************************************************************************)
(* Mutant: only the page load seeds the counter.                           *)
MutSeeded(u, seed) == u

(* seedDraftToken: raise the counter, never lower it.                      *)
Seeded(u, seed) == [u EXCEPT !.seq = IF seed > @ THEN seed ELSE @]

Handle(r, u, sent) ==
    /\ ui' = [ui EXCEPT ![r.tab] = u]
    /\ wire' = wire \cup sent
    /\ replies' = replies \ {r}

Mirrored(u, slot, body) == IF slot = "edit" THEN [u EXCEPT !.mirror = body] ELSE u

(* A stale autosave that is still the latest of its open slot goes again.  *)
SaveAnswered(r) ==
    /\ r.kind = "save"
    /\ LET t == r.tab
           u == Seeded([ui[t] EXCEPT !.ctl = IF @ = r.no THEN 0 ELSE @], r.seed)
       IN IF r.ok /\ r.stale /\ ~r.retry /\ u.ctl = 0 /\ u.slot = r.slot
          THEN Handle(r, Persisting(u), {Save(t, u, r.slot, r.sent, TRUE)})
          ELSE Handle(r, IF r.ok THEN Mirrored(u, r.slot, r.body) ELSE u, {})
    /\ UNCHANGED <<store, acts, losses, risen, want>>

ClearAnswered(r) ==
    /\ r.kind = "clear"
    /\ Handle(r, Mirrored(Seeded(ui[r.tab], r.seed), r.slot, Empty), {})
    /\ UNCHANGED <<store, acts, losses, risen, want>>

(* The list of notes, loaded after the clear, does not come: the page takes *)
(* it for a post that failed, though the note is saved.                     *)
ListFails(r) ==
    /\ r.kind = "clear" /\ losses < MaxLoss
    /\ losses' = losses + 1
    /\ Handle(r, [Mirrored(Seeded(ui[r.tab], r.seed), r.slot, Empty) EXCEPT !.slot = r.slot], {})
    /\ Forget(r.tab)
    /\ UNCHANGED <<store, acts, risen>>

(* The note is saved: close whatever composer is open now, and clear.      *)
PostSucceeded(r) ==
    /\ r.kind \in {"created", "changed"}
    /\ LET t == r.tab
           u == Closed(ui[t])
       IN /\ ui' = [ui EXCEPT ![t] = [u EXCEPT !.seq = @ + 1]]
          /\ wire' = Aborted(t) \cup ClosingSave(t, ui[t]) \cup {Clear(t, u, r.slot)}
          /\ replies' = Unanswered(t) \ {r}
          /\ IF ui[t].open = None THEN UNCHANGED want ELSE Forget(t)
    /\ UNCHANGED <<store, acts, losses, risen>>

(* It is not: autosave is armed again on the slot of the failed note.      *)
PostFailed(r) ==
    /\ r.kind \in {"create", "change"}
    /\ Handle(r, [ui[r.tab] EXCEPT !.slot = r.slot], {})
    /\ Forget(r.tab)
    /\ UNCHANGED <<store, acts, losses, risen>>

(* restoreDraftOnLoad: the newest draft opens the composer, unless one is  *)
(* open; a draft of a note that is gone opens nothing.                     *)
Loaded(r) ==
    /\ r.kind = "load"
    /\ LET u == [Seeded(ui[r.tab], r.seed) EXCEPT !.mirror = r.body]
           opens == /\ r.ok /\ r.sent # Empty /\ u.open = None
                    /\ r.slot = "edit" => note = "there"
       IN Handle(r, IF opens THEN [u EXCEPT !.open = r.slot, !.slot = r.slot, !.box = r.sent]
                    ELSE u, {})
    /\ want' = IF ui'[r.tab].open = ui[r.tab].open THEN want
               ELSE [want EXCEPT ![r.tab] = Unknown]
    /\ UNCHANGED <<store, acts, losses, risen>>

Next ==
    \/ \E t \in Tabs : \/ OpenNew(t) \/ OpenEdit(t) \/ TimerFires(t) \/ Close(t)
                        \/ Submit(t) \/ DeleteNote(t) \/ Reload(t)
                        \/ \E text \in Texts \cup {Empty} : Type(t, text)
    \/ \E m \in wire : \/ ServeDraft(m) \/ ServePost(m) \/ ServePosted(m)
                        \/ ServeDelete(m) \/ ServeLoad(m)
    \/ \E m \in wire \cup replies : Lose(m)
    \/ \E r \in replies : \/ SaveAnswered(r) \/ ClearAnswered(r) \/ ListFails(r)
                           \/ PostSucceeded(r) \/ PostFailed(r) \/ Loaded(r)

Spec == Init /\ [][Next]_vars

(***************************************************************************)
(* Properties                                                              *)
(***************************************************************************)
(* Every variable keeps its type.                                          *)
DTypeOK ==
    /\ draft \in [Slots -> Contents]
    /\ tomb \in [Slots -> Nat]
    /\ note \in {"there", "gone"}
    /\ acts \in 0..MaxActs
    /\ ui \in [Tabs -> [seq: Nat, slot: Slots \cup {None}, open: Slots \cup {None},
                        box: Contents, timer: [slot: Slots \cup {None}, body: Contents],
                        ctl: Nat, mirror: Contents, sess: Nat]]
    /\ \A t \in Tabs : ui[t].ctl <= ui[t].seq
    /\ losses \in 0..MaxLoss
    /\ want \in [Tabs -> [slot: Slots \cup {None}, body: Contents]]

(* store.py and clearDraftOnServer: once the server has applied a clear of *)
(* a slot, no autosave that page had sent before it is stored there,       *)
(* whatever overtook what, as long as the slot's note exists.              *)
ClearedStaysCleared == ~risen

AtRest(t) ==
    /\ ui[t].timer = NoTimer
    /\ \A m \in wire \cup replies : Owned(t, m) => m \in wire /\ m.cut

Held(t) ==
    want[t] # Unknown /\ AtRest(t) /\ (want[t].slot = "edit" => note = "there")
    => draft[want[t].slot] = want[t].body

(* persistDraft and its retry: a text typed in a composer that stays open  *)
(* is what the server holds once the tab is at rest, if no one else was    *)
(* busy and nothing of it was lost: also for a tab whose counter was far   *)
(* behind the server's, and with requests it aborted still under way.      *)
LatestTextIsSaved == \A t \in Tabs : ui[t].open # None => Held(t)
=============================================================================
