--------------------------- MODULE SpecReviewProofs ---------------------------
(***************************************************************************)
(* What TLAPS proves about SpecReview for any number of notes, submits,    *)
(* answers and requests.  A critical section writes what it read a while   *)
(* ago; what makes it safe is that nobody else holds the two locks, so the *)
(* thread it read is still the thread in the file.                         *)
(***************************************************************************)
EXTENDS SpecReview, TLAPS

Sections == [data: Files, drops: SUBSET Notes, by: Submits \cup {None}]

ThreadTypes ==
    /\ store \in Files /\ Live(store) \subseteq used /\ used \subseteq Notes
    /\ guard \in [Processes -> {None} \cup Sections]
    /\ \A p \in Processes : guard[p] # None => Live(guard[p].data) \subseteq used
    /\ requests \in 0..MaxRequests

HandlerTypes ==
    /\ page \in [Notes -> Open \cup {None}]
    /\ serving \in BOOLEAN /\ clock \in Batches
    /\ submit \in [Submits -> {"idle", "stamped", "written", "done"}]
    /\ snapshot \in [Submits -> {None} \cup Payloads]
    /\ queue \in Seq(Payloads)

WatchTypes ==
    /\ handoff \in [kind: {"foreground", "daemon"}, once: BOOLEAN]
    /\ watcher \in [pc: {"off", "asleep", "current", "emit", "ended"},
                    seen: Batches, current: Batches]
    /\ prints \subseteq Submits /\ told \subseteq Notes \X Batches
    /\ flips \in [Submits -> [notes: SUBSET Notes, watched: BOOLEAN]]

\* What a section will write has every note of the file, but those it drops.
Kept(data, drops) ==
    \A n \in Live(store) \ drops :
        n \in Live(data) /\ data.notes[n].replies >= store.notes[n].replies

\* The critical sections: a submit is still at the lock, and where the filesystem
\* grants locks there is one section, and it has read what the file holds.
GuardInv ==
    \A p \in Processes : guard[p] # None =>
        /\ p = "server" => serving
        /\ guard[p].by # None => p = "server" /\ submit[guard[p].by] = "stamped"
        /\ FlockWorks => /\ \A q \in Processes \ {p} : guard[q] = None
                         /\ Kept(guard[p].data, guard[p].drops)

\* The notes a review says are of its own batch.
Own(review) == {n \in Notes : <<n, review.label>> \in review.notes}

\* A handler that has written holds the review of its own batch.
SnapshotInv ==
    \A s \in Submits : submit[s] = "written" =>
        /\ serving /\ snapshot[s] \in Payloads
        /\ snapshot[s].label = s /\ Own(snapshot[s]) = flips[s].notes

\* The queue holds reviews of handlers that are done, none of them twice.
QueueInv ==
    \A i \in 1..Len(queue) :
        /\ submit[queue[i].label] = "done" /\ queue[i].label \notin prints
        /\ Own(queue[i]) = flips[queue[i].label].notes
        /\ \A j \in 1..(i - 1) : queue[j].label # queue[i].label

\* Only a foreground has a queue, and it ends with its first print if it ends on submit.
PrintInv ==
    /\ queue # << >> => serving /\ handoff.kind = "foreground"
    /\ prints # {} => handoff.kind = "foreground"
    /\ \A s \in prints : submit[s] = "done"
    /\ handoff.once => /\ prints # {} => ~serving
                       /\ \A a, b \in prints : a = b

HandoffInv == SnapshotInv /\ QueueInv /\ PrintInv
ReviewInv == ThreadTypes /\ HandlerTypes /\ WatchTypes /\ GuardInv /\ HandoffInv

-----------------------------------------------------------------------------
(* Operators. *)

LEMMA EmptyIsFile == Empty \in Files /\ Live(Empty) = {}
BY ReviewAssumption DEF Empty, Files, Live, Batches

\* A note of the thread is a note.
LEMMA LiveIsNote ==
    ASSUME NEW data \in Files, NEW n \in Live(data)
    PROVE  n \in Notes /\ data.notes[n] \in Note
BY DEF Files, Live

\* Setting a note changes no other.
LEMMA SetNoteIsFile ==
    ASSUME NEW data \in Files, NEW n \in Notes, NEW note \in Note \cup {None}
    PROVE  /\ SetNote(data, n, note) \in Files
           /\ Live(SetNote(data, n, note)) \subseteq Live(data) \cup {n}
           /\ SetNote(data, n, note).notes[n] = note
           /\ \A m \in Notes \ {n} : SetNote(data, n, note).notes[m] = data.notes[m]
BY DEF SetNote, Files, Live

LEMMA NewIsNote == ASSUME NEW status \in Open PROVE New(status) \in Note /\ New(status) # None
<1>1. New(status) \in Note
  BY ReviewAssumption DEF New, Note, Batches
<1> QED
  BY <1>1, NoneAssumption

\* A submit moves notes to its batch and takes none away.
LEMMA FlippedIsFile ==
    ASSUME NEW data \in Files, NEW s \in Submits
    PROVE  /\ Flipped(data, s) \in Files
           /\ Live(Flipped(data, s)) = Live(data)
           /\ \A n \in Live(data) : Flipped(data, s).notes[n].replies = data.notes[n].replies
<1>1. s \in Batches
  BY ReviewAssumption DEF Submits, Batches
<1>2. \A n \in Pending(data) :
         /\ data.notes[n] \in Note
         /\ [data.notes[n] EXCEPT !.status = "submitted", !.batch = s] \in Note
         /\ [data.notes[n] EXCEPT !.status = "submitted", !.batch = s].replies
               = data.notes[n].replies
  <2> SUFFICES ASSUME NEW n \in Pending(data)
               PROVE  /\ data.notes[n] \in Note
                      /\ [data.notes[n] EXCEPT !.status = "submitted", !.batch = s] \in Note
                      /\ [data.notes[n] EXCEPT !.status = "submitted", !.batch = s].replies
                            = data.notes[n].replies
    OBVIOUS
  <2>1. data.notes[n] \in Note
    BY LiveIsNote DEF Pending
  <2> QED
    BY <2>1, <1>1 DEF Note, Open
<1>3. Flipped(data, s) \in Files
  BY <1>1, <1>2 DEF Flipped, Files
<1>4. \A n \in Notes : Flipped(data, s).notes[n] # None <=> data.notes[n] # None
  BY <1>2, NoneAssumption DEF Flipped, Pending, Live
<1> QED
  BY <1>2, <1>3, <1>4 DEF Flipped, Live

\* The payload of a thread is a set of its notes with their batches.
LEMMA PayloadIsPayload ==
    ASSUME NEW data \in Files, NEW b \in Batches
    PROVE  /\ Payload(data, b).notes \subseteq Notes \X Batches
           /\ Payload(data, b).label = b
           /\ b \in Submits => Payload(data, b) \in Payloads
           /\ Own(Payload(data, b)) = InBatch(data, b)
<1>1. \A n \in Live(data) : n \in Notes /\ data.notes[n].batch \in Batches
  BY LiveIsNote DEF Note
<1> QED
  BY <1>1 DEF Payload, Payloads, Own, InBatch, Live

LEMMA QueueHoldsPayloads ==
    ASSUME HandlerTypes, NEW i \in 1..Len(queue)
    PROVE  queue[i] \in Payloads /\ queue[i].label \in Submits
<1>1. queue[i] \in Payloads
  BY DEF HandlerTypes
<1> QED
  BY <1>1 DEF Payloads

LEMMA InitEstablishesReviewInv == Init => ReviewInv
<1> SUFFICES ASSUME Init PROVE ReviewInv
  OBVIOUS
<1> USE DEF Init
<1>1. ThreadTypes
  BY EmptyIsFile, ReviewAssumption DEF ThreadTypes, Sections, Processes
<1>2. HandlerTypes
  BY ReviewAssumption DEF HandlerTypes, Batches
<1>3. WatchTypes
  BY ReviewAssumption DEF WatchTypes, Batches
<1>4. GuardInv /\ HandoffInv
  BY DEF GuardInv, HandoffInv, SnapshotInv, QueueInv, PrintInv
<1> QED
  BY <1>1, <1>2, <1>3, <1>4 DEF ReviewInv

-----------------------------------------------------------------------------
(* Requests: taking the locks and reading the file. *)

\* What a section must intend for the invariant to hold with it.
Sound(p, data, drops, by) ==
    /\ data \in Files /\ drops \subseteq Notes /\ by \in Submits \cup {None}
    /\ Live(data) \subseteq used' /\ used \subseteq used' /\ used' \subseteq Notes
    /\ by # None => p = "server" /\ submit[by] = "stamped"
    /\ Kept(data, drops)

LEMMA LoadKeepsInv ==
    ASSUME ReviewInv, NEW p \in Processes, NEW data, NEW drops, NEW by,
           Load(p, data, drops, by), Sound(p, data, drops, by)
    PROVE  ReviewInv'
<1> USE DEF ReviewInv, Load, Sound
<1> DEFINE section == [data |-> data, drops |-> drops, by |-> by]
<1>1. guard' = [guard EXCEPT ![p] = section] /\ section \in Sections
  BY DEF Sections
<1>2. guard \in [Processes -> {None} \cup Sections] /\ store' = store
  BY DEF ThreadTypes
<1>3. guard'[p] = section /\ \A q \in Processes \ {p} : guard'[q] = guard[q]
  BY <1>1, <1>2
<1>4. ThreadTypes'
  <2>1. guard' \in [Processes -> {None} \cup Sections]
    BY <1>1, <1>2
  <2>2. requests' \in 0..MaxRequests
    BY ReviewAssumption DEF ThreadTypes
  <2>3. store' \in Files /\ Live(store') \subseteq used' /\ used' \subseteq Notes
    BY <1>2 DEF ThreadTypes
  <2>4. \A q \in Processes : guard'[q] # None => Live(guard'[q].data) \subseteq used'
    BY <1>3 DEF ThreadTypes
  <2> QED
    BY <2>1, <2>2, <2>3, <2>4 DEF ThreadTypes, Live
<1>5. HandlerTypes' /\ WatchTypes'
  BY DEF HandlerTypes, WatchTypes, handlers, watching
<1>6. GuardInv'
  <2>1. submit' = submit
    BY DEF handlers
  <2>2. FlockWorks => \A q \in Processes : guard[q] = None
    BY DEF Free
  <2>3. Kept(data, drops)' <=> Kept(data, drops)
    BY <1>2 DEF Kept, Live
  <2> QED
    BY <1>2, <1>3, <2>1, <2>2, <2>3 DEF GuardInv, Kept, Live, handlers
<1>7. HandoffInv'
  BY DEF HandoffInv, SnapshotInv, QueueInv, PrintInv, Own, handlers, watching
<1> QED
  BY <1>4, <1>5, <1>6, <1>7

\* Writing one note over what the file holds keeps all the others.
LEMMA SetNoteIsSound ==
    ASSUME ReviewInv, NEW p \in Processes, NEW n \in Notes, NEW note \in Note \cup {None},
           NEW drops \in SUBSET Notes,
           n \in Live(store) \ drops => note # None /\ note.replies >= store.notes[n].replies,
           used' = used \cup (IF note = None THEN {} ELSE {n})
    PROVE  Sound(p, SetNote(store, n, note), drops, None)
<1>1. store \in Files /\ Live(store) \subseteq used /\ used \subseteq Notes
  BY DEF ReviewInv, ThreadTypes
<1>2. Live(SetNote(store, n, note)) \subseteq used'
  BY <1>1, SetNoteIsFile DEF Live
<1>3. \A m \in Live(store) : store.notes[m].replies \in Nat
  BY <1>1, LiveIsNote, ReviewAssumption DEF Note
<1>4. Kept(SetNote(store, n, note), drops)
  BY <1>1, <1>3, SetNoteIsFile DEF Kept, Live
<1> QED
  BY <1>1, <1>2, <1>4, SetNoteIsFile DEF Sound

\* A request that changes one note of the file, and takes no answer away.
LEMMA ChangeKeepsInv ==
    ASSUME ReviewInv, NEW p \in Processes, NEW n \in Notes, NEW note \in Note,
           note.replies >= store.notes[n].replies, Change(p, n, note)
    PROVE  ReviewInv'
<1>1. n \in Live(store) /\ used' = used /\ Live(store) \subseteq used /\ note # None
  BY NoneAssumption DEF Change, ReviewInv, ThreadTypes
<1>2. Sound(p, SetNote(store, n, note), {}, None)
  BY <1>1, SetNoteIsSound
<1> QED
  BY <1>2, LoadKeepsInv DEF Change

LEMMA NoteRequestKeepsInv ==
    ASSUME ReviewInv, NEW n \in Notes,
           AddNote(n) \/ EditNote(n) \/ Resolve(n) \/ Reopen(n) \/ DeleteNote(n)
              \/ \E p \in Processes : Reply(p, n)
    PROVE  ReviewInv'
<1>1. /\ store \in Files /\ Live(store) \subseteq used
      /\ page \in [Notes -> Open \cup {None}] /\ "server" \in Processes
  BY DEF ReviewInv, ThreadTypes, HandlerTypes, Processes
<1>2. n \in Live(store) => store.notes[n] \in Note /\ store.notes[n].replies \in Nat
  BY <1>1, LiveIsNote, ReviewAssumption DEF Note
<1>3. CASE AddNote(n)
  <2>1. New("pending") \in Note /\ New("pending") # None
    BY NewIsNote DEF Open
  <2>2. n \notin Live(store) /\ used' = used \cup {n}
    BY <1>1, <1>3 DEF AddNote
  <2>3. Sound("server", SetNote(store, n, New("pending")), {}, None)
    BY <1>1, <2>1, <2>2, SetNoteIsSound
  <2> QED
    BY <1>1, <1>3, <2>3, LoadKeepsInv DEF AddNote
<1>4. CASE EditNote(n)
  BY <1>1, <1>2, <1>4, ChangeKeepsInv DEF EditNote, Change
<1>5. CASE Resolve(n)
  <2> DEFINE note == [store.notes[n] EXCEPT !.status = "resolved"]
  <2>1. note \in Note /\ note.replies = store.notes[n].replies
    BY <1>2, <1>5 DEF Resolve, Note
  <2>2. note.replies >= store.notes[n].replies /\ Change("server", n, note)
    BY <1>2, <1>5, <2>1 DEF Resolve
  <2> HIDE DEF note
  <2> QED
    BY <1>1, <2>1, <2>2, ChangeKeepsInv
<1>6. CASE Reopen(n)
  <2> DEFINE note == [store.notes[n] EXCEPT !.status = page[n]]
  <2>1. page[n] \in Open
    BY <1>1, <1>6 DEF Reopen
  <2>2. note \in Note /\ note.replies = store.notes[n].replies
    BY <1>2, <1>6, <2>1 DEF Reopen, Note
  <2>3. note.replies >= store.notes[n].replies /\ Change("server", n, note)
    BY <1>2, <1>6, <2>2 DEF Reopen
  <2> HIDE DEF note
  <2> QED
    BY <1>1, <2>2, <2>3, ChangeKeepsInv
<1>7. CASE DeleteNote(n)
  <2>1. Sound("server", SetNote(store, n, None), {n}, None)
    BY <1>1, <1>7, SetNoteIsSound DEF DeleteNote
  <2> QED
    BY <1>1, <1>7, <2>1, LoadKeepsInv DEF DeleteNote
<1>8. CASE \E p \in Processes : Reply(p, n)
  <2> PICK p \in Processes : Reply(p, n)
    BY <1>8
  <2>1. n \in Live(store) /\ store.notes[n].replies < MaxReplies
    BY DEF Reply
  <2>2. Replied(store.notes[n]) \in Note
    <3> DEFINE note == store.notes[n]
    <3>1. note \in Note /\ note.replies + 1 \in 0..MaxReplies
      BY <1>2, <2>1, ReviewAssumption DEF Note
    <3>2. (IF note.status = "submitted" THEN "answered" ELSE note.status) \in Open \cup {"resolved"}
      BY <3>1 DEF Note, Open
    <3> QED
      BY <3>1, <3>2 DEF Replied, Note
  <2>3. Replied(store.notes[n]).replies = store.notes[n].replies + 1
    BY <1>2, <2>1 DEF Replied, Note
  <2>4. Replied(store.notes[n]).replies >= store.notes[n].replies
    BY <1>2, <2>1, <2>3
  <2> QED
    BY <2>2, <2>4, ChangeKeepsInv DEF Reply
<1> QED
  BY <1>3, <1>4, <1>5, <1>6, <1>7, <1>8

LEMMA ImportKeepsInv ==
    ASSUME ReviewInv, NEW p \in Processes, NEW n \in Notes,
           NEW status \in {"pending", "submitted"}, NEW wipe \in BOOLEAN,
           Import(p, n, status, wipe)
    PROVE  ReviewInv'
<1>1. /\ store \in Files /\ Live(store) \subseteq used /\ used \subseteq Notes
      /\ n \notin used /\ used' = used \cup {n}
  BY DEF Import, ReviewInv, ThreadTypes
<1>2. New(status) \in Note /\ New(status) # None
  BY NewIsNote DEF Open
<1>3. CASE wipe
  <2>1. SetNote(Empty, n, New(status)) \in Files /\ Live(SetNote(Empty, n, New(status))) \subseteq {n}
    BY <1>2, EmptyIsFile, SetNoteIsFile
  <2>2. Live(store) \subseteq Notes
    BY DEF Live
  <2>3. Sound(p, SetNote(Empty, n, New(status)), Live(store), None)
    BY <1>1, <2>1, <2>2 DEF Sound, Kept
  <2> QED
    BY <1>3, <2>3, LoadKeepsInv DEF Import, Imported
<1>4. CASE ~wipe
  <2>1. Sound(p, SetNote(store, n, New(status)), {}, None)
    BY <1>1, <1>2, SetNoteIsSound
  <2> QED
    BY <1>4, <2>1, LoadKeepsInv DEF Import, Imported
<1> QED
  BY <1>3, <1>4

LEMMA EnterSubmitKeepsInv ==
    ASSUME ReviewInv, NEW s \in Submits, EnterSubmit(s)
    PROVE  ReviewInv'
<1>1. store \in Files /\ Live(store) \subseteq used /\ used \subseteq Notes /\ used' = used
  BY DEF EnterSubmit, ReviewInv, ThreadTypes
<1>2. \A n \in Live(store) : store.notes[n].replies \in Nat
  BY <1>1, LiveIsNote, ReviewAssumption DEF Note
<1>3. Kept(Flipped(store, s), {})
  BY <1>1, <1>2, FlippedIsFile DEF Kept
<1>4. Sound("server", Flipped(store, s), {}, s)
  BY <1>1, <1>3, FlippedIsFile DEF Sound, EnterSubmit
<1> QED
  BY <1>4, LoadKeepsInv DEF EnterSubmit, Processes

LEMMA RequestKeepsInv == ReviewInv /\ Request => ReviewInv'
BY NoteRequestKeepsInv, ImportKeepsInv, EnterSubmitKeepsInv DEF Request

-----------------------------------------------------------------------------
(* The end of a critical section. *)

LEMMA WriteKeepsInv ==
    ASSUME ReviewInv, NEW p \in Processes, Write(p)
    PROVE  ReviewInv'
<1> USE DEF ReviewInv
<1> DEFINE s == guard[p].by
<1>1. /\ guard[p] \in Sections /\ Live(guard[p].data) \subseteq used
      /\ guard[p].data \in Files /\ guard[p].by \in Submits \cup {None}
  BY DEF Write, ThreadTypes, Sections
<1>2. store' = guard[p].data /\ guard' = [guard EXCEPT ![p] = None]
  BY DEF Write
<1>3. guard'[p] = None /\ \A q \in Processes \ {p} : guard'[q] = guard[q]
  BY <1>2 DEF ThreadTypes
<1>4. ThreadTypes'
  BY <1>1, <1>2, <1>3 DEF ThreadTypes, Write, Live
<1>5. HandlerTypes' /\ WatchTypes' /\ SnapshotInv'
      /\ \A t \in Submits : submit[t] = "done" => submit'[t] = "done" /\ flips'[t] = flips[t]
  <2>1. CASE s = None
    <3>1. UNCHANGED <<submit, snapshot, flips>>
      BY <2>1 DEF Write
    <3>2. HandlerTypes' /\ WatchTypes'
      BY <3>1 DEF Write, HandlerTypes, WatchTypes, watching
    <3>3. SnapshotInv'
      BY <3>1 DEF Write, HandoffInv, SnapshotInv, Own
    <3> QED
      BY <3>1, <3>2, <3>3
  <2>2. CASE s # None
    <3> DEFINE review == Payload(store', s)
    <3>1. s \in Submits /\ submit[s] = "stamped" /\ p = "server" /\ serving
      BY <1>1, <2>2 DEF Write, GuardInv
    <3>2. /\ submit' = [submit EXCEPT ![s] = "written"]
          /\ snapshot' = [snapshot EXCEPT ![s] = review]
          /\ flips' = [flips EXCEPT ![s] = [notes |-> InBatch(store', s), watched |-> Watched]]
      BY <2>2 DEF Write
    <3>3. /\ review \in Payloads /\ review.label = s /\ Own(review) = InBatch(store', s)
          /\ InBatch(store', s) \subseteq Notes /\ Watched \in BOOLEAN
      <4>1. s \in Batches
        BY <3>1, ReviewAssumption DEF Submits, Batches
      <4> QED
        BY <1>1, <1>2, <3>1, <4>1, PayloadIsPayload DEF InBatch, Live, Watched
    <3> HIDE DEF s, review
    <3>4. HandlerTypes'
      BY <3>1, <3>2, <3>3 DEF Write, HandlerTypes
    <3>5. WatchTypes'
      BY <3>1, <3>2, <3>3 DEF Write, WatchTypes, watching
    <3>6. SnapshotInv'
      <4> SUFFICES ASSUME NEW t \in Submits, submit'[t] = "written"
                   PROVE  /\ serving' /\ snapshot'[t] \in Payloads
                          /\ snapshot'[t].label = t /\ Own(snapshot'[t]) = flips'[t].notes
        BY DEF SnapshotInv, Own
      <4>1. serving'
        BY <3>1 DEF Write
      <4>2. CASE t = s
        BY <4>1, <4>2, <3>1, <3>2, <3>3 DEF HandlerTypes, WatchTypes
      <4>3. CASE t # s
        <5>1. submit'[t] = submit[t] /\ snapshot'[t] = snapshot[t] /\ flips'[t] = flips[t]
          BY <4>3, <3>2 DEF HandlerTypes, WatchTypes
        <5> QED
          BY <5>1, <4>1 DEF HandoffInv, SnapshotInv
      <4> QED
        BY <4>2, <4>3
    <3>7. \A t \in Submits : submit[t] = "done" => submit'[t] = "done" /\ flips'[t] = flips[t]
      BY <3>1, <3>2 DEF HandlerTypes, WatchTypes
    <3> QED
      BY <3>4, <3>5, <3>6, <3>7
  <2> QED
    BY <2>1, <2>2
<1>6. GuardInv'
  <2>1. SUFFICES ASSUME NEW q \in Processes, guard'[q] # None
                 PROVE  /\ q = "server" => serving'
                        /\ guard[q].by # None => q = "server" /\ submit'[guard[q].by] = "stamped"
                        /\ ~FlockWorks
    BY <1>3 DEF GuardInv
  <2>2. q # p /\ guard[q] # None /\ guard[p] # None
    BY <1>3, <2>1 DEF Write
  <2>3. ~FlockWorks
    BY <2>2 DEF GuardInv
  <2>4. ASSUME guard[q].by # None PROVE q = "server" /\ submit'[guard[q].by] = "stamped"
    <3>1. q = "server" /\ submit[guard[q].by] = "stamped" /\ guard[p].by = None
      BY <2>2, <2>4 DEF GuardInv
    <3> QED
      BY <3>1 DEF Write
  <2> QED
    BY <2>2, <2>3, <2>4 DEF Write, GuardInv
<1>7. QueueInv' /\ PrintInv'
  <2>1. queue' = queue /\ prints' = prints /\ serving' = serving /\ handoff' = handoff
    BY DEF Write, watching
  <2>2. \A i \in 1..Len(queue) : queue[i].label \in Submits
    BY QueueHoldsPayloads
  <2>3. prints \subseteq Submits
    BY DEF WatchTypes
  <2> QED
    BY <1>5, <2>1, <2>2, <2>3 DEF HandoffInv, QueueInv, PrintInv, Own
<1> QED
  BY <1>4, <1>5, <1>6, <1>7 DEF HandoffInv

-----------------------------------------------------------------------------
(* Handlers, the server's process and the watch. *)

\* A step outside the critical sections.
LEMMA ThreadRests ==
    ASSUME ReviewInv, UNCHANGED <<store, used, requests>>,
           \A p \in Processes : guard'[p] \in {guard[p], None},
           guard' \in [Processes -> {None} \cup Sections],
           guard'["server"] # None => serving' = serving,
           \A p \in Processes, s \in Submits :
              guard'[p] # None /\ guard[p].by = s /\ submit[s] = "stamped"
                 => submit'[s] = "stamped"
    PROVE  ThreadTypes' /\ GuardInv'
<1>1. \A p \in Processes : guard'[p] # None =>
         /\ guard[p] # None /\ guard'[p] = guard[p]
         /\ guard[p].by \in Submits \cup {None}
  BY DEF ReviewInv, ThreadTypes, Sections
<1>2. ThreadTypes'
  BY <1>1 DEF ReviewInv, ThreadTypes, Live
<1>3. GuardInv'
  BY <1>1 DEF ReviewInv, GuardInv, Kept, Live
<1> QED
  BY <1>2, <1>3

LEMMA HandlerKeepsInv ==
    ASSUME ReviewInv, NEW s \in Submits, Press(s) \/ SubmitNothing(s) \/ Notify(s)
    PROVE  ReviewInv'
<1> USE DEF ReviewInv
<1>1. /\ UNCHANGED <<store, used, requests, guard>> /\ UNCHANGED <<page, serving, watching, flips>>
      /\ \A t \in Submits \ {s} : submit'[t] = submit[t]
      /\ submit[s] \in {"idle", "stamped", "written"}
      /\ submit'[s] \in {"stamped", "done"} /\ serving
      /\ submit' \in [Submits -> {"idle", "stamped", "written", "done"}]
  BY DEF Press, SubmitNothing, Notify, Advance, thread, HandlerTypes
<1>2. ASSUME NEW p \in Processes, NEW t \in Submits,
             guard[p] # None, guard[p].by = t, submit[t] = "stamped"
      PROVE  submit'[t] = "stamped"
  <2>1. p = "server"
    BY <1>2, NoneAssumption DEF GuardInv
  <2>2. CASE Press(s) \/ Notify(s)
    BY <2>2, <1>1, <1>2 DEF Press, Notify, Advance, HandlerTypes
  <2>3. CASE SubmitNothing(s)
    BY <2>1, <2>3, <1>2 DEF SubmitNothing, Free
  <2> QED
    BY <2>2, <2>3
<1>3. ThreadTypes' /\ GuardInv'
  <2>1. guard' \in [Processes -> {None} \cup Sections]
    BY <1>1 DEF ThreadTypes
  <2> QED
    BY <1>1, <1>2, <2>1, ThreadRests
<1>4. HandlerTypes' /\ WatchTypes'
  <2>1. clock' \in Batches
    BY DEF Press, SubmitNothing, Notify, HandlerTypes, Submits, Batches
  <2>2. snapshot' \in [Submits -> {None} \cup Payloads]
    BY DEF Press, SubmitNothing, Notify, HandlerTypes
  <2>3. queue' \in Seq(Payloads)
    <3>1. queue \in Seq(Payloads) /\ (submit[s] = "written" => snapshot[s] \in Payloads)
      BY DEF HandlerTypes, HandoffInv, SnapshotInv
    <3>2. queue' = queue \/ (submit[s] = "written" /\ queue' = Append(queue, snapshot[s]))
      BY DEF Press, SubmitNothing, Notify, Advance
    <3> QED
      BY <3>1, <3>2
  <2> QED
    BY <1>1, <2>1, <2>2, <2>3 DEF HandlerTypes, WatchTypes, watching
<1>5. SnapshotInv'
  <2>1. \A t \in Submits : submit'[t] = "written" => t # s /\ snapshot'[t] = snapshot[t]
    BY <1>1 DEF Press, SubmitNothing, Notify, HandlerTypes
  <2> QED
    BY <1>1, <2>1 DEF HandoffInv, SnapshotInv, Own
<1>6. QueueInv' /\ PrintInv'
  <2>1. prints \subseteq Submits /\ prints' = prints /\ handoff' = handoff
    BY <1>1 DEF WatchTypes, watching
  <2>2. \A t \in Submits : submit[t] = "done" => t # s /\ submit'[t] = "done"
    BY <1>1
  <2>3. \A i \in 1..Len(queue) : queue[i].label \in Submits
    BY QueueHoldsPayloads
  <2>4. CASE queue' = queue
    BY <1>1, <2>1, <2>2, <2>3, <2>4 DEF HandoffInv, QueueInv, PrintInv, Own
  <2>5. CASE queue' # queue
    <3>1. /\ queue' = Append(queue, snapshot[s]) /\ submit[s] = "written"
          /\ submit'[s] = "done" /\ handoff.kind = "foreground"
      BY <1>1, <2>5 DEF Press, SubmitNothing, Notify, Advance, HandlerTypes
    <3>2. snapshot[s] \in Payloads /\ snapshot[s].label = s /\ Own(snapshot[s]) = flips[s].notes
      BY <3>1 DEF HandoffInv, SnapshotInv
    <3>3. /\ Len(queue') = Len(queue) + 1 /\ queue'[Len(queue) + 1] = snapshot[s]
          /\ \A i \in 1..Len(queue) : queue'[i] = queue[i]
          /\ Len(queue) \in Nat
      BY <3>1, <3>2 DEF HandlerTypes
    <3>4. \A i \in 1..Len(queue) : queue[i].label # s
      BY <2>2 DEF HandoffInv, QueueInv
    <3>5. s \notin prints
      BY <3>1 DEF HandoffInv, PrintInv
    <3>6. QueueInv'
      <4> SUFFICES ASSUME NEW i \in 1..Len(queue')
                   PROVE  /\ submit'[queue'[i].label] = "done" /\ queue'[i].label \notin prints'
                          /\ Own(queue'[i]) = flips'[queue'[i].label].notes
                          /\ \A j \in 1..(i - 1) : queue'[j].label # queue'[i].label
        BY DEF QueueInv, Own
      <4>1. CASE i \in 1..Len(queue)
        BY <4>1, <1>1, <2>1, <2>2, <2>3, <3>3 DEF HandoffInv, QueueInv
      <4>2. CASE i = Len(queue) + 1
        BY <4>2, <1>1, <2>1, <3>1, <3>2, <3>3, <3>4, <3>5
      <4> QED
        BY <3>3, <4>1, <4>2
    <3>7. PrintInv'
      BY <1>1, <2>1, <2>2, <3>1 DEF HandoffInv, PrintInv
    <3> QED
      BY <3>6, <3>7
  <2> QED
    BY <2>4, <2>5
<1> QED
  BY <1>3, <1>4, <1>5, <1>6 DEF HandoffInv

\* The end of the server's process, whatever the watcher printed just before.
LEMMA ExitKeepsInv ==
    ASSUME ReviewInv, Exit, told' \subseteq Notes \X Batches,
           \/ prints' = prints
           \/ /\ prints = {} /\ handoff.kind = "foreground"
              /\ \E t \in Submits : submit[t] = "done" /\ prints' = {t}
    PROVE  ReviewInv'
<1> USE DEF ReviewInv
<1>1. /\ UNCHANGED <<store, used, requests, page, clock, handoff, watcher, flips>>
      /\ serving' = FALSE /\ queue' = << >>
      /\ \A t \in Submits : submit'[t] \in {"idle", "done"} /\ snapshot'[t] = None
      /\ \A t \in Submits : submit[t] = "done" => submit'[t] = "done"
      /\ submit' \in [Submits -> {"idle", "stamped", "written", "done"}]
      /\ snapshot' \in [Submits -> {None} \cup Payloads]
  BY DEF Exit
<1>2. /\ guard' \in [Processes -> {None} \cup Sections] /\ guard'["server"] = None
      /\ \A p \in Processes : guard'[p] \in {guard[p], None}
  BY DEF Exit, ThreadTypes, Processes
<1>3. ThreadTypes' /\ GuardInv'
  <2>1. \A p \in Processes, s \in Submits : ~(guard'[p] # None /\ guard[p].by = s)
    BY <1>2, NoneAssumption DEF GuardInv
  <2> QED
    BY <1>1, <1>2, <2>1, ThreadRests
<1>4. HandlerTypes'
  <2>1. queue' \in Seq(Payloads) /\ serving' \in BOOLEAN
    <3>1. << >> \in Seq(Payloads)
      OBVIOUS
    <3>2. queue' = << >> /\ serving' = FALSE
      BY <1>1
    <3> QED
      BY <3>1, <3>2
  <2>2. page' \in [Notes -> Open \cup {None}] /\ clock' \in Batches
    BY <1>1 DEF HandlerTypes
  <2> QED
    BY <1>1, <2>1, <2>2 DEF HandlerTypes
<1>5. WatchTypes'
  BY <1>1 DEF WatchTypes
<1>6. HandoffInv'
  BY <1>1 DEF HandoffInv, SnapshotInv, QueueInv, PrintInv, WatchTypes
<1> QED
  BY <1>3, <1>4, <1>5, <1>6

LEMMA PrintKeepsInv ==
    ASSUME ReviewInv, PrintQueued
    PROVE  ReviewInv'
<1> USE DEF ReviewInv
<1> DEFINE l == Head(queue).label
<1>1. /\ queue # << >> /\ queue \in Seq(Payloads) /\ Head(queue) = queue[1] /\ Len(queue) \in Nat
      /\ Len(queue) > 0
  BY DEF PrintQueued, HandlerTypes
<1>2. Head(queue) \in Payloads /\ l \in Submits
  BY <1>1, QueueHoldsPayloads
<1>3. submit[l] = "done" /\ l \notin prints
  BY <1>1 DEF HandoffInv, QueueInv
<1>4. told' \subseteq Notes \X Batches /\ prints' = prints \cup {l}
  <2>1. Head(queue).notes \subseteq Notes \X Batches
    BY <1>2 DEF Payloads
  <2> QED
    BY <2>1 DEF PrintQueued, Emit, WatchTypes
<1>5. CASE handoff.once /\ Exit
  <2>1. prints = {} /\ handoff.kind = "foreground"
    BY <1>1, <1>5 DEF HandoffInv, PrintInv
  <2> QED
    BY <1>2, <1>3, <1>4, <1>5, <2>1, ExitKeepsInv
<1>6. CASE ~handoff.once /\ queue' = Tail(queue)
             /\ UNCHANGED <<thread, page, serving, clock, submit, snapshot, handoff, watcher, flips>>
  <2>1. ThreadTypes' /\ GuardInv'
    BY <1>6 DEF thread, ThreadTypes, GuardInv, Kept, Live
  <2>2. /\ queue' \in Seq(Payloads) /\ Len(queue') = Len(queue) - 1
        /\ \A i \in 1..Len(queue') : queue'[i] = queue[i + 1]
    BY <1>1, <1>6
  <2>3. HandlerTypes'
    BY <1>6, <2>2 DEF HandlerTypes
  <2>4. WatchTypes'
    BY <1>2, <1>4, <1>6 DEF WatchTypes
  <2>5. SnapshotInv'
    BY <1>6 DEF HandoffInv, SnapshotInv, Own
  <2>6. QueueInv'
    <3>1. submit' = submit /\ flips' = flips
      BY <1>6
    <3> SUFFICES ASSUME NEW i \in 1..Len(queue')
                 PROVE  /\ submit'[queue'[i].label] = "done" /\ queue'[i].label \notin prints'
                        /\ Own(queue'[i]) = flips'[queue'[i].label].notes
                        /\ \A j \in 1..(i - 1) : queue'[j].label # queue'[i].label
      BY DEF QueueInv, Own
    <3>2. i + 1 \in 1..Len(queue) /\ 1 \in 1..((i + 1) - 1) /\ queue'[i] = queue[i + 1]
      BY <1>1, <2>2
    <3>3. /\ submit[queue[i + 1].label] = "done" /\ queue[i + 1].label \notin prints
          /\ Own(queue[i + 1]) = flips[queue[i + 1].label].notes
          /\ \A j \in 1..((i + 1) - 1) : queue[j].label # queue[i + 1].label
      BY <3>2 DEF HandoffInv, QueueInv
    <3>4. queue[i + 1].label # l
      BY <1>1, <3>2, <3>3
    <3>5. ASSUME NEW j \in 1..(i - 1)
          PROVE  queue'[j].label # queue'[i].label
      <4>1. j \in 1..Len(queue') /\ j + 1 \in 1..((i + 1) - 1)
        BY <1>1, <2>2
      <4>2. queue'[j] = queue[j + 1]
        BY <2>2, <4>1
      <4> QED
        BY <3>2, <3>3, <4>1, <4>2
    <3> QED
      BY <1>4, <3>1, <3>2, <3>3, <3>4, <3>5
  <2>7. PrintInv'
    BY <1>1, <1>3, <1>4, <1>6, <2>2 DEF HandoffInv, PrintInv
  <2> QED
    BY <2>1, <2>3, <2>4, <2>5, <2>6, <2>7 DEF HandoffInv
<1> QED
  BY <1>5, <1>6 DEF PrintQueued

LEMMA WatchKeepsInv ==
    ASSUME ReviewInv,
           ReadCurrent \/ Poll \/ EmitReview \/ \E emitCurrent \in BOOLEAN : StartWatch(emitCurrent)
    PROVE  ReviewInv'
<1> USE DEF ReviewInv
<1>1. store.last \in Batches /\ store \in Files
  BY DEF ThreadTypes, Files
<1>2. UNCHANGED <<thread, page, handlers, handoff, prints, flips>>
  BY DEF ReadCurrent, Poll, EmitReview, StartWatch, Watch
<1>3. watcher' \in [pc: {"off", "asleep", "current", "emit", "ended"}, seen: Batches, current: Batches]
  BY <1>1 DEF ReadCurrent, Poll, EmitReview, StartWatch, Watch, WatchTypes
<1>4. told' \subseteq Notes \X Batches
  BY <1>1, PayloadIsPayload DEF ReadCurrent, Poll, EmitReview, StartWatch, Emit, WatchTypes
<1>5. ThreadTypes' /\ GuardInv'
  BY <1>2 DEF thread, handlers, ThreadTypes, GuardInv, Kept, Live
<1>6. HandlerTypes' /\ WatchTypes'
  BY <1>2, <1>3, <1>4 DEF handlers, HandlerTypes, WatchTypes
<1>7. HandoffInv'
  BY <1>2 DEF handlers, HandoffInv, SnapshotInv, QueueInv, PrintInv, Own
<1> QED
  BY <1>5, <1>6, <1>7

LEMMA SurroundingsKeepInv ==
    ASSUME ReviewInv, LoadPage \/ StopServer \/ StartDaemon
    PROVE  ReviewInv'
<1> USE DEF ReviewInv
<1>1. CASE LoadPage
  <2>1. \A n \in Live(store) : Reopened(store.notes[n]) \in Open
    BY DEF Reopened, Open
  <2>2. page' \in [Notes -> Open \cup {None}]
    BY <1>1, <2>1 DEF LoadPage
  <2>3. UNCHANGED <<thread, handlers, watching, flips>>
    BY <1>1 DEF LoadPage
  <2> QED
    BY <2>2, <2>3 DEF thread, handlers, watching, ThreadTypes, GuardInv, Kept, Live, HandlerTypes,
                      WatchTypes, HandoffInv, SnapshotInv, QueueInv, PrintInv, Own
<1>2. CASE StopServer
  BY <1>2, ExitKeepsInv DEF StopServer, WatchTypes
<1>3. CASE StartDaemon
  <2>1. /\ UNCHANGED <<thread, page, clock, submit, snapshot, queue, watching, flips>>
        /\ serving' = TRUE /\ serving = FALSE /\ handoff.kind = "daemon"
    BY <1>3 DEF StartDaemon, HandlerTypes
  <2>2. prints = {} /\ queue = << >>
    BY <2>1 DEF HandoffInv, PrintInv
  <2>3. ThreadTypes' /\ GuardInv'
    BY <2>1 DEF thread, ThreadTypes, GuardInv, Kept, Live
  <2>4. HandlerTypes' /\ WatchTypes'
    BY <2>1 DEF HandlerTypes, WatchTypes, watching
  <2>5. HandoffInv'
    BY <2>1, <2>2 DEF HandoffInv, SnapshotInv, QueueInv, PrintInv, Own, watching
  <2> QED
    BY <2>3, <2>4, <2>5
<1> QED
  BY <1>1, <1>2, <1>3

LEMMA NextKeepsReviewInv == ReviewInv /\ [Next]_vars => ReviewInv'
<1> SUFFICES ASSUME ReviewInv, [Next]_vars PROVE ReviewInv'
  OBVIOUS
<1>1. CASE UNCHANGED vars
  BY <1>1 DEF vars, thread, handlers, watching, ReviewInv, ThreadTypes, GuardInv, Kept, Live,
              HandlerTypes, WatchTypes, HandoffInv, SnapshotInv, QueueInv, PrintInv, Own
<1>2. CASE Next
  BY <1>2, RequestKeepsInv, WriteKeepsInv, HandlerKeepsInv, PrintKeepsInv, WatchKeepsInv,
     SurroundingsKeepInv DEF Next, Handler, Watching
<1> QED
  BY <1>1, <1>2

\* The inductive invariant holds in every reachable state.
LEMMA SpecKeepsReviewInv == Spec => []ReviewInv
BY InitEstablishesReviewInv, NextKeepsReviewInv, PTL DEF Spec

\* Every variable keeps its type, for any numbers of notes, submits, answers and requests.
THEOREM ReviewTypeCorrect == Spec => []SRTypeOK
<1>1. ReviewInv => SRTypeOK
  <2> SUFFICES ASSUME ReviewInv PROVE SRTypeOK
    OBVIOUS
  <2>1. \A p \in Processes : guard[p] # None => guard[p] \in Sections
    BY DEF ReviewInv, ThreadTypes
  <2> QED
    BY <2>1 DEF ReviewInv, ThreadTypes, HandlerTypes, WatchTypes, HandoffInv, SnapshotInv, SRTypeOK,
                Sections
<1> QED
  BY <1>1, SpecKeepsReviewInv, PTL

\* What the foreground prints for a batch is what its submit wrote, and it prints none twice.
THEOREM SubmitsSpeakForThemselves == Spec => []EachSubmitSpeaksForItself
<1>1. ReviewInv => EachSubmitSpeaksForItself
  BY DEF ReviewInv, HandoffInv, QueueInv, PrintInv, Own, EachSubmitSpeaksForItself
<1> QED
  BY <1>1, SpecKeepsReviewInv, PTL

\* Where the filesystem grants its lock, no request of the server or of the agent
\* erases what another one wrote.
THEOREM UpdatesAreNotLost ==
    ASSUME FlockWorks
    PROVE  Spec => NotesSurvive
<1> DEFINE Survives ==
      \A n \in Live(store) :
          \/ n \in Live(store') /\ store'.notes[n].replies >= store.notes[n].replies
          \/ \E p \in Processes : guard[p] # None /\ guard'[p] = None /\ n \in guard[p].drops
<1>1. ASSUME ReviewInv, [Next]_vars PROVE Survives
  <2>1. ASSUME store' = store PROVE Survives
    <3>1. \A n \in Live(store) : store.notes[n].replies \in Nat
      BY <1>1, LiveIsNote, ReviewAssumption DEF ReviewInv, ThreadTypes, Note
    <3> QED
      BY <2>1, <3>1 DEF Live
  <2>2. ASSUME NEW p \in Processes, Write(p) PROVE Survives
    <3>1. Kept(guard[p].data, guard[p].drops) /\ guard[p] # None
      BY <1>1, <2>2 DEF Write, ReviewInv, GuardInv
    <3>2. store' = guard[p].data /\ guard'[p] = None
      BY <1>1, <2>2 DEF Write, ReviewInv, ThreadTypes
    <3> QED
      BY <3>1, <3>2 DEF Kept, Live
  <2>3. store' = store \/ \E p \in Processes : Write(p)
    <3>1. CASE Request
      BY <3>1 DEF Request, AddNote, EditNote, Resolve, Reopen, DeleteNote, Reply, Import,
                  EnterSubmit, Change, Load
    <3>2. CASE Handler
      BY <3>2 DEF Handler, Press, SubmitNothing, Notify, Advance, thread
    <3>3. CASE Watching
      BY <3>3 DEF Watching, PrintQueued, Exit, ReadCurrent, Poll, EmitReview, StartWatch, Watch, thread
    <3>4. CASE LoadPage \/ StopServer \/ StartDaemon \/ UNCHANGED vars
      BY <3>4 DEF LoadPage, StopServer, Exit, StartDaemon, vars, thread
    <3> QED
      BY <1>1, <3>1, <3>2, <3>3, <3>4 DEF Next
  <2> QED
    BY <2>1, <2>2, <2>3
<1> QED
  BY <1>1, SpecKeepsReviewInv, PTL DEF Spec, NotesSurvive
=============================================================================
