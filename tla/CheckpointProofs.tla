--------------------------- MODULE CheckpointProofs ---------------------------
(***************************************************************************)
(* What TLAPS proves about Checkpoint for any files, any versions, any     *)
(* threshold and any number of moves of the other session: a checkpoint    *)
(* that is reported made holds what was reviewed, and a stamp is of it.    *)
(***************************************************************************)
EXTENDS Checkpoint, FiniteSetTheorems, TLAPS

USE CheckpointAssumption, NoneAssumption

CommitRecords == [tree: Trees, parent: Nat, author: {"review", "other"},
                  via: {"hash", "delta", "ungated"}]

(* The object store only grows, and a parent is older than its child.      *)
StoreInv ==
    /\ commits \in Seq(CommitRecords)
    /\ \A c \in 1..Len(commits) : commits[c].parent < c
    /\ index \in Trees
    /\ head \in CommitIds

RunRecords ==
    [pc: Steps, staged: BOOLEAN, stdin: BOOLEAN, commit: BOOLEAN,
     diff: {None} \cup DiffTexts, hash: {None} \cup DiffTexts,
     ok: BOOLEAN, truncated: BOOLEAN, parent: Nat,
     via: {"hash", "delta", "ungated"}, own: Nat, sha: Nat,
     exit: {None} \cup ExitCodes, detail: {None, "unreadable", "drift"},
     since: Nat, read: Nat]

(* The locals of the run name commits that exist.                          *)
LocalsInv ==
    /\ run \in RunRecords
    /\ {run.parent, run.own, run.sha} \subseteq CommitIds
    /\ {run.since, run.read} \subseteq 0..foreign

GateInv ==
    /\ noPrefix \in BOOLEAN /\ marker \in BOOLEAN
    /\ foreign \in 0..MaxForeign
    /\ stamp \in {None} \cup DiffTexts
    /\ stampDiff = None \/ stampDiff \in [head: CommitIds, diff: DiffTexts]

(* What the code has established by the time it stands at each step.       *)
ProgressInv ==
    /\ run.pc \notin {"diff", "done"} => run.diff # None /\ run.exit = None
    /\ run.pc = "diff" => run.exit = None
    /\ run.pc \in {"diff", "hash", "review", "stamp"} => stamp = None
    /\ run.pc \in {"parse", "verify", "undo"} => run.own # 0
    /\ run.pc \in {"verify", "undo"} => run.sha = run.own
    /\ run.pc \in {"recheck", "commit", "gate", "write", "parse", "verify", "undo"} =>
         run.ok

(* A stamp is of a passing review and of the digest taken at dispatch.     *)
StampInv ==
    stamp # None =>
        /\ Certifies
        /\ run.hash # None => stamp = run.hash

CheckpointInv ==
    /\ StoreInv /\ LocalsInv /\ GateInv /\ ProgressInv
    /\ CheckpointIsReviewed /\ StampInv

-----------------------------------------------------------------------------
(* Operators.                                                              *)

(* A text printed between two trees is a text.                             *)
LEMMA TextIsText ==
    ASSUME NEW a \in Trees, NEW b \in Trees, NEW pinned \in BOOLEAN, noPrefix \in BOOLEAN
    PROVE  Text(Changes(a, b), pinned) \in DiffTexts
BY DEF Trees, DiffTexts, Text, Changes

LEMMA TreeOfCommit ==
    ASSUME StoreInv, NEW c \in CommitIds
    PROVE  TreeOf(c) \in Trees /\ (c # 0 => ParentOf(c) \in CommitIds)
<1>1. CASE c = 0
  BY <1>1 DEF TreeOf, EmptyTree, Trees
<1>2. CASE c # 0
  <2>1. c \in 1..Len(commits) /\ Len(commits) \in Nat
    BY <1>2 DEF CommitIds, StoreInv
  <2>2. commits[c] \in CommitRecords /\ commits[c].parent < c
    BY <2>1 DEF StoreInv
  <2> QED
    BY <1>2, <2>1, <2>2 DEF TreeOf, ParentOf, CommitRecords, CommitIds
<1> QED
  BY <1>1, <1>2

(* A commit made later does not change what an earlier one holds.          *)
LEMMA CommitDiffIsStable ==
    ASSUME StoreInv, NEW new \in CommitRecords, commits' = Append(commits, new),
           UNCHANGED noPrefix, NEW c \in CommitIds, c # 0
    PROVE  CommitDiff(c)' = CommitDiff(c)
<1>1. \A d \in 1..Len(commits) : commits'[d] = commits[d]
  BY DEF StoreInv
<1>2. ParentOf(c) \in CommitIds
  BY TreeOfCommit
<1>3. \A d \in CommitIds : (IF d = 0 THEN EmptyTree ELSE commits'[d].tree) = TreeOf(d)
  BY <1>1 DEF TreeOf, CommitIds, StoreInv
<1>4. commits'[c].parent = ParentOf(c)
  BY <1>1 DEF ParentOf, CommitIds, StoreInv
<1>5. CommitDiff(c)' = Text(Changes(IF ParentOf(c) = 0 THEN EmptyTree
                                    ELSE commits'[ParentOf(c)].tree,
                                    commits'[c].tree), FALSE)
  BY <1>4 DEF CommitDiff, TreeOf, ParentOf, EmptyTree, Text, Changes
<1> QED
  BY <1>2, <1>3, <1>5 DEF CommitDiff

(* Appending a commit on top of an existing one keeps the store.           *)
LEMMA AppendKeepsStore ==
    ASSUME StoreInv, NEW new \in CommitRecords, new.parent \in CommitIds,
           commits' = Append(commits, new), head' = Len(commits'), UNCHANGED index
    PROVE  /\ StoreInv'
           /\ Len(commits') = Len(commits) + 1
           /\ CommitIds \subseteq CommitIds'
<1>1. Len(commits') = Len(commits) + 1 /\ Len(commits) \in Nat
  BY DEF StoreInv
<1>2. commits' \in Seq(CommitRecords)
  BY DEF StoreInv
<1>3. \A c \in 1..Len(commits') :
        commits'[c] = IF c = Len(commits') THEN new ELSE commits[c]
  BY DEF StoreInv
<1>4. \A c \in 1..Len(commits') : commits'[c].parent < c
  BY <1>1, <1>3 DEF StoreInv, CommitIds
<1> QED
  BY <1>1, <1>2, <1>4 DEF StoreInv, CommitIds

LEMMA InitEstablishesCheckpointInv == Init => CheckpointInv
<1> SUFFICES ASSUME Init PROVE CheckpointInv
  OBVIOUS
<1>1. StoreInv
  <2>1. EmptyTree \in Trees
    BY DEF EmptyTree, Trees
  <2>2. CASE commits = <<>> /\ head = 0
    BY <2>2 DEF Init, StoreInv, CommitIds
  <2>3. ASSUME NEW base \in Trees, commits = <<NewCommit(base, 0, "other", "ungated")>>, head = 1
        PROVE  StoreInv
    <3>1. NewCommit(base, 0, "other", "ungated") \in CommitRecords
      BY DEF NewCommit, CommitRecords
    <3>2. commits \in Seq(CommitRecords) /\ Len(commits) = 1
      BY <2>3, <3>1
    <3>3. commits[1].parent = 0
      BY <2>3 DEF NewCommit
    <3> QED
      BY <2>3, <3>2, <3>3 DEF Init, StoreInv, CommitIds
  <2> QED
    BY <2>1, <2>2, <2>3 DEF Init
<1>2. /\ run \in RunRecords /\ run.pc = "diff" /\ run.exit = None
      /\ run.parent = 0 /\ run.own = 0 /\ run.sha = 0 /\ run.since = 0 /\ run.read = 0
  <2>1. run \in RunStart
    BY DEF Init
  <2>2. RunStart \subseteq RunRecords
    <3> SUFFICES ASSUME NEW r \in RunStart PROVE r \in RunRecords
      OBVIOUS
    <3>1. /\ r.pc = "diff" /\ r.parent = 0 /\ r.own = 0 /\ r.sha = 0
          /\ r.diff = None /\ r.hash = None /\ r.exit = None /\ r.detail = None
          /\ r.via = "ungated" /\ r.staged \in BOOLEAN /\ r.stdin \in BOOLEAN
          /\ r.commit \in BOOLEAN /\ r.ok \in BOOLEAN /\ r.truncated \in BOOLEAN
          /\ r.since = 0 /\ r.read = 0
      BY Zenon DEF RunStart
    <3>2. r = [pc |-> r.pc, staged |-> r.staged, stdin |-> r.stdin, commit |-> r.commit,
               diff |-> r.diff, hash |-> r.hash, ok |-> r.ok,
               truncated |-> r.truncated, parent |-> r.parent, via |-> r.via,
               own |-> r.own, sha |-> r.sha, exit |-> r.exit, detail |-> r.detail,
               since |-> r.since, read |-> r.read]
      BY DEF RunStart
    <3> QED
      BY <3>1, <3>2 DEF RunRecords, Steps
  <2>3. /\ run.pc = "diff" /\ run.exit = None
        /\ run.parent = 0 /\ run.own = 0 /\ run.sha = 0 /\ run.since = 0 /\ run.read = 0
    BY <2>1 DEF RunStart
  <2> QED
    BY <2>1, <2>2, <2>3
<1>3. LocalsInv
  <2>1. foreign = 0
    BY DEF Init
  <2> QED
    BY <1>1, <1>2, <2>1 DEF LocalsInv, StoreInv, CommitIds
<1>4. GateInv
  <2>1. foreign = 0 /\ stamp = None /\ stampDiff = None /\ marker = FALSE
    BY DEF Init
  <2>2. noPrefix \in BOOLEAN
    BY DEF Init
  <2> QED
    BY <2>1, <2>2, 0 \in 0..MaxForeign, Zenon DEF GateInv
<1>5. ProgressInv
  BY <1>2 DEF Init, ProgressInv
<1>6. CheckpointIsReviewed
  BY <1>2 DEF CheckpointIsReviewed, ExitCodes
<1>7. StampInv
  BY DEF Init, StampInv
<1> QED
  BY <1>1, <1>3, <1>4, <1>5, <1>6, <1>7 DEF CheckpointInv

-----------------------------------------------------------------------------
(* The steps of the review process.                                        *)

(* A step that leaves the repository alone is judged by the locals and the *)
(* gate files alone.                                                       *)
LEMMA QuietStep ==
    ASSUME CheckpointInv, UNCHANGED <<noPrefix, repo, foreign>>
    PROVE  /\ StoreInv' /\ CommitIds' = CommitIds
           /\ \A c \in CommitIds : CommitDiff(c)' = CommitDiff(c)
<1>1. StoreInv' /\ CommitIds' = CommitIds
  BY DEF CheckpointInv, StoreInv, repo, CommitIds
<1>2. ASSUME NEW c \in CommitIds PROVE CommitDiff(c)' = CommitDiff(c)
  BY DEF repo, CommitDiff, TreeOf, ParentOf, EmptyTree, Text, Changes
<1> QED
  BY <1>1, <1>2

(* What is staged is a text.                                               *)
LEMMA StagedIsText ==
    ASSUME CheckpointInv
    PROVE  PinnedStagedDiff \in DiffTexts /\ AmbientStagedDiff \in DiffTexts
<1>1. TreeOf(head) \in Trees /\ index \in Trees /\ noPrefix \in BOOLEAN
  BY TreeOfCommit DEF CheckpointInv, StoreInv, GateInv
<1> QED
  BY <1>1, TextIsText DEF PinnedStagedDiff, AmbientStagedDiff, Staged

LEMMA DispatchKeepsInv == CheckpointInv /\ Dispatch => CheckpointInv'
<1> SUFFICES ASSUME CheckpointInv, Dispatch PROVE CheckpointInv'
  OBVIOUS
<1>1. UNCHANGED <<noPrefix, repo, foreign, gate>>
  BY DEF Dispatch, ReadDiff, ReadStampHash, Review
<1>2. StoreInv' /\ CommitIds' = CommitIds
  BY <1>1, QuietStep
<1>3. GateInv'
  BY <1>1, <1>2 DEF CheckpointInv, GateInv, gate
<1>4. run.pc \in {"diff", "hash", "review"} /\ run.exit = None /\ stamp = None
  BY DEF Dispatch, ReadDiff, ReadStampHash, Review, CheckpointInv, ProgressInv
<1>5. /\ run \in RunRecords /\ {run.parent, run.own, run.sha} \subseteq CommitIds
      /\ {run.since, run.read} \subseteq 0..foreign /\ foreign \in Nat /\ foreign \in 0..foreign
  BY DEF CheckpointInv, LocalsInv, GateInv
<1>6. head \in CommitIds /\ head \in Nat
  BY DEF CheckpointInv, StoreInv, CommitIds
<1> DEFINE Proceeds ==
             /\ run' \in RunRecords
             /\ {run'.parent, run'.own, run'.sha} \subseteq CommitIds
             /\ {run'.since, run'.read} \subseteq 0..foreign
             /\ \/ run'.pc = "done" /\ run'.exit \in {1, 4}
                \/ /\ run'.pc \in {"hash", "review", "stamp"}
                   /\ run'.exit = None /\ run'.diff # None
<1>7. Proceeds
  <2>1. CASE ReadDiff
    <3>1. CASE Exit(4)
      BY <3>1, <1>5, <1>6, <2>1 DEF Exit, RunRecords, Steps, ExitCodes
    <3>2. ASSUME NEW d \in IF run.staged /\ ~run.stdin THEN {PinnedStagedDiff}
                           ELSE {Text(Changes(TreeOf(head), t), TRUE) : t \in Trees}
          PROVE  d \in DiffTexts
      <4>1. TreeOf(head) \in Trees /\ noPrefix \in BOOLEAN
        BY TreeOfCommit, <1>6 DEF CheckpointInv, GateInv
      <4> QED
        BY <3>2, <4>1, StagedIsText, TextIsText
    <3>3. ASSUME NEW d \in DiffTexts,
                 run' = IF d.changes = {}
                        THEN [run EXCEPT !.pc = "done", !.exit = 1]
                        ELSE [run EXCEPT !.pc = "hash", !.diff = d, !.since = foreign, !.read = foreign]
          PROVE  Proceeds
      <4>1. CASE run' = [run EXCEPT !.pc = "done", !.exit = 1]
        BY <4>1, <1>5 DEF RunRecords, Steps, ExitCodes
      <4>2. CASE run' = [run EXCEPT !.pc = "hash", !.diff = d, !.since = foreign, !.read = foreign]
        <5>1. run' \in RunRecords
          BY <4>2, <1>5, <1>6 DEF RunRecords, Steps
        <5>2. /\ run'.pc = "hash" /\ run'.exit = run.exit /\ run'.diff = d
              /\ run'.parent = run.parent
              /\ run'.own = run.own /\ run'.sha = run.sha
              /\ run'.since = foreign /\ run'.read = foreign
          BY <4>2, <1>5 DEF RunRecords
        <5>3. d # None
          OBVIOUS
        <5> QED
          BY <5>1, <5>2, <5>3, <1>4, <1>5, <1>6
      <4> QED
        BY <3>3, <4>1, <4>2
    <3> QED
      BY <2>1, <3>1, <3>2, <3>3 DEF ReadDiff
  <2>2. CASE ReadStampHash
    <3>1. run.diff # None
      BY <2>2 DEF ReadStampHash, CheckpointInv, ProgressInv
    <3>2. PICK h \in {None} \cup DiffTexts, n \in {run.read, foreign} :
            run' = [run EXCEPT !.pc = "review", !.hash = h, !.read = n]
      <4>1. PICK h \in {None} \cup DiffTexts :
              run' = [run EXCEPT !.pc = "review", !.hash = h, !.read = IF h = None THEN @ ELSE foreign]
        BY <2>2, StagedIsText DEF ReadStampHash
      <4> DEFINE n == IF h = None THEN run.read ELSE foreign
      <4>2. run' = [run EXCEPT !.pc = "review", !.hash = h, !.read = n] /\ n \in {run.read, foreign}
        BY <4>1
      <4> QED
        BY <4>2
    <3>3. n \in Nat /\ n \in 0..foreign
      BY <1>5 DEF RunRecords
    <3>4. run' \in RunRecords
      BY <3>2, <3>3, <1>5 DEF RunRecords, Steps
    <3>5. /\ run'.pc = "review" /\ run'.exit = run.exit /\ run'.diff = run.diff
          /\ run'.parent = run.parent
          /\ run'.own = run.own /\ run'.sha = run.sha
          /\ run'.since = run.since /\ run'.read = n
      BY <3>2, <1>5 DEF RunRecords
    <3> QED
      BY <3>1, <3>3, <3>4, <3>5, <1>4, <1>5
  <2>3. CASE Review
    <3>1. run.diff # None
      BY <2>3 DEF Review, CheckpointInv, ProgressInv
    <3>2. PICK ok \in BOOLEAN, cut \in BOOLEAN :
            run' = [run EXCEPT !.pc = "stamp", !.ok = ok, !.truncated = cut]
      BY <2>3 DEF Review
    <3>3. run' \in RunRecords
      BY <3>2, <1>5 DEF RunRecords, Steps
    <3>4. /\ run'.pc = "stamp" /\ run'.exit = run.exit /\ run'.diff = run.diff
          /\ run'.parent = run.parent
          /\ run'.own = run.own /\ run'.sha = run.sha
          /\ run'.since = run.since /\ run'.read = run.read
      BY <3>2, <1>5 DEF RunRecords
    <3> QED
      BY <3>1, <3>3, <3>4, <1>4, <1>5
  <2> QED
    BY <2>1, <2>2, <2>3 DEF Dispatch
<1>8. LocalsInv'
  BY <1>1, <1>2, <1>7 DEF LocalsInv
<1>9. stamp' = None
  BY <1>1, <1>4 DEF gate
<1>10. ProgressInv'
  BY <1>7, <1>9 DEF ProgressInv
<1>11. CheckpointIsReviewed' /\ StampInv'
  BY <1>7, <1>9 DEF CheckpointIsReviewed, StampInv, ExitCodes
<1> QED
  BY <1>2, <1>3, <1>8, <1>10, <1>11 DEF CheckpointInv

LEMMA CertifyKeepsInv == CheckpointInv /\ Certify => CheckpointInv'
<1> SUFFICES ASSUME CheckpointInv, Certify PROVE CheckpointInv'
  OBVIOUS
<1>1. UNCHANGED <<noPrefix, repo, foreign>>
  BY DEF Certify, SkipStamp, WriteStamp, WriteStampDiff, TouchMarker, gate
<1>2. StoreInv' /\ CommitIds' = CommitIds
  BY <1>1, QuietStep
<1>5. run \in RunRecords /\ foreign \in Nat
  BY DEF CheckpointInv, LocalsInv, GateInv
<1>3. PICK p \in {"stampDiff", "marker", "checkpoint"}, n \in {run.read, foreign} :
        run' = [run EXCEPT !.pc = p, !.read = n]
  <2>1. CASE run' = [run EXCEPT !.pc = "stampDiff", !.read = IF run.hash = None THEN foreign ELSE @]
    BY <2>1
  <2>2. ASSUME NEW q \in {"marker", "checkpoint"}, Goto(q)
        PROVE  run' = [run EXCEPT !.pc = q, !.read = run.read]
    BY <1>5, <2>2 DEF Goto, RunRecords
  <2> QED
    BY <2>1, <2>2 DEF Certify, SkipStamp, WriteStamp, WriteStampDiff, TouchMarker
<1>4. run.pc \notin {"diff", "done"} /\ run.exit = None /\ run.diff # None
  BY DEF Certify, SkipStamp, WriteStamp, WriteStampDiff, TouchMarker, CheckpointInv, ProgressInv
<1>6. /\ run'.since = run.since /\ run'.read = n
      /\ run' \in RunRecords /\ run'.pc = p /\ run'.exit = None /\ run'.diff = run.diff
      /\ run'.parent = run.parent
      /\ run'.own = run.own /\ run'.sha = run.sha /\ run'.hash = run.hash
      /\ run'.ok = run.ok /\ run'.truncated = run.truncated
      /\ run'.staged = run.staged /\ run'.stdin = run.stdin
  BY <1>3, <1>4, <1>5 DEF RunRecords, Steps
<1>7. LocalsInv'
  BY <1>1, <1>2, <1>3, <1>5, <1>6 DEF LocalsInv, CheckpointInv
<1>8. ProgressInv' /\ CheckpointIsReviewed'
  BY <1>4, <1>6 DEF ProgressInv, CheckpointIsReviewed, ExitCodes
<1>9. Certifies' = Certifies
  BY <1>6 DEF Certifies
<1>10. GateInv' /\ StampInv'
  <2>1. AmbientStagedDiff \in DiffTexts /\ run.diff \in DiffTexts
    BY StagedIsText, <1>4, <1>5 DEF RunRecords
  <2>2. run.hash \in {None} \cup DiffTexts /\ head \in CommitIds
    BY <1>5 DEF RunRecords, CheckpointInv, StoreInv
  <2>3. CASE stamp' \in StampText /\ Certifies /\ UNCHANGED <<stampDiff, marker>>
    BY <2>1, <2>2, <2>3, <1>1, <1>2, <1>6, <1>9
       DEF StampText, GateInv, CheckpointInv, StampInv
  <2>4. CASE UNCHANGED stamp
    <3>1. StampInv'
      BY <2>4, <1>6, <1>9 DEF CheckpointInv, StampInv
    <3>2. stampDiff' \in {stampDiff, [head |-> head, diff |-> run.diff]} /\ marker' \in {marker, TRUE}
      BY DEF Certify, SkipStamp, WriteStamp, WriteStampDiff, TouchMarker, gate
    <3>3. [head |-> head, diff |-> run.diff] \in [head: CommitIds, diff: DiffTexts]
      BY <2>1, <2>2
    <3> QED
      BY <2>4, <3>1, <3>2, <3>3, <1>1, <1>2 DEF CheckpointInv, GateInv
  <2> QED
    BY <2>3, <2>4 DEF Certify, SkipStamp, WriteStamp, WriteStampDiff, TouchMarker, gate
<1> QED
  BY <1>2, <1>7, <1>8, <1>10 DEF CheckpointInv

(* What a step of the checkpoint leaves alone among the locals.            *)
SameReview ==
    /\ run'.staged = run.staged /\ run'.stdin = run.stdin /\ run'.commit = run.commit
    /\ run'.diff = run.diff /\ run'.hash = run.hash
    /\ run'.ok = run.ok /\ run'.truncated = run.truncated
    /\ run'.since = run.since /\ run'.read = run.read

Early == {"diff", "hash", "review", "stamp"}

(* After the certification the gate's files and their claim rest.          *)
LEMMA GateRests ==
    ASSUME CheckpointInv, run.pc \notin Early, UNCHANGED <<noPrefix, foreign, gate>>,
           CommitIds \subseteq CommitIds', run' \in RunRecords, SameReview,
           {run'.parent, run'.own, run'.sha} \subseteq CommitIds'
    PROVE  LocalsInv' /\ GateInv' /\ StampInv'
<1>1. LocalsInv'
  BY DEF LocalsInv, SameReview, CheckpointInv
<1>2. GateInv'
  <2>1. stampDiff \in [head: CommitIds, diff: DiffTexts] =>
          stampDiff \in [head: CommitIds', diff: DiffTexts]
    OBVIOUS
  <2> QED
    BY <2>1 DEF GateInv, CheckpointInv, gate
<1>3. StampInv'
  BY DEF StampInv, Certifies, SameReview, CheckpointInv, gate
<1> QED
  BY <1>1, <1>2, <1>3

LEMMA CommitKeepsInv == CheckpointInv /\ Commit => CheckpointInv'
<1> SUFFICES ASSUME CheckpointInv, Commit PROVE CheckpointInv'
  OBVIOUS
<1> USE DEF Early
<1>1. run \in RunRecords /\ {run.parent, run.own, run.sha} \subseteq CommitIds
  BY DEF CheckpointInv, LocalsInv
<1>2. run.pc \notin Early \cup {"done"} /\ run.exit = None /\ run.diff # None
  BY DEF Commit, CheckpointGate, RecheckIndex, GitRunsHooks, GitGateJudges, GitWritesCommit,
         ParseSha, VerifyCheckpoint, UndoCheckpoint, CheckpointInv, ProgressInv
<1>3. UNCHANGED <<noPrefix, foreign, gate>>
  BY DEF Commit, CheckpointGate, RecheckIndex, GitRunsHooks, GitGateJudges, GitWritesCommit,
         ParseSha, VerifyCheckpoint, UndoCheckpoint
\* The locals a step of this phase may set.
<1> DEFINE Sets(p, e) == run'.pc = p /\ run'.exit = e /\ run' \in RunRecords /\ SameReview
           Own == run'.own = run.own /\ run'.sha = run.sha /\ run'.parent = run.parent
<1>4. ASSUME NEW c \in ExitCodes, Exit(c) PROVE Sets("done", c) /\ Own
  BY <1>1, <1>4 DEF Exit, RunRecords, Steps, SameReview
<1>5. ASSUME NEW p \in Steps, Goto(p) PROVE Sets(p, None) /\ Own
  BY <1>1, <1>2, <1>5 DEF Goto, RunRecords, SameReview
<1>6. ASSUME NEW d \in {"unreadable", "drift"}, Refuse(d) PROVE Sets("done", 12) /\ Own
  BY <1>1, <1>6 DEF Refuse, RunRecords, Steps, SameReview, ExitCodes
<1> HIDE DEF Sets, Own
\* A step that ends the run with an error, or goes on, and makes no commit.
<1>7. ASSUME StoreInv', CommitIds' = CommitIds, NEW p \in Steps, NEW e, Sets(p, e), Own,
             \/ p = "done" /\ e \in {1, 12, 13}
             \/ /\ e = None /\ p \in {"recheck", "commit", "write", "gate", "undo"}
                /\ p = "undo" => run.pc = "verify"
                /\ p # "undo" => run.ok
      PROVE  CheckpointInv'
  <2>1. LocalsInv' /\ GateInv' /\ StampInv'
    BY <1>1, <1>2, <1>3, <1>7, GateRests DEF Sets, Own
  <2>2. ProgressInv'
    BY <1>2, <1>7 DEF Sets, Own, SameReview, ProgressInv, CheckpointInv
  <2>3. CheckpointIsReviewed'
    BY <1>7 DEF Sets, CheckpointIsReviewed, ExitCodes
  <2> QED
    BY <1>7, <2>1, <2>2, <2>3 DEF CheckpointInv
<1>8. CASE CheckpointGate
  <2>1. StoreInv' /\ CommitIds' = CommitIds
    BY <1>3, <1>8, QuietStep DEF CheckpointGate
  <2>2. CASE Exit(13)
    BY <2>1, <2>2, <1>4, <1>7 DEF ExitCodes, Steps
  <2>3. CASE Goto("recheck") /\ run.ok
    BY <2>1, <2>3, <1>5, <1>7 DEF Steps
  <2>4. CASE ~run.ok /\ Exit(1)
    BY <2>1, <2>4, <1>4, <1>7 DEF ExitCodes, Steps
  <2>5. CASE (~run.commit \/ run.stdin) /\ Exit(0)
    <3>1. Sets("done", 0) /\ Own
      BY <2>5, <1>4 DEF ExitCodes
    <3>2. LocalsInv' /\ GateInv' /\ StampInv'
      BY <1>1, <1>2, <1>3, <2>1, <3>1, GateRests DEF Sets, Own
    <3>3. ProgressInv'
      BY <3>1 DEF Sets, ProgressInv
    <3>4. CheckpointIsReviewed'
      BY <2>5, <3>1 DEF Sets, SameReview, CheckpointIsReviewed
    <3> QED
      BY <2>1, <3>2, <3>3, <3>4 DEF CheckpointInv
  <2> QED
    BY <1>8, <2>2, <2>3, <2>4, <2>5 DEF CheckpointGate
<1>9. CASE RecheckIndex
  <2>1. StoreInv' /\ CommitIds' = CommitIds /\ run.ok
    BY <1>3, <1>9, QuietStep DEF RecheckIndex, CheckpointInv, ProgressInv
  <2>2. CASE Refuse("unreadable") \/ Refuse("drift")
    BY <2>1, <2>2, <1>6, <1>7 DEF Steps
  <2>3. CASE Goto("commit")
    BY <2>1, <2>3, <1>5, <1>7 DEF Steps
  <2> QED
    BY <1>9, <2>2, <2>3 DEF RecheckIndex
<1>10. CASE GitRunsHooks
  <2>1. index' \in Trees
    BY <1>10 DEF GitRunsHooks, CheckpointInv, StoreInv, Trees
  <2>2. StoreInv' /\ CommitIds' = CommitIds /\ head \in CommitIds /\ head \in Nat
    BY <1>10, <2>1 DEF GitRunsHooks, CheckpointInv, StoreInv, CommitIds
  <2>3. /\ run' \in RunRecords /\ SameReview /\ run'.pc = "gate" /\ run'.exit = None
        /\ run'.parent = head /\ run'.own = run.own /\ run'.sha = run.sha
    BY <1>1, <1>2, <1>10, <2>2 DEF GitRunsHooks, RunRecords, Steps, SameReview
  <2>4. LocalsInv' /\ GateInv' /\ StampInv'
    BY <1>1, <1>2, <1>3, <2>2, <2>3, GateRests
  <2>5. ProgressInv' /\ CheckpointIsReviewed'
    BY <1>2, <1>10, <2>3
       DEF GitRunsHooks, ProgressInv, CheckpointIsReviewed, CheckpointInv, SameReview, ExitCodes
  <2> QED
    BY <2>2, <2>4, <2>5 DEF CheckpointInv
<1>11. CASE GitGateJudges
  <2>1. StoreInv' /\ CommitIds' = CommitIds /\ run.ok
    BY <1>3, <1>11, QuietStep DEF GitGateJudges, CheckpointInv, ProgressInv
  <2>2. CASE Exit(12)
    BY <2>1, <2>2, <1>4, <1>7 DEF ExitCodes, Steps
  <2>3. ASSUME NEW v \in Admissions, run' = [run EXCEPT !.pc = "write", !.via = v]
        PROVE  Sets("write", None) /\ Own
    BY <1>1, <1>2, <2>3 DEF Sets, Own, RunRecords, Steps, SameReview, Admissions
  <2> QED
    BY <1>7, <1>11, <2>1, <2>2, <2>3 DEF GitGateJudges, Steps
<1>12. CASE GitWritesCommit
  <2>1. CASE Exit(12) /\ UNCHANGED <<commits, head>>
    <3>1. StoreInv' /\ CommitIds' = CommitIds
      BY <1>3, <1>12, <2>1, QuietStep DEF GitWritesCommit, repo
    <3> QED
      BY <3>1, <2>1, <1>4, <1>7 DEF ExitCodes, Steps
  <2>2. ASSUME commits' = Append(commits, NewCommit(index, head, "review", run.via)),
               head' = Len(commits'), NEW p \in {"parse", "done"},
               run' = [run EXCEPT !.pc = p, !.own = Len(commits'),
                                  !.exit = IF p = "done" THEN 12 ELSE None]
        PROVE  CheckpointInv'
    <3>1. /\ NewCommit(index, head, "review", run.via) \in CommitRecords
          /\ NewCommit(index, head, "review", run.via).parent \in CommitIds
      BY <1>1 DEF NewCommit, CommitRecords, RunRecords, CheckpointInv, StoreInv, CommitIds
    <3>2. /\ StoreInv' /\ CommitIds \subseteq CommitIds'
          /\ Len(commits') = Len(commits) + 1 /\ Len(commits) \in Nat
      BY <1>12, <2>2, <3>1, AppendKeepsStore DEF GitWritesCommit, CheckpointInv, StoreInv
    <3>3. /\ run' \in RunRecords /\ SameReview /\ run'.pc = p
          /\ run'.exit = (IF p = "done" THEN 12 ELSE None)
          /\ run'.own = Len(commits') /\ run'.sha = run.sha /\ run'.parent = run.parent
      <4> DEFINE new == Len(commits')
                 code == IF p = "done" THEN 12 ELSE None
      <4>1. new \in Nat /\ code \in {None} \cup ExitCodes /\ p \in Steps
        BY <3>2 DEF Steps, ExitCodes
      <4>2. run' = [run EXCEPT !.pc = p, !.own = new, !.exit = code]
        BY <2>2
      <4> HIDE DEF new, code
      <4>3. /\ run' \in RunRecords /\ SameReview /\ run'.pc = p /\ run'.exit = code
            /\ run'.own = new /\ run'.sha = run.sha /\ run'.parent = run.parent
        BY <1>1, <4>1, <4>2 DEF RunRecords, SameReview
      <4> QED
        BY <4>3 DEF new, code
    <3>4. run'.own \in CommitIds' /\ run'.own # 0
      BY <3>2, <3>3 DEF CommitIds
    <3>5. LocalsInv' /\ GateInv' /\ StampInv'
      BY <1>1, <1>2, <1>3, <3>2, <3>3, <3>4, GateRests
    <3>6. ProgressInv' /\ CheckpointIsReviewed'
      BY <1>2, <1>12, <3>3, <3>4
         DEF GitWritesCommit, ProgressInv, CheckpointIsReviewed, CheckpointInv, SameReview,
             ExitCodes
    <3> QED
      BY <3>2, <3>5, <3>6 DEF CheckpointInv
  <2> QED
    BY <1>12, <2>1, <2>2 DEF GitWritesCommit
<1>13. CASE ParseSha
  <2>1. StoreInv' /\ CommitIds' = CommitIds
    BY <1>3, <1>13, QuietStep DEF ParseSha
  <2>2. CASE Exit(12)
    BY <2>1, <2>2, <1>4, <1>7 DEF ExitCodes, Steps
  <2>3. CASE run' = [run EXCEPT !.pc = "verify", !.sha = run.own]
    <3>1. /\ run' \in RunRecords /\ SameReview /\ run'.pc = "verify" /\ run'.exit = None
          /\ run'.own = run.own /\ run'.sha = run.own /\ run'.parent = run.parent
      BY <1>1, <1>2, <2>3 DEF RunRecords, Steps, SameReview
    <3>2. LocalsInv' /\ GateInv' /\ StampInv'
      BY <1>1, <1>2, <1>3, <2>1, <3>1, GateRests
    <3>3. ProgressInv' /\ CheckpointIsReviewed'
      BY <1>2, <1>13, <3>1
         DEF ParseSha, ProgressInv, CheckpointIsReviewed, CheckpointInv, SameReview, ExitCodes
    <3> QED
      BY <2>1, <3>2, <3>3 DEF CheckpointInv
  <2> QED
    BY <1>13, <2>2, <2>3 DEF ParseSha
<1>14. CASE VerifyCheckpoint
  <2>1. /\ StoreInv' /\ CommitIds' = CommitIds /\ run.sha = run.own /\ run.own # 0 /\ run.ok
        /\ \A c \in CommitIds : CommitDiff(c)' = CommitDiff(c)
    BY <1>3, <1>14, QuietStep DEF VerifyCheckpoint, CheckpointInv, ProgressInv
  <2>2. CASE Goto("undo")
    BY <1>14, <2>1, <2>2, <1>5, <1>7 DEF Steps, VerifyCheckpoint
  <2>3. CASE Exit(0) /\ CommitDiff(run.sha) = run.diff
    <3>1. Sets("done", 0) /\ Own
      BY <2>3, <1>4 DEF ExitCodes
    <3>2. LocalsInv' /\ GateInv' /\ StampInv'
      BY <1>1, <1>2, <1>3, <2>1, <3>1, GateRests DEF Sets, Own
    <3>3. ProgressInv'
      BY <3>1 DEF Sets, ProgressInv
    <3>4. run'.own = run.own /\ run'.diff = run.diff
      BY <3>1 DEF Sets, Own, SameReview
    <3>5. noPrefix' = noPrefix /\ commits' = commits
      BY <1>14 DEF VerifyCheckpoint, repo
    <3>6. CommitDiff(run.own).changes = run.diff.changes
      BY <2>1, <2>3
    <3>7. (CommitDiff(run.own).changes = run.diff.changes)'
      BY <3>4, <3>5, <3>6 DEF CommitDiff, TreeOf, ParentOf, EmptyTree, Text, Changes
    <3>8. CheckpointIsReviewed'
      BY <2>1, <3>4, <3>7 DEF CheckpointIsReviewed
    <3> QED
      BY <2>1, <3>2, <3>3, <3>8 DEF CheckpointInv
  <2> QED
    BY <1>2, <1>14, <2>2, <2>3 DEF VerifyCheckpoint
<1>15. CASE UndoCheckpoint
  <2>1. run.sha # 0 /\ run.sha \in CommitIds
    BY <1>1, <1>15 DEF UndoCheckpoint, CheckpointInv, ProgressInv
  <2>2. head' \in CommitIds
    BY <1>15, <2>1, TreeOfCommit DEF UndoCheckpoint, UndoTarget, CheckpointInv, StoreInv
  <2>3. StoreInv' /\ CommitIds' = CommitIds
    BY <1>15, <2>2 DEF UndoCheckpoint, CheckpointInv, StoreInv, CommitIds
  <2> QED
    BY <1>4, <1>7, <1>15, <2>3 DEF UndoCheckpoint, ExitCodes, Steps
<1> QED
  BY <1>8, <1>9, <1>10, <1>11, <1>12, <1>13, <1>14, <1>15 DEF Commit

-----------------------------------------------------------------------------
(* The steps of the other session.                                         *)

LEMMA ForeignKeepsInv == CheckpointInv /\ ForeignStep => CheckpointInv'
<1> SUFFICES ASSUME CheckpointInv, ForeignStep PROVE CheckpointInv'
  OBVIOUS
<1>1. UNCHANGED <<noPrefix, gate, run>> /\ foreign' \in 0..MaxForeign /\ 0..foreign \subseteq 0..foreign'
  BY DEF ForeignStep, ForeignStage, ForeignCommit, ForeignSoftReset, Moves, CheckpointInv, GateInv
<1>2. run.own \in CommitIds
  BY DEF CheckpointInv, LocalsInv
<1>3. /\ StoreInv' /\ CommitIds \subseteq CommitIds'
      /\ \A c \in CommitIds : c # 0 => CommitDiff(c)' = CommitDiff(c)
  <2>1. CASE ForeignStage
    <3>1. index' \in Trees
      BY <2>1 DEF ForeignStage, CheckpointInv, StoreInv, Trees
    <3>2. StoreInv' /\ CommitIds' = CommitIds
      BY <2>1, <3>1 DEF ForeignStage, CheckpointInv, StoreInv, CommitIds
    <3> QED
      BY <2>1, <3>2 DEF ForeignStage, CommitDiff, TreeOf, ParentOf, EmptyTree, Text, Changes
  <2>2. CASE ForeignCommit
    <3>1. PICK v \in Admissions : commits' = Append(commits, NewCommit(index, head, "other", v))
      BY <2>2 DEF ForeignCommit
    <3>2. /\ NewCommit(index, head, "other", v) \in CommitRecords
          /\ NewCommit(index, head, "other", v).parent \in CommitIds
      BY DEF NewCommit, CommitRecords, Admissions, CheckpointInv, StoreInv, CommitIds
    <3> QED
      BY <2>2, <1>1, <3>1, <3>2, AppendKeepsStore, CommitDiffIsStable
         DEF ForeignCommit, CheckpointInv
  <2>3. CASE ForeignSoftReset
    <3>1. head' \in CommitIds
      BY <2>3, TreeOfCommit DEF ForeignSoftReset, CheckpointInv, StoreInv
    <3>2. StoreInv' /\ CommitIds' = CommitIds
      BY <2>3, <3>1 DEF ForeignSoftReset, CheckpointInv, StoreInv, CommitIds
    <3> QED
      BY <2>3, <3>2 DEF ForeignSoftReset, CommitDiff, TreeOf, ParentOf, EmptyTree, Text, Changes
  <2> QED
    BY <2>1, <2>2, <2>3 DEF ForeignStep
<1>4. LocalsInv' /\ ProgressInv'
  BY <1>1, <1>3 DEF LocalsInv, ProgressInv, CheckpointInv, gate
<1>5. GateInv'
  <2>1. stampDiff \in [head: CommitIds, diff: DiffTexts] =>
          stampDiff \in [head: CommitIds', diff: DiffTexts]
    BY <1>3
  <2> QED
    BY <1>1, <2>1 DEF GateInv, CheckpointInv, gate
<1>6. CheckpointIsReviewed'
  BY <1>1, <1>2, <1>3 DEF CheckpointIsReviewed, CheckpointInv
<1>7. StampInv'
  BY <1>1 DEF StampInv, Certifies, CheckpointInv, gate
<1> QED
  BY <1>3, <1>4, <1>5, <1>6, <1>7 DEF CheckpointInv

LEMMA NextKeepsCheckpointInv == CheckpointInv /\ [Next]_vars => CheckpointInv'
<1> SUFFICES ASSUME CheckpointInv, UNCHANGED vars PROVE CheckpointInv'
  BY DispatchKeepsInv, CertifyKeepsInv, CommitKeepsInv, ForeignKeepsInv
     DEF Next, ReviewStep, Finished
<1> QED
  BY DEF vars, repo, gate, CheckpointInv, StoreInv, LocalsInv, GateInv, ProgressInv, CommitIds,
         CheckpointIsReviewed, StampInv, Certifies, CommitDiff, TreeOf, ParentOf,
         EmptyTree, Text, Changes

(* The inductive invariant holds in every reachable state.                 *)
LEMMA SpecKeepsCheckpointInv == Spec => []CheckpointInv
BY InitEstablishesCheckpointInv, NextKeepsCheckpointInv, PTL DEF Spec

(* Every variable keeps its type, for any files, versions and bounds.      *)
THEOREM CheckpointTypeCorrect == Spec => []CTypeOK
<1>1. ASSUME CheckpointInv PROVE CTypeOK
  <2>1. \A c \in 1..Len(commits) :
          /\ commits[c].tree \in Trees
          /\ commits[c].parent \in 0..(c - 1)
          /\ commits[c].author \in {"review", "other"}
          /\ commits[c].via \in {"hash", "delta", "ungated"}
    <3> SUFFICES ASSUME NEW c \in 1..Len(commits)
                 PROVE  commits[c] \in CommitRecords /\ commits[c].parent < c /\ c \in Nat
      BY DEF CommitRecords
    <3> QED
      BY <1>1 DEF CheckpointInv, StoreInv
  <2>2. stampDiff = None \/ (stampDiff.head \in CommitIds /\ stampDiff.diff \in DiffTexts)
    BY <1>1 DEF CheckpointInv, GateInv
  <2>3. /\ run.pc \in Steps
        /\ run.diff \in {None} \cup DiffTexts
        /\ run.hash \in {None} \cup DiffTexts
        /\ {run.parent, run.own, run.sha} \subseteq CommitIds
        /\ run.exit \in {None} \cup ExitCodes
        /\ {run.since, run.read} \subseteq 0..foreign
    BY <1>1 DEF CheckpointInv, LocalsInv, RunRecords
  <2>4. index \in Trees /\ head \in CommitIds
    BY <1>1 DEF CheckpointInv, StoreInv
  <2>5. /\ noPrefix \in BOOLEAN /\ marker \in BOOLEAN
        /\ foreign \in 0..MaxForeign
        /\ stamp \in {None} \cup DiffTexts
    BY <1>1 DEF CheckpointInv, GateInv
  <2> QED
    BY <2>1, <2>2, <2>3, <2>4, <2>5, Zenon DEF CTypeOK
<1> QED
  BY <1>1, SpecKeepsCheckpointInv, PTL

(* A --commit run over the index that exits 0 made a commit that holds     *)
(* exactly the reviewed changes, whatever another session and the hooks do.*)
THEOREM CheckpointHoldsReviewedDiff == Spec => []CheckpointIsReviewed
BY SpecKeepsCheckpointInv, PTL DEF CheckpointInv

-----------------------------------------------------------------------------
(* The stamp and what the seats read.                                      *)

ChangesOf(c) == Changes(TreeOf(ParentOf(c)), TreeOf(c))

(* While the other session rests, what is staged is what was read; so is   *)
(* then a digest, a stamp, and a commit that the stamp lets in.            *)
CalmInv ==
    /\ run.pc \in {"hash", "review", "stamp"} /\ run.staged /\ ~run.stdin /\ run.since = foreign
          => Staged = run.diff.changes
    /\ run.pc \in {"diff", "hash"} => run.hash = None
    /\ run.hash # None /\ run.staged /\ ~run.stdin /\ run.read = run.since
          => run.hash.changes = run.diff.changes
    /\ stamp = None => run.via # "hash" /\ \A c \in 1..Len(commits) : commits[c].via # "hash"
    /\ StampCertifiesReview

(* A commit made later does not change the changes of an earlier one.      *)
LEMMA ChangesAreStable ==
    ASSUME StoreInv, NEW new, commits' = Append(commits, new), NEW c \in 1..Len(commits)
    PROVE  ChangesOf(c)' = ChangesOf(c) /\ commits'[c] = commits[c]
<1>1. \A d \in 1..Len(commits) : commits'[d] = commits[d]
  BY DEF StoreInv
<1>2. ParentOf(c) \in CommitIds /\ c # 0 /\ c \in CommitIds
  BY TreeOfCommit DEF CommitIds, StoreInv
<1>3. \A d \in CommitIds : (IF d = 0 THEN EmptyTree ELSE commits'[d].tree) = TreeOf(d)
  BY <1>1 DEF TreeOf, CommitIds, StoreInv
<1>4. commits'[c].parent = ParentOf(c)
  BY <1>1 DEF ParentOf
<1>5. ChangesOf(c)' = Changes(IF ParentOf(c) = 0 THEN EmptyTree ELSE commits'[ParentOf(c)].tree,
                              commits'[c].tree)
  BY <1>2, <1>4 DEF ChangesOf, TreeOf, ParentOf, EmptyTree, Changes
<1>6. /\ (IF ParentOf(c) = 0 THEN EmptyTree ELSE commits'[ParentOf(c)].tree) = TreeOf(ParentOf(c))
      /\ commits'[c].tree = TreeOf(c)
  BY <1>2, <1>3
<1>7. ChangesOf(c) = Changes(TreeOf(ParentOf(c)), TreeOf(c))
  BY DEF ChangesOf
<1> QED
  BY <1>1, <1>5, <1>6, <1>7

(* What lets a commit in by its hash is the stamp, and it is what is staged.*)
LEMMA HashIsOfTheStaged ==
    ASSUME NEW v \in Admissions, v = "hash"
    PROVE  stamp # None /\ stamp.changes = Staged
BY DEF Admissions, HashMatches, AmbientStagedDiff, Text

(* Steps that leave the commits, the stamp and the review's facts alone.   *)
LEMMA CalmRests ==
    ASSUME CheckpointInv, CalmInv, UNCHANGED <<commits, stamp>>,
           run'.diff = run.diff, run'.hash = run.hash, run'.since = run.since, run'.read = run.read,
           run'.staged = run.staged, run'.stdin = run.stdin, run'.via # "hash" \/ stamp # None,
           stamp # None => run'.ok = run.ok /\ run'.truncated = run.truncated,
           run'.pc \in {"hash", "review", "stamp"} /\ run.since = foreign' =>
              /\ run.pc \in {"hash", "review", "stamp"} /\ run.since = foreign
              /\ UNCHANGED <<index, head>>,
           run'.pc \notin {"diff", "hash"} \/ run.hash = None
    PROVE  CalmInv'
<1>1. StampCertifiesReview'
  BY DEF CalmInv, StampCertifiesReview, Certifies, Changes, TreeOf, ParentOf, EmptyTree
<1>2. run'.pc \in {"hash", "review", "stamp"} /\ run.since = foreign' => Staged' = Staged
  BY DEF Staged, Changes, TreeOf, EmptyTree
<1> QED
  BY <1>1, <1>2 DEF CalmInv

LEMMA DispatchKeepsCalm == CheckpointInv /\ CalmInv /\ Dispatch => CalmInv'
<1> SUFFICES ASSUME CheckpointInv, CalmInv, Dispatch PROVE CalmInv'
  OBVIOUS
<1>1. UNCHANGED <<noPrefix, repo, foreign, gate>>
  BY DEF Dispatch, ReadDiff, ReadStampHash, Review
<1>2. Staged' = Staged /\ stamp' = stamp /\ commits' = commits /\ index' = index /\ head' = head
  BY <1>1 DEF repo, gate, Staged, Changes, TreeOf, EmptyTree
<1>3. stamp = None /\ run \in RunRecords
  BY DEF Dispatch, ReadDiff, ReadStampHash, Review, CheckpointInv, ProgressInv, LocalsInv
<1>4. StampCertifiesReview'
  BY <1>2, <1>3 DEF StampCertifiesReview
<1>5. CASE ReadDiff
  <2>1. CASE Exit(4)
    <3>1. /\ run'.pc = "done" /\ run'.hash = run.hash /\ run'.diff = run.diff /\ run'.via = run.via
          /\ run'.read = run.read /\ run'.since = run.since
          /\ run'.staged = run.staged /\ run'.stdin = run.stdin
      BY <1>3, <2>1 DEF Exit, RunRecords
    <3> QED
      BY <1>2, <1>3, <1>4, <3>1 DEF CalmInv
  <2>2. ASSUME NEW d \in IF run.staged /\ ~run.stdin THEN {PinnedStagedDiff}
                         ELSE {Text(Changes(TreeOf(head), t), TRUE) : t \in Trees},
               run' = IF d.changes = {}
                      THEN [run EXCEPT !.pc = "done", !.exit = 1]
                      ELSE [run EXCEPT !.pc = "hash", !.diff = d, !.since = foreign, !.read = foreign]
        PROVE  CalmInv'
    <3>1. run.staged /\ ~run.stdin => d.changes = Staged
      BY <2>2 DEF PinnedStagedDiff, Text
    <3>2. run.hash = None
      BY <1>5 DEF ReadDiff, CalmInv
    <3>3. CASE run' = [run EXCEPT !.pc = "done", !.exit = 1]
      <4>1. run'.pc = "done" /\ run'.hash = run.hash /\ run'.via = run.via
        BY <1>3, <3>3 DEF RunRecords
      <4> QED
        BY <1>2, <1>3, <1>4, <3>2, <4>1 DEF CalmInv
    <3>4. CASE run' = [run EXCEPT !.pc = "hash", !.diff = d, !.since = foreign, !.read = foreign]
      <4>1. /\ run'.pc = "hash" /\ run'.hash = run.hash /\ run'.diff = d /\ run'.via = run.via
            /\ run'.staged = run.staged /\ run'.stdin = run.stdin
        BY <1>3, <3>4 DEF RunRecords
      <4> QED
        BY <1>2, <1>3, <1>4, <3>1, <3>2, <4>1 DEF CalmInv
    <3> QED
      BY <2>2, <3>3, <3>4
  <2> QED
    BY <1>5, <2>1, <2>2 DEF ReadDiff
<1>6. CASE ReadStampHash
  <2>1. PICK h \in {None} \cup (IF run.staged THEN {AmbientStagedDiff} ELSE {}) :
          run' = [run EXCEPT !.pc = "review", !.hash = h, !.read = IF h = None THEN @ ELSE foreign]
    BY <1>6 DEF ReadStampHash
  <2>2. /\ run'.pc = "review" /\ run'.hash = h /\ run'.diff = run.diff /\ run'.via = run.via
        /\ run'.since = run.since /\ (h # None => run'.read = foreign)
        /\ run'.staged = run.staged /\ run'.stdin = run.stdin
    BY <1>3, <2>1 DEF RunRecords
  <2>3. h # None => h.changes = Staged
    BY <2>1 DEF AmbientStagedDiff, Text
  <2>4. run.pc = "hash"
    BY <1>6 DEF ReadStampHash
  <2> QED
    BY <1>1, <1>2, <1>3, <1>4, <2>2, <2>3, <2>4 DEF CalmInv
<1>7. CASE Review
  <2>1. run.pc = "review" /\ run'.pc = "stamp"
        /\ run'.hash = run.hash /\ run'.diff = run.diff /\ run'.via = run.via
        /\ run'.since = run.since /\ run'.read = run.read
        /\ run'.staged = run.staged /\ run'.stdin = run.stdin
    BY <1>3, <1>7 DEF Review, RunRecords
  <2> QED
    BY <1>1, <1>2, <1>3, <1>4, <2>1 DEF CalmInv
<1> QED
  BY <1>5, <1>6, <1>7 DEF Dispatch

LEMMA CertifyKeepsCalm == CheckpointInv /\ CalmInv /\ Certify => CalmInv'
<1> SUFFICES ASSUME CheckpointInv, CalmInv, Certify PROVE CalmInv'
  OBVIOUS
<1>1. run \in RunRecords /\ UNCHANGED <<noPrefix, repo, foreign>>
  BY DEF Certify, SkipStamp, WriteStamp, WriteStampDiff, TouchMarker, gate, CheckpointInv, LocalsInv
<1>2. ASSUME NEW p \in {"stampDiff", "marker", "checkpoint"}, Goto(p), UNCHANGED stamp
      PROVE  CalmInv'
  <2>1. /\ run'.pc = p /\ run'.diff = run.diff /\ run'.hash = run.hash /\ run'.since = run.since
        /\ run'.read = run.read /\ run'.staged = run.staged /\ run'.stdin = run.stdin
        /\ run'.via = run.via /\ run'.ok = run.ok /\ run'.truncated = run.truncated
    BY <1>1, <1>2 DEF Goto, RunRecords
  <2>2. run'.via # "hash" \/ stamp # None
    BY <2>1 DEF CalmInv
  <2> QED
    BY <1>1, <1>2, <2>1, <2>2, CalmRests DEF repo
<1>3. ASSUME run.pc = "stamp", Certifies, stamp' \in StampText,
             run' = [run EXCEPT !.pc = "stampDiff", !.read = IF run.hash = None THEN foreign ELSE @]
      PROVE  CalmInv'
  <2>1. /\ run'.pc = "stampDiff" /\ run'.diff = run.diff /\ run'.hash = run.hash
        /\ run'.since = run.since /\ run'.staged = run.staged /\ run'.stdin = run.stdin
        /\ run'.via = run.via /\ run'.ok = run.ok /\ run'.truncated = run.truncated
        /\ run'.read = IF run.hash = None THEN foreign ELSE run.read
    BY <1>1, <1>3 DEF RunRecords
  <2>2. run.staged /\ ~run.stdin /\ stamp = None /\ run.diff # None
    BY <1>3 DEF Certifies, CheckpointInv, ProgressInv
  <2>3. run'.read = run'.since => stamp'.changes = run'.diff.changes
    <3>1. CASE run.hash # None
      BY <1>3, <2>1, <2>2, <3>1 DEF StampText, CalmInv
    <3>2. CASE run.hash = None
      <4>1. AmbientStagedDiff.changes = Staged
        BY DEF AmbientStagedDiff, Text
      <4> QED
        BY <1>3, <2>1, <2>2, <3>2, <4>1 DEF StampText, CalmInv
    <3> QED
      BY <3>1, <3>2
  <2>4. commits' = commits /\ \A c \in 1..Len(commits) : commits[c].via # "hash"
    BY <1>1, <2>2 DEF CalmInv, repo
  <2>5. StampCertifiesReview'
    BY <1>3, <2>1, <2>3, <2>4 DEF StampCertifiesReview, Certifies
  <2>6. stamp' # None
    <3>1. AmbientStagedDiff \in DiffTexts /\ run.diff \in DiffTexts
      BY StagedIsText, <1>1, <2>2 DEF RunRecords
    <3> QED
      BY <1>3, <3>1 DEF StampText
  <2> QED
    BY <1>3, <2>1, <2>2, <2>5, <2>6 DEF CalmInv
<1> QED
  BY <1>2, <1>3 DEF Certify, SkipStamp, WriteStamp, WriteStampDiff, TouchMarker, gate

LEMMA CommitKeepsCalm == CheckpointInv /\ CalmInv /\ Commit => CalmInv'
<1> SUFFICES ASSUME CheckpointInv, CalmInv, Commit PROVE CalmInv'
  OBVIOUS
<1>1. run \in RunRecords /\ UNCHANGED <<noPrefix, foreign, gate>>
  BY DEF Commit, CheckpointGate, RecheckIndex, GitRunsHooks, GitGateJudges, GitWritesCommit,
         ParseSha, VerifyCheckpoint, UndoCheckpoint, CheckpointInv, LocalsInv
<1> DEFINE Kept ==
             /\ run'.diff = run.diff /\ run'.hash = run.hash /\ run'.since = run.since
             /\ run'.read = run.read /\ run'.staged = run.staged /\ run'.stdin = run.stdin
             /\ run'.ok = run.ok /\ run'.truncated = run.truncated
             /\ run'.pc \notin {"diff", "hash", "review", "stamp"}
<1>2. Kept /\ (run'.via # "hash" \/ stamp # None)
  <2>0. run.via # "hash" \/ stamp # None
    BY DEF CalmInv
  <2>1. ASSUME NEW p \in {"recheck", "commit", "undo"}, Goto(p) PROVE Kept /\ run'.via = run.via
    BY <1>1, <2>1 DEF Goto, RunRecords
  <2>2. ASSUME NEW c, Exit(c) PROVE Kept /\ run'.via = run.via
    BY <1>1, <2>2 DEF Exit, RunRecords
  <2>3. ASSUME NEW d, Refuse(d) PROVE Kept /\ run'.via = run.via
    BY <1>1, <2>3 DEF Refuse, RunRecords
  <2>4. CASE GitRunsHooks
    BY <1>1, <2>0, <2>4 DEF GitRunsHooks, RunRecords
  <2>5. CASE GitGateJudges
    <3>1. ASSUME NEW v \in Admissions, run' = [run EXCEPT !.pc = "write", !.via = v]
          PROVE  Kept /\ (run'.via # "hash" \/ stamp # None)
      BY <1>1, <3>1, HashIsOfTheStaged DEF RunRecords
    <3> QED
      BY <2>0, <2>2, <2>5, <3>1 DEF GitGateJudges
  <2>6. CASE GitWritesCommit
    <3>1. ASSUME NEW p \in {"parse", "done"}, NEW n, NEW e,
                 run' = [run EXCEPT !.pc = p, !.own = n, !.exit = e]
          PROVE  Kept /\ run'.via = run.via
      BY <1>1, <3>1 DEF RunRecords
    <3> HIDE DEF Kept
    <3>2. CASE Exit(12)
      BY <2>0, <2>2, <3>2
    <3>3. CASE \E p \in {"parse", "done"} :
                  run' = [run EXCEPT !.pc = p, !.own = Len(commits'),
                                     !.exit = IF p = "done" THEN 12 ELSE None]
      <4>1. PICK p \in {"parse", "done"} :
                  run' = [run EXCEPT !.pc = p, !.own = Len(commits'),
                                     !.exit = IF p = "done" THEN 12 ELSE None]
        BY <3>3
      <4> DEFINE n == Len(commits')
                 e == IF p = "done" THEN 12 ELSE None
      <4>2. run' = [run EXCEPT !.pc = p, !.own = n, !.exit = e]
        BY <4>1
      <4> HIDE DEF n, e
      <4>3. Kept /\ run'.via = run.via
        BY <3>1, <4>2
      <4> QED
        BY <2>0, <4>3
    <3> QED
      BY <2>6, <3>2, <3>3 DEF GitWritesCommit
  <2>7. CASE ParseSha
    <3>1. ASSUME run' = [run EXCEPT !.pc = "verify", !.sha = run.own] PROVE Kept /\ run'.via = run.via
      BY <1>1, <3>1 DEF RunRecords
    <3> QED
      BY <2>0, <2>2, <2>7, <3>1 DEF ParseSha
  <2>8. CASE CheckpointGate
    BY <2>0, <2>1, <2>2, <2>8 DEF CheckpointGate
  <2>9. CASE RecheckIndex
    BY <2>0, <2>1, <2>3, <2>9 DEF RecheckIndex
  <2>10. CASE VerifyCheckpoint
    BY <2>0, <2>1, <2>2, <2>10 DEF VerifyCheckpoint
  <2>11. CASE UndoCheckpoint
    BY <2>0, <2>2, <2>11 DEF UndoCheckpoint
  <2> HIDE DEF Kept
  <2> QED
    BY <2>4, <2>5, <2>6, <2>7, <2>8, <2>9, <2>10, <2>11 DEF Commit
<1>3. CASE UNCHANGED commits
  BY <1>1, <1>2, <1>3, CalmRests DEF gate
<1>4. ASSUME NEW new, commits' = Append(commits, new), new.author = "review", new.via = run.via
      PROVE  CalmInv'
  <2>1. stamp' = stamp /\ Len(commits') = Len(commits) + 1 /\ Len(commits) \in Nat
        /\ \A c \in 1..Len(commits') : c \in 1..Len(commits) \/ commits'[c] = new
    BY <1>1, <1>4 DEF gate, CheckpointInv, StoreInv
  <2>2. \A c \in 1..Len(commits) : ChangesOf(c)' = ChangesOf(c) /\ commits'[c] = commits[c]
    BY <1>4, ChangesAreStable DEF CheckpointInv
  <2>3. StampCertifiesReview'
    <3>1. SUFFICES ASSUME stamp # None PROVE StampCertifiesReview'
      BY <2>1 DEF StampCertifiesReview
    <3>2. Certifies' /\ (run.read = run.since => stamp.changes = run.diff.changes)
      BY <1>2, <3>1 DEF CalmInv, StampCertifiesReview, Certifies
    <3>3. ASSUME run.read = run.since, NEW c \in 1..Len(commits'),
                 commits'[c].via = "hash", commits'[c].author = "other"
          PROVE  ChangesOf(c)' = run.diff.changes
      <4>1. c \in 1..Len(commits)
        BY <1>4, <2>1, <3>3
      <4> QED
        BY <2>2, <3>1, <3>3, <4>1 DEF CalmInv, StampCertifiesReview, ChangesOf
    <3> QED
      BY <1>2, <2>1, <3>2, <3>3 DEF StampCertifiesReview, ChangesOf
  <2>4. stamp = None => \A c \in 1..Len(commits') : commits'[c].via # "hash"
    BY <1>4, <2>1, <2>2 DEF CalmInv
  <2> QED
    BY <1>2, <2>1, <2>3, <2>4 DEF CalmInv
<1>5. UNCHANGED commits \/ GitWritesCommit
  BY DEF Commit, CheckpointGate, RecheckIndex, GitRunsHooks, GitGateJudges, ParseSha,
         VerifyCheckpoint, UndoCheckpoint, repo
<1>6. ASSUME commits' = Append(commits, NewCommit(index, head, "review", run.via)) PROVE CalmInv'
  BY <1>4, <1>6 DEF NewCommit
<1> QED
  BY <1>3, <1>5, <1>6 DEF GitWritesCommit

LEMMA ForeignKeepsCalm == CheckpointInv /\ CalmInv /\ ForeignStep => CalmInv'
<1> SUFFICES ASSUME CheckpointInv, CalmInv, ForeignStep PROVE CalmInv'
  OBVIOUS
<1>1. UNCHANGED <<noPrefix, gate, run>> /\ run.since # foreign'
  BY DEF ForeignStep, ForeignStage, ForeignCommit, ForeignSoftReset, Moves, CheckpointInv, LocalsInv,
         GateInv
<1>2. run.via # "hash" \/ stamp # None
  BY DEF CalmInv
<1>3. CASE UNCHANGED commits
  BY <1>1, <1>2, <1>3, CalmRests DEF gate, CalmInv
<1>4. ASSUME NEW v \in Admissions, commits' = Append(commits, NewCommit(index, head, "other", v))
      PROVE  CalmInv'
  <2> DEFINE new == NewCommit(index, head, "other", v)
  <2>0. PICK n : n = Len(commits')
    OBVIOUS
  <2>1. /\ stamp' = stamp /\ n = Len(commits) + 1 /\ Len(commits) \in Nat
        /\ \A c \in 1..n : c \in 1..Len(commits) \/ c = n
        /\ commits'[n] = new /\ new.via = v /\ new.parent = head /\ new.tree = index
    BY <1>1, <1>4, <2>0 DEF gate, CheckpointInv, StoreInv, NewCommit
  <2>2. \A c \in 1..Len(commits) : ChangesOf(c)' = ChangesOf(c) /\ commits'[c] = commits[c]
    BY <1>4, ChangesAreStable DEF CheckpointInv
  <2>3. ChangesOf(n)' = Staged
    <3>1. (IF head = 0 THEN EmptyTree ELSE commits'[head].tree) = TreeOf(head) /\ n # 0
      BY <2>1, <2>2 DEF TreeOf, CheckpointInv, StoreInv, CommitIds
    <3> HIDE DEF new
    <3>2. ChangesOf(n)' = Changes(IF commits'[n].parent = 0 THEN EmptyTree
                                            ELSE commits'[commits'[n].parent].tree, commits'[n].tree)
      BY <3>1 DEF ChangesOf, TreeOf, ParentOf, EmptyTree, Changes
    <3> QED
      BY <2>1, <3>1, <3>2 DEF Staged
  <2>4. v = "hash" => stamp # None /\ stamp.changes = Staged
    BY HashIsOfTheStaged
  <2> HIDE DEF new
  <2>5. StampCertifiesReview'
    <3>1. SUFFICES ASSUME stamp # None PROVE StampCertifiesReview'
      BY <2>1 DEF StampCertifiesReview
    <3>2. Certifies' /\ (run.read = run.since => stamp.changes = run.diff.changes)
      BY <1>1, <3>1 DEF CalmInv, StampCertifiesReview, Certifies
    <3>3. ASSUME run.read = run.since, NEW c \in 1..n,
                 commits'[c].via = "hash", commits'[c].author = "other"
          PROVE  ChangesOf(c)' = run.diff.changes
      <4>1. CASE c = n
        <5>1. stamp.changes = Staged
          BY <2>1, <2>4, <3>3, <4>1
        <5>2. stamp.changes = run.diff.changes
          BY <3>2, <3>3
        <5> QED
          BY <2>3, <4>1, <5>1, <5>2
      <4>2. CASE c \in 1..Len(commits)
        BY <2>2, <3>1, <3>3, <4>2 DEF CalmInv, StampCertifiesReview, ChangesOf
      <4> QED
        BY <2>1, <4>1, <4>2
    <3> QED
      BY <1>1, <2>1, <3>2, <2>0, <3>3 DEF StampCertifiesReview, ChangesOf
  <2>6. stamp = None => \A c \in 1..n : commits'[c].via # "hash"
    BY <2>1, <2>2, <2>4 DEF CalmInv
  <2> QED
    BY <1>1, <1>2, <2>0, <2>1, <2>5, <2>6 DEF CalmInv
<1> QED
  BY <1>3, <1>4 DEF ForeignStep, ForeignStage, ForeignCommit, ForeignSoftReset

LEMMA NextKeepsCalm == CheckpointInv /\ CalmInv /\ [Next]_vars => CalmInv'
<1> SUFFICES ASSUME CheckpointInv, CalmInv, UNCHANGED vars PROVE CalmInv'
  BY DispatchKeepsCalm, CertifyKeepsCalm, CommitKeepsCalm, ForeignKeepsCalm
     DEF Next, ReviewStep, Finished
<1>1. run.via # "hash" \/ stamp # None
  BY DEF CalmInv
<1> QED
  BY <1>1, CalmRests DEF vars, repo, gate, CalmInv

LEMMA InitEstablishesCalm == Init => CalmInv
<1> SUFFICES ASSUME Init PROVE CalmInv
  OBVIOUS
<1>1. run.pc = "diff" /\ run.hash = None /\ run.via = "ungated" /\ stamp = None
  BY DEF Init, RunStart
<1>2. \A c \in 1..Len(commits) : commits[c].via # "hash"
  <2> SUFFICES ASSUME NEW c \in 1..Len(commits) PROVE commits[c].via # "hash"
    OBVIOUS
  <2>1. CASE commits = <<>>
    BY <2>1
  <2>2. ASSUME NEW base, commits = <<NewCommit(base, 0, "other", "ungated")>>
        PROVE  commits[c].via # "hash"
    <3>1. c = 1 /\ commits[1] = NewCommit(base, 0, "other", "ungated")
      BY <2>2
    <3> QED
      BY <3>1 DEF NewCommit
  <2> QED
    BY <2>1, <2>2 DEF Init
<1> QED
  BY <1>1, <1>2 DEF CalmInv, StampCertifiesReview

(* What the exact-hash gate accepts is what the seats read: unless the     *)
(* other session moved between the read of the diff and the read of the    *)
(* text that is stamped, the stamp is of the reviewed changes, and so is   *)
(* every commit another session gets in by it, however far apart they are. *)
THEOREM StampIsOfTheReview == Spec => []StampCertifiesReview
<1>1. CalmInv => StampCertifiesReview
  BY DEF CalmInv
<1> QED
  BY <1>1, InitEstablishesCalm, NextKeepsCalm, SpecKeepsCheckpointInv, PTL DEF Spec

-----------------------------------------------------------------------------
(* History.  What is proved of it is proved of any object store.           *)

Stores == {cs \in Seq(CommitRecords) : \A c \in 1..Len(cs) : cs[c].parent < c}

ClosedIn(cs, S) == \A d \in S : cs[d].parent \in S \cup {0}
Reach(cs, c) ==
    {d \in 1..Len(cs) :
        \A S \in SUBSET (1..Len(cs)) : c \in S \cup {0} /\ ClosedIn(cs, S) => d \in S}

LEMMA ReachIsHistory ==
    ASSUME NEW c
    PROVE  History(c) = Reach(commits, c) /\ (History(head))' = Reach(commits', head')
BY DEF History, Reach, ClosedIn, ClosedUnderParent, ParentOf

LEMMA StoreIsAStore ==
    ASSUME StoreInv
    PROVE  commits \in Stores /\ Len(commits) \in Nat /\ head \in 0..Len(commits)
BY DEF StoreInv, Stores, CommitIds

(* A parent is a commit of the store, or none.                             *)
LEMMA ParentIsOlder ==
    ASSUME NEW cs \in Stores, NEW c \in 1..Len(cs)
    PROVE  cs[c].parent \in 0..Len(cs) /\ cs[c].parent < c /\ Len(cs) \in Nat
<1>1. cs \in Seq(CommitRecords) /\ cs[c].parent < c
  BY DEF Stores
<1>2. cs[c] \in CommitRecords /\ Len(cs) \in Nat
  BY <1>1
<1> QED
  BY <1>1, <1>2 DEF CommitRecords

(* A commit reaches nothing that was made after it.                        *)
LEMMA ReachIsOlder ==
    ASSUME NEW cs \in Stores, NEW c \in 0..Len(cs)
    PROVE  Reach(cs, c) \subseteq 1..c
<1>1. Len(cs) \in Nat
  BY DEF Stores
<1>2. 1..c \in SUBSET (1..Len(cs)) /\ c \in (1..c) \cup {0}
  BY <1>1
<1>3. ClosedIn(cs, 1..c)
  BY <1>1, ParentIsOlder DEF ClosedIn
<1> QED
  BY <1>2, <1>3 DEF Reach

(* It reaches itself and what its parent reaches.                          *)
LEMMA ReachOfCommit ==
    ASSUME NEW cs \in Stores, NEW c \in 1..Len(cs)
    PROVE  Reach(cs, c) = {c} \cup Reach(cs, cs[c].parent)
<1>1. c # 0
  BY ParentIsOlder
<1>2. ASSUME NEW d \in Reach(cs, c), d # c PROVE d \in Reach(cs, cs[c].parent)
  <2> SUFFICES ASSUME NEW S \in SUBSET (1..Len(cs)), cs[c].parent \in S \cup {0},
                      ClosedIn(cs, S)
               PROVE  d \in S
    BY DEF Reach
  <2>1. ClosedIn(cs, S \cup {c}) /\ S \cup {c} \in SUBSET (1..Len(cs))
    BY DEF ClosedIn
  <2> QED
    BY <1>2, <2>1 DEF Reach
<1>3. c \in Reach(cs, c)
  BY <1>1 DEF Reach
<1>4. ASSUME NEW d \in Reach(cs, cs[c].parent) PROVE d \in Reach(cs, c)
  <2> SUFFICES ASSUME NEW S \in SUBSET (1..Len(cs)), c \in S \cup {0}, ClosedIn(cs, S)
               PROVE  d \in S
    BY DEF Reach
  <2>1. cs[c].parent \in S \cup {0}
    BY <1>1 DEF ClosedIn
  <2> QED
    BY <2>1 DEF Reach
<1> QED
  BY <1>2, <1>3, <1>4

(* A commit made later changes nothing in the history of an older one.     *)
LEMMA ReachOfAppend ==
    ASSUME NEW cs \in Stores, NEW new \in CommitRecords, NEW c \in 0..Len(cs),
           new.parent \in 0..Len(cs)
    PROVE  /\ Reach(Append(cs, new), c) = Reach(cs, c)
           /\ Append(cs, new) \in Stores
<1> DEFINE longer == Append(cs, new)
           n == Len(cs)
<1>1. /\ n \in Nat /\ longer \in Seq(CommitRecords) /\ Len(longer) = n + 1
      /\ \A d \in 1..n : longer[d] = cs[d]
      /\ longer[n + 1] = new
  BY DEF Stores
<1> HIDE DEF longer, n
<1>2. longer \in Stores
  <2> SUFFICES ASSUME NEW d \in 1..Len(longer) PROVE longer[d].parent < d
    BY <1>1 DEF Stores
  <2>1. CASE d = n + 1
    BY <1>1, <2>1 DEF n
  <2>2. CASE d \in 1..n
    BY <1>1, <2>2, ParentIsOlder DEF n
  <2> QED
    BY <1>1, <2>1, <2>2
<1>3. \A d \in 1..n : cs[d].parent \in 0..n
  BY ParentIsOlder DEF n
<1>4. ASSUME NEW S \in SUBSET (1..n), ClosedIn(cs, S)
      PROVE  S \in SUBSET (1..Len(longer)) /\ ClosedIn(longer, S)
  BY <1>1, <1>4 DEF ClosedIn
<1>5. ASSUME NEW S \in SUBSET (1..Len(longer)), ClosedIn(longer, S)
      PROVE  S \cap (1..n) \in SUBSET (1..n) /\ ClosedIn(cs, S \cap (1..n))
  <2> SUFFICES ASSUME NEW d \in S \cap (1..n)
               PROVE  cs[d].parent \in (S \cap (1..n)) \cup {0}
    BY DEF ClosedIn
  <2>1. cs[d].parent \in S \cup {0} /\ cs[d].parent \in 0..n
    BY <1>1, <1>3, <1>5 DEF ClosedIn
  <2> QED
    BY <1>1, <2>1
<1>6. c \in 0..n
  BY DEF n
<1>7. Reach(longer, c) \subseteq Reach(cs, c)
  <2> SUFFICES ASSUME NEW d \in Reach(longer, c), NEW S \in SUBSET (1..n),
                      c \in S \cup {0}, ClosedIn(cs, S)
               PROVE  d \in S
    <3>1. c \in 0..Len(longer)
      BY <1>1, <1>6
    <3>2. Reach(longer, c) \subseteq 1..c
      BY <1>2, <3>1, ReachIsOlder
    <3>3. 1..c \subseteq 1..n
      BY <1>1, <1>6
    <3> QED
      BY <3>2, <3>3 DEF Reach, n
  <2> QED
    BY <1>4 DEF Reach
<1>8. Reach(cs, c) \subseteq Reach(longer, c)
  <2> SUFFICES ASSUME NEW d \in Reach(cs, c), NEW S \in SUBSET (1..Len(longer)),
                      c \in S \cup {0}, ClosedIn(longer, S)
               PROVE  d \in S
    BY <1>1 DEF Reach, n
  <2>1. c \in (S \cap (1..n)) \cup {0}
    BY <1>1, <1>6
  <2> QED
    BY <1>5, <2>1 DEF Reach, n
<1> QED
  BY <1>2, <1>7, <1>8 DEF longer

-----------------------------------------------------------------------------
(* What keeps small drifts from piling up: the baseline is written once,   *)
(* and every commit let in as a trivial delta sits on a parent no newer    *)
(* than the HEAD the baseline names.                                       *)

Delta(cs) == {c \in 1..Len(cs) : cs[c].via = "delta"}
BeforeBaseline == {"diff", "hash", "review", "stamp", "stampDiff"}

DriftInv ==
    /\ run.pc \in BeforeBaseline => stampDiff = None
    /\ stampDiff = None => Delta(commits) = {}
    /\ \A d \in Delta(commits) :
         commits[d].parent <= stampDiff.head /\ stampDiff.head < d
    /\ run.pc = "write" /\ run.via = "delta" =>
         /\ stampDiff # None
         /\ \A d \in Reach(commits, head) : d <= stampDiff.head \/ d > run.parent
    /\ \A c \in 0..Len(commits) :
         \A d, e \in Reach(commits, c) \cap Delta(commits) : d = e

(* A step that commits nothing and does not move the branch forward.       *)
LEMMA NoCommitKeepsDrift ==
    ASSUME DriftInv, UNCHANGED <<commits, stampDiff>>,
           Reach(commits, head') \subseteq Reach(commits, head),
           run'.pc \in BeforeBaseline => run.pc \in BeforeBaseline,
           run'.pc = "write" /\ run'.via = "delta" =>
              run.pc = "write" /\ run.via = "delta" /\ run'.parent = run.parent
    PROVE  DriftInv'
<1>1. Reach(commits, head)' = Reach(commits, head') /\ Delta(commits)' = Delta(commits)
  BY DEF Reach, ClosedIn, Delta
<1>2. \A c \in 0..Len(commits) : Reach(commits', c) = Reach(commits, c)
  OBVIOUS
<1> QED
  BY <1>1, <1>2 DEF DriftInv

(* A commit on top of HEAD, a trivial delta only if HEAD is the baseline's *)
(* or older.                                                               *)
LEMMA CommitKeepsDrift ==
    ASSUME StoreInv, GateInv, DriftInv,
           NEW new \in CommitRecords, new.parent = head,
           commits' = Append(commits, new), head' = Len(commits'), UNCHANGED stampDiff,
           new.via = "delta" => stampDiff # None /\ head <= stampDiff.head,
           run'.pc \in BeforeBaseline => run.pc \in BeforeBaseline,
           run'.pc = "write" /\ run'.via = "delta" => run' = run /\ run.parent \in CommitIds
    PROVE  DriftInv'
<1> DEFINE n == Len(commits)
           H == stampDiff.head
<1>1. /\ commits \in Stores /\ n \in Nat /\ head \in 0..n
      /\ commits' \in Seq(CommitRecords) /\ Len(commits') = n + 1
      /\ \A d \in 1..n : commits'[d] = commits[d]
      /\ commits'[n + 1] = new
  BY StoreIsAStore DEF StoreInv
<1>2. stampDiff # None => H \in 0..n
  BY DEF GateInv, CommitIds
<1> HIDE DEF n, H
<1>3. commits' \in Stores
  BY <1>1, ReachOfAppend DEF n
<1>4. \A c \in 0..n : Reach(commits', c) = Reach(commits, c)
  BY <1>1, ReachOfAppend DEF n
<1>5. Reach(commits', n + 1) = {n + 1} \cup Reach(commits, head)
  <2>1. n + 1 \in 1..Len(commits') /\ commits'[n + 1].parent = head
    BY <1>1
  <2>2. ASSUME NEW c \in 1..Len(commits')
        PROVE  Reach(commits', c) = {c} \cup Reach(commits', commits'[c].parent)
    BY <1>3, ReachOfCommit, Zenon
  <2> QED
    BY <1>1, <1>4, <2>2
<1>6. \A c \in 0..n : Reach(commits, c) \subseteq 1..c
  BY <1>1, ReachIsOlder DEF n
<1>7. Delta(commits') = Delta(commits) \cup (IF new.via = "delta" THEN {n + 1} ELSE {})
  BY <1>1 DEF Delta, n
<1>8. \A d \in Delta(commits) : d \in 1..n /\ commits[d].parent <= H /\ H < d
  BY DEF DriftInv, Delta, H, n
<1>9. \A d \in Delta(commits') : commits'[d].parent <= H /\ H < d
  <2>1. \A d \in Delta(commits) : commits'[d].parent <= H /\ H < d
    BY <1>1, <1>8
  <2>2. new.via = "delta" => commits'[n + 1].parent <= H /\ H < n + 1
    BY <1>1, <1>2 DEF H
  <2> QED
    BY <1>7, <2>1, <2>2
<1>10. stampDiff = None => Delta(commits') = {}
  BY <1>7 DEF DriftInv
<1>11. ASSUME run'.pc = "write" /\ run'.via = "delta"
       PROVE  /\ stampDiff # None
              /\ \A d \in Reach(commits', head') : d <= H \/ d > run'.parent
  <2>1. /\ stampDiff # None /\ run'.parent = run.parent /\ run.parent \in 0..n
        /\ \A d \in Reach(commits, head) : d <= H \/ d > run.parent
    BY <1>11 DEF DriftInv, H, n, CommitIds
  <2>2. n + 1 > run.parent
    BY <1>1, <2>1
  <2>3. head' = n + 1
    BY <1>1
  <2> QED
    BY <1>5, <2>1, <2>2, <2>3
<1>12. \A c \in 0..n : \A d, e \in Reach(commits, c) \cap Delta(commits) : d = e
  BY DEF DriftInv, n
<1>13. \A c \in 0..n : Reach(commits, c) \cap Delta(commits') = Reach(commits, c) \cap Delta(commits)
  BY <1>1, <1>6, <1>7
<1>14. \A d, e \in Reach(commits', n + 1) \cap Delta(commits') : d = e
  <2>1. CASE new.via = "delta"
    <3>1. ASSUME NEW d \in Reach(commits, head), d \in Delta(commits') PROVE FALSE
      <4>1. d \in Delta(commits) /\ d \in 1..head
        BY <1>1, <1>6, <1>13, <3>1
      <4>2. H \in 0..n /\ head <= H /\ H < d
        BY <1>2, <1>8, <2>1, <4>1 DEF H
      <4> QED
        BY <1>1, <4>1, <4>2
    <3> QED
      BY <1>5, <3>1
  <2>2. CASE new.via # "delta"
    <3>1. n + 1 \notin Delta(commits')
      BY <1>1, <1>7, <1>8, <2>2
    <3> QED
      BY <1>1, <1>5, <1>12, <1>13, <3>1
  <2> QED
    BY <2>1, <2>2
<1>15. \A c \in 0..Len(commits') :
         \A d, e \in Reach(commits', c) \cap Delta(commits') : d = e
  <2> SUFFICES ASSUME NEW c \in 0..Len(commits')
               PROVE  \A d, e \in Reach(commits', c) \cap Delta(commits') : d = e
    OBVIOUS
  <2>1. c \in 0..n \/ c = n + 1
    BY <1>1
  <2> QED
    BY <1>4, <1>12, <1>13, <1>14, <2>1
<1>16. run'.pc \in BeforeBaseline => stampDiff = None
  BY DEF DriftInv
<1>17. /\ Reach(commits, head)' = Reach(commits', head') /\ Delta(commits)' = Delta(commits')
       /\ stampDiff' = stampDiff
  BY DEF Reach, ClosedIn, Delta
<1> QED
  BY <1>9, <1>10, <1>11, <1>15, <1>16, <1>17 DEF DriftInv, H

(* The branch moved back to the parent of its tip has less history.        *)
LEMMA ParentHasLessHistory ==
    ASSUME StoreInv, NEW c \in 1..Len(commits)
    PROVE  Reach(commits, ParentOf(c)) \subseteq Reach(commits, c)
BY StoreIsAStore, ReachOfCommit DEF ParentOf

LEMMA InitEstablishesDriftInv == Init => DriftInv
<1> SUFFICES ASSUME Init PROVE DriftInv
  OBVIOUS
<1>1. stampDiff = None /\ run.pc = "diff"
  BY DEF Init, RunStart
<1>2. Delta(commits) = {}
  BY DEF Init, Delta, NewCommit
<1> QED
  BY <1>1, <1>2 DEF DriftInv

LEMMA NextKeepsDriftInv == CheckpointInv /\ DriftInv /\ [Next]_vars => DriftInv'
<1> SUFFICES ASSUME CheckpointInv, DriftInv, [Next]_vars PROVE DriftInv'
  OBVIOUS
<1>1. /\ StoreInv /\ GateInv /\ run \in RunRecords
      /\ {run.parent, run.own, run.sha} \subseteq CommitIds
  BY DEF CheckpointInv, LocalsInv
<1>2. head \in CommitIds /\ index \in Trees
  BY <1>1 DEF StoreInv
\* What the locals do in the steps that only move the program counter.
<1>3. ASSUME NEW p \in Steps, Goto(p) PROVE run'.pc = p
  BY <1>1, <1>3 DEF Goto, RunRecords
<1>4. ASSUME NEW c \in ExitCodes, Exit(c) PROVE run'.pc = "done"
  BY <1>1, <1>4 DEF Exit, RunRecords
<1>5. CASE Dispatch
  <2>1. run.pc \in BeforeBaseline /\ UNCHANGED <<commits, head, stampDiff>>
    BY <1>5 DEF Dispatch, ReadDiff, ReadStampHash, Review, BeforeBaseline, repo, gate
  <2>2. run'.pc # "write"
    <3>1. CASE ReadDiff
      <4>1. CASE Exit(4)
        BY <1>4, <4>1 DEF ExitCodes
      <4>2. CASE \E d : run' = IF d.changes = {}
                              THEN [run EXCEPT !.pc = "done", !.exit = 1]
                              ELSE [run EXCEPT !.pc = "hash", !.diff = d, !.since = foreign,
                                               !.read = foreign]
        BY <1>1, <4>2 DEF RunRecords
      <4> QED
        BY <3>1, <4>1, <4>2 DEF ReadDiff
    <3>2. CASE ReadStampHash
      BY <1>1, <3>2 DEF ReadStampHash, RunRecords
    <3>3. CASE Review
      BY <1>1, <3>3 DEF Review, RunRecords
    <3> QED
      BY <1>5, <3>1, <3>2, <3>3 DEF Dispatch
  <2> QED
    BY <2>1, <2>2, NoCommitKeepsDrift
<1>6. CASE SkipStamp \/ WriteStamp \/ TouchMarker
  <2>1. UNCHANGED <<commits, head, stampDiff>>
    BY <1>6 DEF SkipStamp, WriteStamp, TouchMarker, repo, gate
  <2>2. /\ run'.pc \in {"stampDiff", "marker", "checkpoint"}
        /\ run'.pc = "stampDiff" => run.pc = "stamp"
    BY <1>1, <1>3, <1>6 DEF SkipStamp, WriteStamp, TouchMarker, Steps, RunRecords
  <2> QED
    BY <2>1, <2>2, NoCommitKeepsDrift DEF BeforeBaseline
<1>7. CASE WriteStampDiff
  <2>1. run.pc = "stampDiff" /\ run'.pc = "marker" /\ UNCHANGED <<commits, head>>
    BY <1>3, <1>7 DEF WriteStampDiff, Steps, repo
  <2>2. Delta(commits) = {}
    BY <2>1 DEF DriftInv, BeforeBaseline
  <2>3. Delta(commits)' = {}
    BY <2>1, <2>2 DEF Delta
  <2> QED
    BY <2>1, <2>3 DEF DriftInv, BeforeBaseline
<1>8. CASE CheckpointGate \/ RecheckIndex \/ GitRunsHooks \/ ParseSha \/ VerifyCheckpoint
  <2>1. UNCHANGED <<commits, head, stampDiff>>
    BY <1>8 DEF CheckpointGate, RecheckIndex, GitRunsHooks, ParseSha, VerifyCheckpoint, repo, gate
  <2>2. run'.pc \notin BeforeBaseline /\ run'.pc # "write"
    <3>1. CASE CheckpointGate
      BY <1>3, <1>4, <3>1 DEF CheckpointGate, Steps, ExitCodes, BeforeBaseline
    <3>2. CASE RecheckIndex
      <4>1. ASSUME NEW d, Refuse(d) PROVE run'.pc = "done"
        BY <1>1, <4>1 DEF Refuse, RunRecords
      <4> QED
        BY <1>3, <3>2, <4>1 DEF RecheckIndex, Steps, BeforeBaseline
    <3>3. CASE GitRunsHooks
      BY <1>1, <3>3 DEF GitRunsHooks, RunRecords, BeforeBaseline
    <3>4. CASE ParseSha
      BY <1>1, <1>4, <3>4 DEF ParseSha, RunRecords, ExitCodes, BeforeBaseline
    <3>5. CASE VerifyCheckpoint
      BY <1>3, <1>4, <3>5 DEF VerifyCheckpoint, Steps, ExitCodes, BeforeBaseline
    <3> QED
      BY <1>8, <3>1, <3>2, <3>3, <3>4, <3>5
  <2> QED
    BY <2>1, <2>2, NoCommitKeepsDrift
\* The gate admits a trivial delta only on the HEAD of the baseline.
<1>9. CASE GitGateJudges
  <2>1. UNCHANGED <<commits, head, stampDiff>>
    BY <1>9 DEF GitGateJudges, repo, gate
  <2>2. CASE Exit(12)
    BY <1>4, <2>1, <2>2, NoCommitKeepsDrift DEF ExitCodes, BeforeBaseline
  <2>3. ASSUME NEW v \in Admissions, run' = [run EXCEPT !.pc = "write", !.via = v]
        PROVE  DriftInv'
    <3>1. run'.pc = "write" /\ run'.via = v
      BY <1>1, <2>3 DEF RunRecords
    <3>2. CASE v # "delta"
      BY <2>1, <3>1, <3>2, NoCommitKeepsDrift DEF BeforeBaseline
    <3>3. CASE v = "delta"
      <4>1. stampDiff # None /\ stampDiff.head = head
        BY <3>3 DEF Admissions, TrivialDelta
      <4>2. Reach(commits, head) \subseteq 1..head /\ head \in Nat
        BY <1>1, StoreIsAStore, ReachIsOlder
      <4>3. \A d \in Reach(commits, head) : d <= stampDiff.head
        BY <4>1, <4>2
      <4>4. /\ Reach(commits, head)' = Reach(commits, head) /\ Delta(commits)' = Delta(commits)
            /\ \A c : Reach(commits', c) = Reach(commits, c)
        BY <2>1
      <4> QED
        BY <2>1, <3>1, <4>1, <4>3, <4>4 DEF DriftInv, BeforeBaseline
    <3> QED
      BY <3>2, <3>3
  <2> QED
    BY <1>9, <2>2, <2>3 DEF GitGateJudges
<1>10. CASE GitWritesCommit
  <2>1. UNCHANGED stampDiff /\ run.pc = "write"
    BY <1>10 DEF GitWritesCommit, gate
  <2>2. CASE Exit(12) /\ UNCHANGED <<commits, head>>
    BY <1>4, <2>1, <2>2, NoCommitKeepsDrift DEF ExitCodes, BeforeBaseline
  <2>3. ASSUME head = run.parent,
               commits' = Append(commits, NewCommit(index, head, "review", run.via)),
               head' = Len(commits'), NEW p \in {"parse", "done"},
               run' = [run EXCEPT !.pc = p, !.own = Len(commits'),
                                  !.exit = IF p = "done" THEN 12 ELSE None]
        PROVE  DriftInv'
    <3> DEFINE new == NewCommit(index, head, "review", run.via)
    <3>1. new \in CommitRecords /\ new.parent = head /\ new.via = run.via
      BY <1>1, <1>2 DEF NewCommit, CommitRecords, RunRecords, CommitIds, StoreInv
    <3>2. run'.pc \in {"parse", "done"}
      <4>1. run'.pc = p
        BY <1>1, <2>3 DEF RunRecords
      <4> QED
        BY <4>1
    <3>3. ASSUME run.via = "delta" PROVE stampDiff # None /\ head <= stampDiff.head
      <4>1. /\ stampDiff # None
            /\ \A d \in Reach(commits, head) : d <= stampDiff.head \/ d > run.parent
        BY <2>1, <3>3 DEF DriftInv
      <4>2. stampDiff.head \in Nat /\ head \in 0..Len(commits) /\ Len(commits) \in Nat
        BY <1>1, <4>1, StoreIsAStore DEF GateInv, CommitIds
      <4>3. CASE head = 0
        BY <4>1, <4>2, <4>3
      <4>4. CASE head # 0
        <5>1. head \in 1..Len(commits)
          BY <4>2, <4>4
        <5>2. head \in Reach(commits, head)
          BY <1>1, <5>1, StoreIsAStore, ReachOfCommit
        <5> QED
          BY <2>3, <4>1, <4>2, <5>2
      <4> QED
        BY <4>3, <4>4
    <3> HIDE DEF new
    <3>4. commits' = Append(commits, new)
      BY <2>3 DEF new
    <3> QED
      BY <1>1, <2>1, <2>3, <3>1, <3>2, <3>3, <3>4, CommitKeepsDrift DEF BeforeBaseline
  <2> QED
    BY <1>10, <2>2, <2>3 DEF GitWritesCommit
<1>11. CASE UndoCheckpoint
  <2>1. UNCHANGED <<commits, stampDiff>> /\ run'.pc = "done"
    BY <1>4, <1>11 DEF UndoCheckpoint, gate, ExitCodes
  <2>2. run.sha \in 1..Len(commits)
    BY <1>1, <1>11 DEF UndoCheckpoint, CheckpointInv, ProgressInv, CommitIds, StoreInv
  <2>3. Reach(commits, head') \subseteq Reach(commits, head)
    BY <1>1, <1>11, <2>2, ParentHasLessHistory DEF UndoCheckpoint, UndoTarget
  <2> QED
    BY <2>1, <2>3, NoCommitKeepsDrift DEF BeforeBaseline
<1>12. CASE ForeignStage
  BY <1>12, NoCommitKeepsDrift DEF ForeignStage, gate
<1>13. CASE ForeignCommit
  <2>1. UNCHANGED <<stampDiff, run>> /\ head' = Len(commits')
    BY <1>13 DEF ForeignCommit, gate
  <2>2. PICK v \in Admissions : commits' = Append(commits, NewCommit(index, head, "other", v))
    BY <1>13 DEF ForeignCommit
  <2> DEFINE new == NewCommit(index, head, "other", v)
  <2>3. new \in CommitRecords /\ new.parent = head /\ new.via = v
    BY <1>1, <1>2 DEF NewCommit, CommitRecords, Admissions, CommitIds, StoreInv
  <2>4. v = "delta" => stampDiff # None /\ head <= stampDiff.head
    BY <1>1, <1>2, StoreIsAStore DEF Admissions, TrivialDelta
  <2> HIDE DEF new
  <2>5. commits' = Append(commits, new)
    BY <2>2 DEF new
  <2> QED
    BY <1>1, <2>1, <2>3, <2>4, <2>5, CommitKeepsDrift
<1>14. CASE ForeignSoftReset
  <2>1. UNCHANGED <<commits, stampDiff, run>> /\ head' = ParentOf(head) /\ head \in 1..Len(commits)
    BY <1>1, <1>14, StoreIsAStore DEF ForeignSoftReset, gate
  <2> QED
    BY <1>1, <2>1, ParentHasLessHistory, NoCommitKeepsDrift
<1>15. CASE UNCHANGED vars
  BY <1>15, NoCommitKeepsDrift DEF vars, repo, gate
<1> QED
  BY <1>5, <1>6, <1>7, <1>8, <1>9, <1>10, <1>11, <1>12, <1>13, <1>14, <1>15
     DEF Next, ReviewStep, ForeignStep, Certify, Commit, Finished

(* Small unreviewed commits do not pile up on one review: whatever the     *)
(* threshold, at most one commit of the branch was let in as a trivial     *)
(* delta.                                                                  *)
THEOREM OneTrivialDeltaAtMost == Spec => []NoDriftAccumulates
<1>1. ASSUME CheckpointInv, DriftInv PROVE NoDriftAccumulates
  <2> DEFINE D == {c \in History(head) : commits[c].via = "delta"}
  <2>1. commits \in Stores /\ head \in 0..Len(commits)
    BY <1>1, StoreIsAStore DEF CheckpointInv
  <2>2. D = Reach(commits, head) \cap Delta(commits)
    BY ReachIsHistory DEF Reach, Delta
  <2>3. \A d, e \in D : d = e
    BY <1>1, <2>1, <2>2 DEF DriftInv
  <2> HIDE DEF D
  <2>4. ASSUME D = {} PROVE Cardinality(D) <= 1
    <3>1. Cardinality(D) = 0
      BY <2>4, FS_EmptySet
    <3> QED
      BY <3>1
  <2>5. ASSUME D # {} PROVE Cardinality(D) <= 1
    <3>1. PICK d : D = {d}
      BY <2>3, <2>5
    <3>2. Cardinality(D) = 1
      BY <3>1, FS_Singleton
    <3> QED
      BY <3>2
  <2>6. Cardinality(D) <= 1
    BY <2>4, <2>5
  <2> QED
    BY <2>6 DEF D, NoDriftAccumulates
<1> QED
  BY <1>1, InitEstablishesDriftInv, InitEstablishesCheckpointInv, NextKeepsCheckpointInv,
     NextKeepsDriftInv, PTL DEF Spec

-----------------------------------------------------------------------------
(* What keeps the other session's commits: the commit the review undoes is *)
(* its own.                                                                *)
OwnInv == run.own # 0 => commits[run.own].author = "review"

LEMMA NextKeepsOwnInv == CheckpointInv /\ OwnInv /\ [Next]_vars => OwnInv'
<1> SUFFICES ASSUME CheckpointInv, OwnInv, [Next]_vars PROVE OwnInv'
  OBVIOUS
<1>1. /\ StoreInv /\ run \in RunRecords /\ run.own \in 0..Len(commits)
      /\ Len(commits) \in Nat /\ commits \in Seq(CommitRecords)
  BY DEF CheckpointInv, LocalsInv, StoreInv, CommitIds
<1>2. CASE run'.own = run.own /\ (commits' = commits \/ \E new : commits' = Append(commits, new))
  BY <1>1, <1>2 DEF OwnInv
<1>3. CASE GitWritesCommit /\ ~UNCHANGED commits
  <2> DEFINE new == NewCommit(index, head, "review", run.via)
  <2>1. commits' = Append(commits, new) /\ new.author = "review"
    BY <1>3 DEF GitWritesCommit, NewCommit
  <2>2. PICK p \in {"parse", "done"} :
          run' = [run EXCEPT !.pc = p, !.own = Len(commits'),
                             !.exit = IF p = "done" THEN 12 ELSE None]
    BY <1>3 DEF GitWritesCommit
  <2>3. run'.own = Len(commits')
    BY <1>1, <2>2 DEF RunRecords
  <2> HIDE DEF new
  <2> QED
    BY <1>1, <2>1, <2>3 DEF OwnInv
<1>4. CASE Dispatch \/ Certify
  <2>1. commits' = commits
    BY <1>4 DEF Dispatch, ReadDiff, ReadStampHash, Review, Certify, SkipStamp, WriteStamp,
                WriteStampDiff, TouchMarker, repo
  <2>2. run'.own = run.own
    BY <1>1, <1>4 DEF Dispatch, ReadDiff, ReadStampHash, Review, Certify, SkipStamp, WriteStamp,
                      WriteStampDiff, TouchMarker, Goto, Exit, RunRecords
  <2> QED
    BY <1>2, <2>1, <2>2
<1>5. CASE Commit /\ UNCHANGED commits
  <2>1. run'.own = run.own
    <3>1. CASE GitWritesCommit
      <4>1. Exit(12)
        BY <1>1, <1>5, <3>1 DEF GitWritesCommit, StoreInv
      <4> QED
        BY <1>1, <4>1 DEF Exit, RunRecords
    <3> QED
      BY <1>1, <1>5, <3>1 DEF Commit, CheckpointGate, RecheckIndex, GitRunsHooks, GitGateJudges,
           ParseSha, VerifyCheckpoint, UndoCheckpoint, Goto, Exit, Refuse, RunRecords
  <2> QED
    BY <1>2, <1>5, <2>1
<1>6. CASE Commit /\ ~UNCHANGED commits
  <2>1. GitWritesCommit
    BY <1>6 DEF Commit, CheckpointGate, RecheckIndex, GitRunsHooks, GitGateJudges,
                ParseSha, VerifyCheckpoint, UndoCheckpoint, repo
  <2> QED
    BY <1>3, <1>6, <2>1
<1>7. CASE ForeignStep
  BY <1>2, <1>7 DEF ForeignStep, ForeignStage, ForeignCommit, ForeignSoftReset
<1>8. CASE UNCHANGED vars
  BY <1>2, <1>8 DEF vars, repo
<1> QED
  BY <1>4, <1>5, <1>6, <1>7, <1>8 DEF Next, ReviewStep, Finished

(* The review never takes a commit of another session out of the branch:   *)
(* undoing its own checkpoint does not drag later work back with it.       *)
THEOREM UndoSparesOthers == Spec => ForeignCommitsSurvive
<1> DEFINE Others == {c \in History(head) : commits[c].author = "other"}
           Survive == ReviewStep => Others \subseteq (History(head))'
<1>1. ASSUME CheckpointInv, OwnInv, [Next]_vars PROVE [Survive]_vars
  <2> SUFFICES ASSUME ReviewStep, NEW c \in Reach(commits, head), commits[c].author = "other"
               PROVE  c \in Reach(commits', head')
    BY ReachIsHistory
  <2>1. /\ commits \in Stores /\ head \in 0..Len(commits) /\ Len(commits) \in Nat
        /\ StoreInv /\ StoreInv' /\ run \in RunRecords /\ commits \in Seq(CommitRecords)
    BY <1>1, StoreIsAStore, NextKeepsCheckpointInv DEF CheckpointInv, LocalsInv, StoreInv
  <2>2. CASE UNCHANGED <<commits, head>>
    BY <2>2
  <2>3. CASE GitWritesCommit /\ ~UNCHANGED <<commits, head>>
    <3> DEFINE new == NewCommit(index, head, "review", run.via)
    <3>1. commits' = Append(commits, new) /\ head' = Len(commits') /\ new.parent = head
      BY <2>3 DEF GitWritesCommit, NewCommit
    <3>2. new \in CommitRecords
      BY <2>1 DEF NewCommit, CommitRecords, RunRecords, StoreInv, CommitIds
    <3> HIDE DEF new
    <3>3. Reach(commits', head) = Reach(commits, head) /\ commits' \in Stores
      BY <2>1, <3>1, <3>2, ReachOfAppend
    <3>4. head' \in 1..Len(commits') /\ commits'[head'] = new
      BY <2>1, <3>1
    <3>5. Reach(commits', head') = {head'} \cup Reach(commits', commits'[head'].parent)
      BY <3>3, <3>4, ReachOfCommit, Zenon
    <3> QED
      BY <3>1, <3>3, <3>4, <3>5
  <2>4. CASE UndoCheckpoint /\ head' # head
    <3>1. head = run.sha /\ head' = ParentOf(head) /\ commits' = commits
      BY <2>4 DEF UndoCheckpoint, UndoTarget
    <3>2. run.sha = run.own /\ run.own # 0
      BY <1>1, <2>4 DEF UndoCheckpoint, CheckpointInv, ProgressInv
    <3>3. commits[head].author = "review" /\ head \in 1..Len(commits)
      BY <1>1, <2>1, <3>1, <3>2 DEF OwnInv
    <3>4. Reach(commits, head) = {head} \cup Reach(commits, ParentOf(head))
      BY <2>1, <3>3, ReachOfCommit DEF ParentOf
    <3> QED
      BY <3>1, <3>3, <3>4
  <2>5. CASE Commit /\ ~GitWritesCommit /\ ~UndoCheckpoint
    BY <2>2, <2>5 DEF Commit, CheckpointGate, RecheckIndex, GitRunsHooks, GitGateJudges,
                ParseSha, VerifyCheckpoint, repo
  <2>6. CASE UndoCheckpoint /\ head' = head
    BY <2>2, <2>6 DEF UndoCheckpoint
  <2>7. CASE Dispatch \/ Certify
    BY <2>2, <2>7 DEF Dispatch, ReadDiff, ReadStampHash, Review, Certify, SkipStamp, WriteStamp,
                WriteStampDiff, TouchMarker, repo
  <2> QED
    BY <2>2, <2>3, <2>4, <2>5, <2>6, <2>7 DEF ReviewStep
<1>2. Init => OwnInv
  BY DEF Init, OwnInv, RunStart
<1> QED
  BY <1>1, <1>2, InitEstablishesCheckpointInv, NextKeepsCheckpointInv, NextKeepsOwnInv, PTL
     DEF Spec, ForeignCommitsSurvive
=============================================================================
