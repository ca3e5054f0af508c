----------------------------- MODULE Checkpoint -----------------------------
(***************************************************************************)
(* `review diff --staged [--commit]` in a checkout it does not own alone:  *)
(* the staged diff is read at dispatch, reviewed for minutes, certified in *)
(* the review-stamp files the pre-commit hook reads, and then committed as *)
(* a checkpoint.  Another session stages, commits and soft-resets in the   *)
(* same checkout, and the repository's own hooks restage, refuse or hang.  *)
(*                                                                         *)
(* A tree is a function from files to versions.  A diff TEXT is the set of *)
(* changed files with both versions, plus the prefix style git printed it  *)
(* in: reviewlib pins a/ and b/ in one of its calls and inherits the       *)
(* machine's diff.noprefix setting in the others.                          *)
(***************************************************************************)
EXTENDS Naturals, Sequences, FiniteSets, FiniteSetsExt

CONSTANTS Files,         \* the paths of the checkout
          Versions,      \* the contents a path may have
          Absent,        \* the content of a path that does not exist
          None,          \* Python's None, and a file that was never written
          Threshold,     \* REVIEW_TRIVIAL_DELTA_LINES, one line per change
          MaxForeign,    \* bound: moves of the other session
          NoPrefixConfigs \* the diff.noprefix settings of the machines

ASSUME CheckpointAssumption ==
    /\ Absent \in Versions
    /\ Threshold \in Nat
    /\ MaxForeign \in Nat
    /\ NoPrefixConfigs \subseteq BOOLEAN

Trees == [Files -> Versions]
DiffTexts == [changes: SUBSET (Files \X Versions \X Versions), prefixed: BOOLEAN]
Steps == {"diff", "hash", "review", "stamp", "stampDiff", "marker", "checkpoint",
          "recheck", "commit", "gate", "write", "parse", "verify", "undo", "done"}
ExitCodes == {0, 1, 4, 12, 13}

ASSUME NoneAssumption == None \notin DiffTexts \cup ExitCodes

VARIABLES
    noPrefix,   \* diff.noprefix of this machine
    index,      \* the tree `git write-tree` would write now
    commits,    \* the object store: every commit ever made
    head,       \* what HEAD points to, 0 on an unborn branch
    foreign,    \* moves the other session has made
    stamp,      \* .git/review-stamp: the diff text whose hash it holds
    stampDiff,  \* .git/review-stamp-diff: a HEAD line and a diff text
    marker,     \* the agent-tools marker has been touched
    run         \* the locals of the review process; since and read are history:
                \* the moves of the other session before the diff was read, and
                \* before the text was read whose digest is stamped

repo == <<index, commits, head>>
gate == <<stamp, stampDiff, marker>>
vars == <<noPrefix, repo, foreign, gate, run>>

EmptyTree == [f \in Files |-> Absent]
TreeOf(c) == IF c = 0 THEN EmptyTree ELSE commits[c].tree
ParentOf(c) == commits[c].parent

(* What `git diff` prints between two trees.  A text with no change is     *)
(* empty and has no header to prefix.                                      *)
Changes(a, b) == {<<f, a[f], b[f]>> : f \in {g \in Files : a[g] # b[g]}}
Text(changes, pinned) ==
    [changes |-> changes,
     prefixed |-> changes = {} \/ pinned \/ ~noPrefix]
Staged == Changes(TreeOf(head), index)
PinnedStagedDiff == Text(Staged, TRUE)
AmbientStagedDiff == Text(Staged, FALSE)

(* The commits reachable from c: the least set that holds c and, with a    *)
(* commit, its parent.                                                     *)
ClosedUnderParent(S) == \A d \in S : ParentOf(d) \in S \cup {0}
History(c) ==
    {d \in 1..Len(commits) :
        \A S \in SUBSET (1..Len(commits)) :
            c \in S \cup {0} /\ ClosedUnderParent(S) => d \in S}

(***************************************************************************)
(* The installed pre-commit hook.                                          *)
(***************************************************************************)
HashMatches == stamp # None /\ stamp = AmbientStagedDiff

(* Lines of drift between the baseline and the staged diff.  The filter    *)
(* drops only headers that carry a/, b/ or /dev/null, so of an unprefixed  *)
(* diff every side on which a file exists counts as one added line.        *)
UnprefixedHeaders(changes) ==
    Cardinality({c \in changes : c[2] # Absent}) + Cardinality({c \in changes : c[3] # Absent})

DriftLines(base, cur) ==
    LET added == Cardinality(cur.changes \ base.changes)
                 + (IF cur.prefixed THEN 0 ELSE UnprefixedHeaders(cur.changes))
        removed == Cardinality(base.changes \ cur.changes)
    IN  IF base = cur THEN 0 ELSE IF removed > added THEN removed ELSE added

(* Mutant: any HEAD will do, as before the HEAD line existed.              *)
MutTrivialDelta ==
    /\ Threshold > 0
    /\ stampDiff # None
    /\ DriftLines(stampDiff.diff, AmbientStagedDiff) <= Threshold

TrivialDelta ==
    /\ Threshold > 0
    /\ stampDiff # None
    /\ stampDiff.head = head
    /\ DriftLines(stampDiff.diff, AmbientStagedDiff) <= Threshold

(* How a commit of the staged index gets past the gate: an exact hash, a   *)
(* trivial delta, or REVIEW_SKIP / --no-verify / no hook installed.        *)
Admissions == {v \in {"hash", "delta", "ungated"} :
                  CASE v = "hash"  -> HashMatches
                    [] v = "delta" -> ~HashMatches /\ TrivialDelta
                    [] OTHER       -> TRUE}

(***************************************************************************)
(* Git's own behaviour, as the calls in src/ rely on it.                   *)
(***************************************************************************)
NewCommit(tree, parent, author, via) ==
    [tree |-> tree, parent |-> parent, author |-> author, via |-> via]

RunStart ==
    [pc: {"diff"}, staged: BOOLEAN, stdin: BOOLEAN, commit: BOOLEAN,
     diff: {None}, hash: {None}, ok: {FALSE}, truncated: {FALSE},
     parent: {0}, via: {"ungated"}, own: {0}, sha: {0}, exit: {None},
     detail: {None}, since: {0}, read: {0}]

Init ==
    /\ noPrefix \in NoPrefixConfigs
    /\ \E base \in {EmptyTree} \cup Trees :
         \/ /\ commits = <<>> /\ head = 0 /\ base = EmptyTree
         \/ /\ commits = <<NewCommit(base, 0, "other", "ungated")>> /\ head = 1
            /\ base # EmptyTree
    /\ index \in Trees
    /\ foreign = 0
    /\ stamp = None
    /\ stampDiff = None
    /\ marker = FALSE
    \* mode_review refuses --commit without --staged before it spends anything
    /\ run \in {r \in RunStart : r.commit => r.staged}

Goto(p) == run' = [run EXCEPT !.pc = p]
Exit(code) == run' = [run EXCEPT !.pc = "done", !.exit = code]
Refuse(detail) == run' = [run EXCEPT !.pc = "done", !.exit = 12, !.detail = detail]

(***************************************************************************)
(* Dispatch (cli.py): two separate reads of the index.                     *)
(***************************************************************************)
(* A piped diff is arbitrary text; an unstaged one is of some working tree.*)
ReadDiff ==
    /\ run.pc = "diff"
    /\ \/ \E d \in IF run.staged /\ ~run.stdin
                   THEN {PinnedStagedDiff}
                   ELSE {Text(Changes(TreeOf(head), t), TRUE) : t \in Trees} :
            run' = IF d.changes = {}
                   THEN [run EXCEPT !.pc = "done", !.exit = 1]
                   ELSE [run EXCEPT !.pc = "hash", !.diff = d, !.since = foreign, !.read = foreign]
       \/ ~run.stdin /\ Exit(4)
    /\ UNCHANGED <<noPrefix, repo, foreign, gate>>

(* None when the second read fails, or the review is not --staged.         *)
ReadStampHash ==
    /\ run.pc = "hash"
    /\ \E h \in {None} \cup (IF run.staged THEN {AmbientStagedDiff} ELSE {}) :
         run' = [run EXCEPT !.pc = "review", !.hash = h,
                            !.read = IF h = None THEN @ ELSE foreign]
    /\ UNCHANGED <<noPrefix, repo, foreign, gate>>

(* The panel runs; a piped diff is never truncated for dispatch.           *)
Review ==
    /\ run.pc = "review"
    /\ \E ok, cut \in BOOLEAN :
         /\ cut => ~run.stdin
         /\ run' = [run EXCEPT !.pc = "stamp", !.ok = ok, !.truncated = cut]
    /\ UNCHANGED <<noPrefix, repo, foreign, gate>>

(***************************************************************************)
(* _stamp_if_staged_commit_review                                          *)
(***************************************************************************)
Certifies == run.ok /\ ~run.truncated /\ run.staged /\ ~run.stdin

SkipStamp ==
    /\ run.pc = "stamp"
    /\ ~Certifies
    /\ Goto("checkpoint")
    /\ UNCHANGED <<noPrefix, repo, foreign, gate>>

(* The digest is the one captured at dispatch; without one it is re-read   *)
(* now, and the reviewed text itself is hashed when that read fails.       *)
(* Mutant: always hash what is staged when the stamp is written.           *)
MutStampText == {AmbientStagedDiff, run.diff}

StampText ==
    IF run.hash # None THEN {run.hash} ELSE {AmbientStagedDiff, run.diff}

WriteStamp ==
    /\ run.pc = "stamp"
    /\ Certifies
    /\ \/ /\ stamp' \in StampText
          /\ run' = [run EXCEPT !.pc = "stampDiff", !.read = IF run.hash = None THEN foreign ELSE @]
       \/ UNCHANGED stamp /\ Goto("marker")     \* the write failed
    /\ UNCHANGED <<noPrefix, repo, foreign, stampDiff, marker>>

(* HEAD is read now, the diff was read at dispatch; a failure is dropped.  *)
WriteStampDiff ==
    /\ run.pc = "stampDiff"
    /\ stampDiff' \in {stampDiff, [head |-> head, diff |-> run.diff]}
    /\ Goto("marker")
    /\ UNCHANGED <<noPrefix, repo, foreign, stamp, marker>>

TouchMarker ==
    /\ run.pc = "marker"
    /\ marker' \in {marker, TRUE}
    /\ Goto("checkpoint")
    /\ UNCHANGED <<noPrefix, repo, foreign, stamp, stampDiff>>

(***************************************************************************)
(* _checkpoint_if_requested and _checkpoint_commit                         *)
(***************************************************************************)
CheckpointGate ==
    /\ run.pc = "checkpoint"
    /\ IF ~run.commit \/ ~run.ok \/ run.stdin THEN Exit(IF run.ok THEN 0 ELSE 1)
       ELSE IF run.truncated THEN Exit(13)
       ELSE Goto("recheck")
    /\ UNCHANGED <<noPrefix, repo, foreign, gate>>

(* _current_staged_diff; the drift refusal is told from the read failure.  *)
RecheckIndex ==
    /\ run.pc = "recheck"
    /\ \/ Refuse("unreadable")
       \/ IF AmbientStagedDiff = run.diff THEN Goto("commit") ELSE Refuse("drift")
    /\ UNCHANGED <<noPrefix, repo, foreign, gate>>

(* git reads HEAD, then runs the hooks: the repository's own may restage   *)
(* or refuse, the review gate judges what is staged after them.            *)
GitRunsHooks ==
    /\ run.pc = "commit"
    /\ run' = [run EXCEPT !.pc = "gate", !.parent = head]
    /\ \/ UNCHANGED index
       \/ \E f \in Files, v \in Versions : index' = [index EXCEPT ![f] = v]
    /\ UNCHANGED <<noPrefix, commits, head, foreign, gate>>

GitGateJudges ==
    /\ run.pc = "gate"
    /\ \/ \E v \in Admissions : run' = [run EXCEPT !.pc = "write", !.via = v]
       \/ Exit(12)
    /\ UNCHANGED <<noPrefix, repo, foreign, gate>>

(* The tree is snapshot after the hooks; the ref moves only from the HEAD  *)
(* git started on.  git may be killed by the timeout before or after that. *)
GitWritesCommit ==
    /\ run.pc = "write"
    /\ \/ /\ head = run.parent
          /\ index # TreeOf(head)
          /\ commits' = Append(commits, NewCommit(index, head, "review", run.via))
          /\ head' = Len(commits')
          /\ \E p \in {"parse", "done"} :
               run' = [run EXCEPT !.pc = p, !.own = Len(commits'),
                                  !.exit = IF p = "done" THEN 12 ELSE None]
       \/ /\ Exit(12)
          /\ UNCHANGED <<commits, head>>
    /\ UNCHANGED <<noPrefix, index, foreign, gate>>

(* _parse_new_commit_sha: our commit, or nothing it is sure of.            *)
ParseSha ==
    /\ run.pc = "parse"
    /\ \/ run' = [run EXCEPT !.pc = "verify", !.sha = run.own]
       \/ Exit(12)
    /\ UNCHANGED <<noPrefix, repo, foreign, gate>>

(* _commit_diff: None when a git call fails, else what the commit holds.   *)
CommitDiff(sha) == Text(Changes(TreeOf(ParentOf(sha)), TreeOf(sha)), FALSE)

(* Mutant: a commit whose diff cannot be read passes.                      *)
MutVerifyCheckpoint ==
    /\ run.pc = "verify"
    /\ \E d \in {None, CommitDiff(run.sha)} :
         IF d \in {None, run.diff} THEN Exit(0) ELSE Goto("undo")
    /\ UNCHANGED <<noPrefix, repo, foreign, gate>>

VerifyCheckpoint ==
    /\ run.pc = "verify"
    /\ \E d \in {None, CommitDiff(run.sha)} :
         IF d = run.diff THEN Exit(0) ELSE Goto("undo")
    /\ UNCHANGED <<noPrefix, repo, foreign, gate>>

(* The branch is moved back only if it still points at our commit.         *)
(* Mutant: a blind reset, without the compare-and-swap.                    *)
MutUndoTarget(sha) == ParentOf(sha)

UndoTarget(sha) == IF head = sha THEN ParentOf(sha) ELSE head

UndoCheckpoint ==
    /\ run.pc = "undo"
    /\ \/ head' = UndoTarget(run.sha) /\ Exit(12)
       \/ UNCHANGED head /\ Exit(12)       \* the parent could not be resolved
       \/ head' \in {head, UndoTarget(run.sha)} /\ Exit(1)   \* update-ref hung: a traceback
    /\ UNCHANGED <<noPrefix, index, commits, foreign, gate>>

(***************************************************************************)
(* The other session in the checkout.                                      *)
(***************************************************************************)
Moves == foreign < MaxForeign /\ foreign' = foreign + 1

ForeignStage ==
    /\ Moves
    /\ \E f \in Files : \E v \in Versions \ {index[f]} :
         index' = [index EXCEPT ![f] = v]
    /\ UNCHANGED <<noPrefix, commits, head, gate, run>>

ForeignCommit ==
    /\ Moves
    /\ index # TreeOf(head)
    /\ \E v \in Admissions :
         commits' = Append(commits, NewCommit(index, head, "other", v))
    /\ head' = Len(commits')
    /\ UNCHANGED <<noPrefix, index, gate, run>>

ForeignSoftReset ==
    /\ Moves
    /\ head # 0
    /\ head' = ParentOf(head)
    /\ UNCHANGED <<noPrefix, index, commits, gate, run>>

Finished == run.pc = "done" /\ UNCHANGED vars

Dispatch == ReadDiff \/ ReadStampHash \/ Review
Certify == SkipStamp \/ WriteStamp \/ WriteStampDiff \/ TouchMarker
Commit == \/ CheckpointGate \/ RecheckIndex \/ GitRunsHooks \/ GitGateJudges
          \/ GitWritesCommit \/ ParseSha \/ VerifyCheckpoint \/ UndoCheckpoint
ReviewStep == Dispatch \/ Certify \/ Commit
ForeignStep == ForeignStage \/ ForeignCommit \/ ForeignSoftReset

Next == ReviewStep \/ ForeignStep \/ Finished

Spec == Init /\ [][Next]_vars /\ WF_vars(ReviewStep)

(***************************************************************************)
(* Properties                                                              *)
(***************************************************************************)
CommitIds == 0..Len(commits)

(* Every variable keeps its type, and HEAD and every parent is a commit    *)
(* that exists.                                                            *)
CTypeOK ==
    /\ noPrefix \in BOOLEAN
    /\ index \in Trees
    /\ \A c \in 1..Len(commits) :
         /\ commits[c].tree \in Trees
         /\ commits[c].parent \in 0..(c - 1)
         /\ commits[c].author \in {"review", "other"}
         /\ commits[c].via \in {"hash", "delta", "ungated"}
    /\ head \in CommitIds
    /\ foreign \in 0..MaxForeign
    /\ stamp \in {None} \cup DiffTexts
    /\ stampDiff = None \/ /\ stampDiff.head \in CommitIds
                           /\ stampDiff.diff \in DiffTexts
    /\ marker \in BOOLEAN
    /\ run.pc \in Steps
    /\ run.diff \in {None} \cup DiffTexts
    /\ run.hash \in {None} \cup DiffTexts
    /\ {run.parent, run.own, run.sha} \subseteq CommitIds
    /\ {run.since, run.read} \subseteq 0..foreign
    /\ run.exit \in {None} \cup ExitCodes

(* A --commit run over the index that exits 0 made a commit that           *)
(* holds exactly the diff the panel was shown, whatever the other session  *)
(* staged meanwhile and whatever the repository's hooks restaged.          *)
CheckpointIsReviewed ==
    run.commit /\ ~run.stdin /\ run.exit = 0 =>
        /\ run.own # 0
        /\ CommitDiff(run.own).changes = run.diff.changes

(* The review never takes a commit of another session out of the branch:   *)
(* undoing its own checkpoint does not drag later work back with it.       *)
ForeignCommitsSurvive ==
    [][ReviewStep =>
        {c \in History(head) : commits[c].author = "other"} \subseteq (History(head))']_vars

(* What the exact-hash gate accepts is what the seats read, however the    *)
(* index and HEAD move during and after the review: a stamp exists only    *)
(* after a complete, passing review of the index, it is of the changes the *)
(* panel was shown, and so is every commit another session gets in by it.  *)
(* Excepted is a stamp whose text was read again after the other session   *)
(* had moved: the digest is a second read of the index, at dispatch or, if *)
(* that failed, at the end of the review.                                  *)
StampCertifiesReview ==
    stamp # None =>
        /\ Certifies
        /\ run.read = run.since =>
              /\ stamp.changes = run.diff.changes
              /\ \A c \in 1..Len(commits) :
                    commits[c].via = "hash" /\ commits[c].author = "other" =>
                        Changes(TreeOf(ParentOf(c)), TreeOf(c)) = run.diff.changes

(* Small unreviewed commits do not pile up on one review: of the commits   *)
(* on the branch, at most one was let in as a trivial delta.               *)
NoDriftAccumulates ==
    Cardinality({c \in History(head) : commits[c].via = "delta"}) <= 1
=============================================================================
