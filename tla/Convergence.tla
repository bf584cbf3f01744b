---------------------------- MODULE Convergence ----------------------------
(***************************************************************************)
(* One working copy of a repository, converged with the repository head by *)
(* `syns sync` (src/push/converge.rs) over the state it keeps beside the   *)
(* folder (src/push/working_copy.rs), while its user edits the folder,     *)
(* other writers commit, requests fail and the run may be killed between   *)
(* any two of its durable steps.                                           *)
(*                                                                         *)
(* A run is a sequence of steps named by pc.  Each step makes at most one  *)
(* durable change, so that Stop (a kill, or a refused read) can fall       *)
(* between any two of them.                                                *)
(***************************************************************************)
EXTENDS Reconcile, Sequences

CONSTANTS
    None,        \* no record, no hash, no commit named
    SeedTree,    \* the tree of the repository's first commit
    MaxPasses,   \* MAX_PASSES: passes of one preparation or publication
    RoundBound,  \* ROUND_BOUND: past it a resolution asks for attention
    LateFiles,   \* whether the user creates files while a run is under way
    Restores,    \* whether a path may come back while an outbox stands: made
                 \* by the user, or written by a retrieval with no credential
    MaxTexts,    \* bound: texts the user and the other writers author
    MaxDeletes,  \* bound: files the user deletes
    MaxOthers,   \* bound: commits of other writers
    MaxStops,    \* bound: kills, refused reads and unanswered sends
    MaxRewritten \* bound: commits past which the user puts no text back

ASSUME BoundsAssumption ==
    /\ MaxPasses \in Nat \ {0} /\ RoundBound \in Nat
    /\ LateFiles \in BOOLEAN /\ Restores \in BOOLEAN
    /\ MaxTexts \in Nat /\ MaxDeletes \in Nat /\ MaxOthers \in Nat /\ MaxStops \in Nat
    /\ MaxRewritten \in Nat

ASSUME SeedAssumption == SeedTree \in Tree

VARIABLES
    \* the server
    commits,     \* the repository's commits: [tree, own], own by this copy
    \* what the working copy keeps on disk
    folder,      \* the tree standing in the folder
    base,        \* base.json: the commit last converged with, and its files
    outbox,      \* outbox.json: the publication that may have landed
    res,         \* resolution.json: the candidate awaiting review
    snap,        \* local-snapshot.json: what stood before a run rewrote it
    \* the run under way, lost with its process
    pc,          \* its next step, "idle" where no run holds the lock
    mode,        \* the command that started it
    coll,        \* its collection of the folder, None before one is taken
    todo,        \* the paths it has still to write or remove in the folder
    pass,        \* passes made of the publication or the preparation
    named,       \* the head the publication is sent at, where one is named
    req,         \* the publication in flight
    cand,        \* the candidate being prepared
    \* bounds and history
    texts, deletes, others, stops,
    mine,        \* per path, the user's last text not since given up, or 0
    seen,        \* per path, every content that ever stood in the folder
    stood,       \* per path, what stood there when the standing preparation,
                 \* over however many runs, first rewrote it, or None
    blind        \* the heads upon which a body claiming no parent was answered

diskVars == <<folder, base, outbox, res, snap>>
runData  == <<mode, coll, todo, pass, named, req, cand>>
runVars  == <<pc, runData>>
ghosts   == <<texts, deletes, others, stops, mine, seen, stood, blind>>
vars     == <<commits, diskVars, runVars, ghosts>>

Modes == {"publish", "retrieve", "overwrite", "continue", "discard"}

Nothing == [p \in Paths |-> None]
HeadCommit    == Len(commits)
TreeAt(c) == IF c = 0 THEN EmptyTree ELSE commits[c].tree

NoBase == [commit |-> 0, files |-> EmptyTree]

HasPending == res # None /\ \E p \in Paths : res.pending[p] # None

Publishing == mode \in {"publish", "continue"}

\* The run's collection: the one handed on, or a fresh one.
Collected == IF coll = None THEN folder ELSE coll

\* excluded_on_disk: the paths a collection lacks although a file stands there.
ExcludedOnDisk(hashes) == {p \in Paths : hashes[p] = NoFile /\ folder[p] # NoFile}
Without(tree, excluded) == [p \in Paths |-> IF p \in excluded THEN NoFile ELSE tree[p]]

\* Every change of the folder goes through here, so that seen follows it.
SetFile(p, content) ==
    /\ folder' = [folder EXCEPT ![p] = content]
    /\ seen'   = [seen EXCEPT ![p] = @ \cup {content}]

Goto(step) == pc' = step
EndRun ==
    /\ pc' = "idle" /\ mode' = "none" /\ coll' = None /\ todo' = {}
    /\ pass' = 0 /\ named' = None /\ req' = None /\ cand' = None

-----------------------------------------------------------------------------
(* The user, the other writers, and the process that runs the command. *)

UserEdits(p) ==
    /\ texts < MaxTexts
    /\ folder[p] = NoFile => (LateFiles \/ pc = "idle") /\ (Restores \/ outbox = None)
    /\ SetFile(p, {texts + 1})
    /\ texts' = texts + 1
    /\ mine' = [mine EXCEPT ![p] = IF mode \in {"overwrite", "discard"} THEN 0 ELSE texts + 1]
    /\ UNCHANGED <<commits, base, outbox, res, snap, runVars, deletes, others, stops, stood, blind>>

\* Without end: behind the run's collection of the file, a text authored before
\* is put back over the one collected, once the stops are spent.
UserRewrites(p) ==
    /\ HeadCommit < MaxRewritten /\ stops = MaxStops
    /\ coll # None /\ coll[p] # NoFile /\ folder[p] = coll[p]
    /\ \E text \in 1 .. texts : {text} # folder[p] /\ SetFile(p, {text})
    /\ mine' = [mine EXCEPT ![p] = 0]
    /\ UNCHANGED <<commits, base, outbox, res, snap, runVars, texts, deletes, others, stops, stood, blind>>

UserDeletes(p) ==
    /\ deletes < MaxDeletes
    /\ folder[p] # NoFile
    /\ SetFile(p, NoFile)
    /\ deletes' = deletes + 1
    /\ mine' = [mine EXCEPT ![p] = 0]
    /\ UNCHANGED <<commits, base, outbox, res, snap, runVars, texts, others, stops, stood, blind>>

UserResolvesMarkers(p) ==
    /\ HoldsMarker(folder[p])
    /\ SetFile(p, folder[p] \ {Marker})
    /\ UNCHANGED <<commits, base, outbox, res, snap, runVars, texts, deletes, others, stops, mine, stood, blind>>

\* Another writer's commit: a new text, a deletion, or a path put back to
\* what an earlier commit held.
OtherCommits(p) ==
    /\ others < MaxOthers
    /\ \E content \in {{texts + 1}, NoFile} \cup {commits[c].tree[p] : c \in 1 .. HeadCommit} :
          /\ content # TreeAt(HeadCommit)[p]
          /\ content = {texts + 1} => texts < MaxTexts
          /\ texts' = IF content = {texts + 1} THEN texts + 1 ELSE texts
          /\ commits' = Append(commits, [tree |-> [TreeAt(HeadCommit) EXCEPT ![p] = content],
                                         own  |-> FALSE])
    /\ others' = others + 1
    /\ UNCHANGED <<diskVars, runVars, deletes, stops, mine, seen, stood, blind>>

\* The run ends here, whatever it held: it is killed, a read is refused, a
\* required check fails, or a send is not answered.  Every durable step
\* already made stands.
Stop ==
    /\ pc # "idle"
    /\ stops < MaxStops
    /\ stops' = stops + 1
    /\ EndRun
    /\ UNCHANGED <<commits, diskVars, texts, deletes, others, mine, seen, stood, blind>>

Start(m) ==
    /\ pc = "idle"
    /\ m = "discard" => res # None
    /\ mode' = m
    /\ coll' = IF m \in {"continue", "discard"} THEN None ELSE folder
    /\ Goto(IF m = "discard" THEN "discard" ELSE "settle")
    /\ todo' = IF m = "discard" THEN {p \in Paths : snap[p] # None} ELSE {}
    /\ mine' = CASE m = "overwrite" -> [p \in Paths |-> 0]
                 [] m = "discard"   -> [p \in Paths |->
                       IF snap[p] = None \/ mine[p] \in TextOf(snap[p]) THEN mine[p] ELSE 0]
                 [] OTHER -> mine
    /\ UNCHANGED <<commits, diskVars, pass, named, req, cand, texts, deletes, others, stops, seen, stood, blind>>

-----------------------------------------------------------------------------
(* settle_outbox: the publication an earlier run may have landed. *)

\* The head's tree without the paths a recorded tree lacks though a file
\* stands there: what settle_outbox compares with the outbox.
HeadBeside(tree) == Without(TreeAt(HeadCommit), ExcludedOnDisk(tree))

Landed    == HeadCommit # 0 /\ HeadBeside(outbox.tree) = outbox.tree
Resumable ==
    LET parentTree == Without(TreeAt(outbox.parent), ExcludedOnDisk(outbox.tree))
    IN  \A p \in Changed(parentTree, HeadBeside(outbox.tree)) :
            HeadBeside(outbox.tree)[p] = outbox.tree[p]

\* The reference tree of a publication at `parent`: the base's own files at
\* the base's commit, and the commit's tree elsewhere.
\* (TreeOfBase: the base's own files taken for any commit's.)
TreeOfBase(parent) == base.files
TreeRead(parent) == IF parent = base.commit THEN base.files ELSE TreeAt(parent)

NothingToSettle ==
    /\ pc = "settle" /\ outbox = None
    /\ Goto("resolution")
    /\ UNCHANGED <<commits, diskVars, runData, ghosts>>

SettleLanded ==
    /\ pc = "settle" /\ outbox # None /\ Landed
    /\ base' = [commit |-> HeadCommit, files |-> TreeAt(HeadCommit)]
    /\ Goto("landed")
    /\ UNCHANGED <<commits, folder, outbox, res, snap, runData, ghosts>>

\* A retrieval holding no credential sends nothing and leaves the outbox.
SettleWithoutToken ==
    /\ pc = "settle" /\ outbox # None /\ ~Landed
    /\ mode \in {"retrieve", "overwrite"} /\ Restores
    /\ Goto("resolution")
    /\ UNCHANGED <<commits, diskVars, runData, ghosts>>

SettleResumes ==
    /\ pc = "settle" /\ outbox # None /\ ~Landed /\ Resumable
    /\ named' = [commit |-> HeadCommit, files |-> TreeRead(HeadCommit)]
    /\ Goto("publish")
    /\ UNCHANGED <<commits, diskVars, mode, coll, todo, pass, req, cand, ghosts>>

SettleDrops ==
    /\ pc = "settle" /\ outbox # None /\ ~Landed /\ ~Resumable
    /\ outbox' = None
    /\ Goto("resolution")
    /\ UNCHANGED <<commits, folder, base, res, snap, runData, ghosts>>

PreparedSince == res # None /\ (HasPending \/ res.reviewed # outbox.tree)

\* The landed publication's resolution and snapshots go, the outbox last:
\* a run killed part-way finds it again.
LandedKeepsReview ==
    /\ pc = "landed" /\ PreparedSince
    /\ outbox' = None
    /\ Goto("resolution")
    /\ UNCHANGED <<commits, folder, base, res, snap, runData, ghosts>>

LandedDropsResolution ==
    /\ pc = "landed" /\ ~PreparedSince
    /\ res' = None
    /\ Goto("landed_snap")
    /\ UNCHANGED <<commits, folder, base, outbox, snap, runData, ghosts>>

LandedDropsSnapshots ==
    /\ pc = "landed_snap"
    /\ snap' = Nothing /\ stood' = Nothing
    /\ Goto("landed_outbox")
    /\ UNCHANGED <<commits, folder, base, outbox, res, runData, texts, deletes, others, stops, mine, seen, blind>>

LandedDropsOutbox ==
    /\ pc = "landed_outbox"
    /\ outbox' = None
    /\ Goto("resolution")
    /\ UNCHANGED <<commits, folder, base, res, snap, runData, ghosts>>

-----------------------------------------------------------------------------
(* converge_from_resolution and continue_locked: the resolution standing.  *)

\* A candidate to prepare over `head` from the tree of `commit`; `ret` says
\* what the preparation answers to.  One resumed over a half-written
\* resolution keeps that run's summaries, and the hashes it was to write.
NewCandidate(commit, tree, head, forced, ret, sent, reviewed) ==
    [base |-> commit, tree |-> tree, head |-> head, forced |-> forced, ret |-> ret,
     sent |-> sent, reviewed |-> reviewed,
     written |-> IF HasPending
                 THEN [p \in Paths |-> IF res.pending[p] = NoFile THEN None ELSE res.pending[p]]
                 ELSE Nothing,
     local   |-> IF HasPending THEN res.local ELSE {},
     colls   |-> IF HasPending THEN res.colls ELSE {},
     extra   |-> IF HasPending THEN res.combined ELSE {},
     keep    |-> res # None,
     excluded |-> {}, target |-> Nothing, before |-> Nothing,
     taken |-> {}, untouched |-> {}, missed |-> FALSE]

Prepare(candidate) ==
    /\ cand' = candidate
    /\ pass' = 0
    /\ Goto("plan")

NoResolution ==
    /\ pc = "resolution" /\ res = None
    /\ Goto("head")
    /\ UNCHANGED <<commits, diskVars, runData, ghosts>>

\* finish_preparation, against the base and the head the resolution names.
FinishPreparation ==
    /\ pc = "resolution" /\ HasPending /\ mode # "overwrite"
    /\ Prepare(NewCandidate(res.base, TreeRead(res.base), res.head, TRUE, "end", 0, None))
    /\ UNCHANGED <<commits, diskVars, mode, coll, todo, named, req, ghosts>>

\* A resolution nobody has reviewed, or past its round bound, is handed back
\* for attention.
Attention ==
    /\ pc = "resolution" /\ res # None /\ mode # "continue"
    /\ ~HasPending \/ mode = "overwrite"
    /\ \/ res.round > RoundBound
       \/ mode = "retrieve"
       \/ mode = "publish" /\ res.reviewed = None
    /\ EndRun
    /\ UNCHANGED <<commits, diskVars, ghosts>>

ResumeReviewed ==
    /\ pc = "resolution" /\ res # None /\ ~HasPending
    /\ mode = "publish" /\ res.reviewed # None /\ res.round <= RoundBound
    /\ Goto("publish")
    /\ UNCHANGED <<commits, diskVars, runData, ghosts>>

OverwriteResolution ==
    /\ pc = "resolution" /\ res # None
    /\ mode = "overwrite" /\ res.round <= RoundBound
    /\ Goto("head")
    /\ UNCHANGED <<commits, diskVars, runData, ghosts>>

\* A half-written candidate is finished and handed back, never recorded as
\* reviewed.  (Standing: any resolution is.)
Standing == res # None
Reviewable == res # None /\ ~HasPending

\* continue_locked 3: the one collection, recorded as reviewed and handed on.
Continue ==
    /\ pc = "resolution" /\ Reviewable /\ mode = "continue"
    /\ coll' = folder
    /\ res' = [res EXCEPT !.reviewed = folder]
    /\ mine' = [p \in Paths |-> IF mine[p] \in TextOf(folder[p]) THEN mine[p] ELSE 0]
    /\ Goto("publish")
    /\ UNCHANGED <<commits, folder, base, outbox, snap, mode, todo, pass, named, req, cand,
                   texts, deletes, others, stops, seen, stood, blind>>

-----------------------------------------------------------------------------
(* converge_from_head: the folder, the base and the head compared. *)

\* The paths a collection lacks though they stand on disk leave every side.
HeadSide(collected) == Without(TreeAt(HeadCommit), ExcludedOnDisk(collected))
HeadHoldsBaseTree(collected) ==
    Without(base.files, ExcludedOnDisk(collected)) = HeadSide(collected)

OverwriteWanted == mode = "overwrite" /\ (Collected # HeadSide(Collected) \/ res # None)

OverwritePlans ==
    /\ pc = "head" /\ OverwriteWanted
    /\ LET collected == Collected
           excluded  == ExcludedOnDisk(collected)
           head      == TreeAt(HeadCommit)
           target    == [p \in Paths |->
                            IF head[p] # collected[p] /\ p \notin excluded
                            THEN head[p] ELSE None]
       IN  /\ coll' = collected
           /\ cand' = [NewCandidate(base.commit, base.files, HeadCommit, FALSE, "end", 0, None)
                         EXCEPT !.target = target]
    /\ Goto("oversnap")
    /\ UNCHANGED <<commits, diskVars, mode, todo, pass, named, req, ghosts>>

FolderHoldsHead ==
    /\ pc = "head" /\ ~OverwriteWanted
    /\ Collected = HeadSide(Collected)
    /\ base' = IF HeadCommit # 0 /\ (base.commit # HeadCommit \/ ~HeadHoldsBaseTree(Collected))
               THEN [commit |-> HeadCommit, files |-> TreeAt(HeadCommit)] ELSE base
    /\ EndRun
    /\ UNCHANGED <<commits, folder, outbox, res, snap, ghosts>>

HeadIsBase ==
    /\ pc = "head" /\ ~OverwriteWanted
    /\ Collected # HeadSide(Collected)
    /\ HeadCommit = base.commit /\ HeadHoldsBaseTree(Collected)
    /\ IF Publishing
       THEN /\ coll' = Collected
            /\ Goto("publish")
            /\ UNCHANGED <<mode, todo, pass, named, req, cand>>
       ELSE EndRun
    /\ UNCHANGED <<commits, diskVars, ghosts>>

HeadPastBase ==
    /\ pc = "head" /\ ~OverwriteWanted
    /\ Collected # HeadSide(Collected)
    /\ ~(HeadCommit = base.commit /\ HeadHoldsBaseTree(Collected))
    /\ coll' = Collected
    /\ Prepare(NewCandidate(base.commit, base.files, HeadCommit, FALSE, "end", 0, None))
    /\ UNCHANGED <<commits, diskVars, mode, todo, named, req, ghosts>>

-----------------------------------------------------------------------------
(* prepare_candidate: one pass collects, compares, snapshots, records the  *)
(* resolution where one is needed, and only then touches the folder.       *)

HeadOfCandidate == TreeAt(cand.head)
ComparedBase    == Without(cand.tree, cand.excluded)
ComparedHead    == Without(HeadOfCandidate, cand.excluded)

TakenFromHead == RemoteOnly(ComparedBase, coll, ComparedHead)
Collided      == Collisions(ComparedBase, coll, ComparedHead)

\* A pass refused on a file changed since its collection, or that left a
\* path untouched, is followed by one over a fresh collection, up to the bound
\* of passes.  (PassNotCounted: the pass is not counted.)
PassNotCounted ==
    IF pass + 1 < MaxPasses
    THEN /\ pass' = pass /\ coll' = None /\ todo' = {}
         /\ cand' = [cand EXCEPT !.missed = FALSE]
         /\ Goto("plan")
         /\ UNCHANGED <<mode, named, req>>
    ELSE EndRun
NextPass ==
    IF pass + 1 < MaxPasses
    THEN /\ pass' = pass + 1 /\ coll' = None /\ todo' = {}
         /\ cand' = [cand EXCEPT !.missed = FALSE]
         /\ Goto("plan")
         /\ UNCHANGED <<mode, named, req>>
    ELSE EndRun

\* The collection and the exclusion test, then the head's content is read.
CandidatePlan ==
    /\ pc = "plan"
    /\ coll' = Collected
    /\ cand' = [cand EXCEPT !.excluded = ExcludedOnDisk(Collected)]
    /\ Goto("snapshot")
    /\ UNCHANGED <<commits, diskVars, mode, todo, pass, named, req, ghosts>>

\* A path already holding what an earlier pass, or a killed run, wrote.
AlreadyCandidate(p) == coll[p] # NoFile /\ cand.written[p] = coll[p]

ToMerge == {p \in BothHold(ComparedBase, coll, ComparedHead) : ~AlreadyCandidate(p)}

\* The base's content, where its commit holds the path at it.
MergeBase(p) ==
    IF cand.base # 0 /\ TreeAt(cand.base)[p] = ComparedBase[p]
    THEN TextOf(ComparedBase[p]) ELSE {}

\* What merge_collision may answer: the texts merged, marked where they
\* overlap, or nothing where some side is no text.
MergeResults(p) ==
    {None, MarkedMerge(MergeBase(p), coll[p], ComparedHead[p])}
      \cup IF MergeBase(p) = {} THEN {}
           ELSE {CleanMerge(MergeBase(p), coll[p], ComparedHead[p])}

Target(merged) ==
    [p \in Paths |->
        CASE p \in TakenFromHead -> ComparedHead[p]
          [] p \in DeleteModify(ComparedBase, coll, ComparedHead) -> ComparedHead[p]
          [] p \in ToMerge -> merged[p]
          [] OTHER -> None]

Targets(target) == {p \in Paths : target[p] # None}

StoresPrior(target, kept) == {p \in Targets(target) : kept[p] = None}

\* A snapshot keeps a path's first content once one stands, but for a path
\* an earlier pass snapshotted and left untouched.
KeptSnapshot ==
    IF cand.keep THEN [p \in Paths |-> IF p \in cand.untouched THEN None ELSE snap[p]]
                 ELSE Nothing

\* What a path held before the pass touches it: collected, or on disk.
Prior(p) == IF coll[p] # NoFile THEN coll[p] ELSE folder[p]

\* A collected file read again, to be merged or snapshotted, has changed.
ReadsChanged(target) ==
    \E p \in StoresPrior(target, KeptSnapshot) \cup (ToMerge \cap Targets(target)) :
        coll[p] # NoFile /\ folder[p] # coll[p]

CandidateStale(target) ==
    /\ ReadsChanged(target)
    /\ NextPass
    /\ UNCHANGED <<commits, diskVars, ghosts>>

CandidateSnapshot(target) ==
    /\ ~ReadsChanged(target)
    /\ LET stored == StoresPrior(target, KeptSnapshot)
       IN  /\ snap' = [p \in Paths |-> IF p \in stored THEN Prior(p) ELSE KeptSnapshot[p]]
           /\ cand' = [cand EXCEPT
                        !.target = target, !.taken = stored, !.untouched = {},
                        !.before = [p \in Paths |-> Prior(p)],
                        !.keep   = TRUE,
                        !.local  = @ \cup LocalOnly(ComparedBase, coll, ComparedHead),
                        !.colls  = @ \cup Collided]
    /\ stood' = IF cand.keep THEN stood ELSE Nothing
    /\ Goto("resolve")
    /\ UNCHANGED <<commits, folder, base, outbox, res, mode, coll, todo, pass, named, req,
                   texts, deletes, others, stops, mine, seen, blind>>

CandidateReads ==
    /\ pc = "snapshot"
    /\ \E merged \in [ToMerge -> UNION {MergeResults(p) : p \in ToMerge}] :
          /\ \A p \in ToMerge : merged[p] \in MergeResults(p)
          /\ LET target == Target(merged)
             IN  CandidateStale(target) \/ CandidateSnapshot(target)

\* The content the candidate proposes for a collided path.
Proposed(p) == IF cand.target[p] # None THEN cand.target[p] ELSE coll[p]

Resolving ==
    \/ cand.forced /\ cand.local # {}
    \/ res # None
    \/ cand.colls # {}
    \/ Publishing /\ cand.local # {}

Owed == [p \in Paths |-> IF cand.target[p] # None THEN cand.target[p]
                         ELSE IF res = None THEN None ELSE res.pending[p]]

\* Recorded before the first folder write, with every write it still owes.
CandidateResolve ==
    /\ pc = "resolve"
    /\ res' = IF ~Resolving THEN res
              ELSE [base |-> cand.base, head |-> cand.head,
                    round |-> IF res = None THEN 1 ELSE res.round,
                    local |-> cand.local, colls |-> cand.colls,
                    combined |-> cand.local \cup cand.extra
                        \cup {p \in Collided : Proposed(p) # HeadOfCandidate[p]},
                    reviewed |-> None, pending |-> Owed]
    /\ todo' = Targets(cand.target)
    /\ Goto("touch")
    /\ UNCHANGED <<commits, folder, base, outbox, snap, mode, coll, pass, named, req, cand, ghosts>>

\* Each path is hashed again immediately before it is touched.
\* (TouchedUnchecked: it is not.)
TouchedUnchecked(p) == TRUE
Unchanged(p) == folder[p] = cand.before[p]

\* Every write before any removal.
CandidateTouches(p) ==
    /\ pc = "touch" /\ p \in todo
    /\ cand.target[p] = NoFile => \A q \in todo : cand.target[q] = NoFile
    /\ todo' = todo \ {p}
    /\ IF Unchanged(p)
       THEN /\ SetFile(p, cand.target[p])
            /\ cand' = IF cand.target[p] = NoFile THEN cand
                       ELSE [cand EXCEPT !.written[p] = cand.target[p]]
            /\ stood' = IF stood[p] = None THEN [stood EXCEPT ![p] = folder[p]] ELSE stood
       ELSE /\ cand' = [cand EXCEPT !.missed = TRUE, !.untouched = @ \cup ({p} \cap cand.taken)]
            /\ UNCHANGED <<folder, seen, stood>>
    /\ UNCHANGED <<commits, base, outbox, res, snap, pc, mode, coll, pass, named, req,
                   texts, deletes, others, stops, mine, blind>>

CandidateMissed ==
    /\ pc = "touch" /\ todo = {} /\ cand.missed
    /\ NextPass
    /\ UNCHANGED <<commits, diskVars, ghosts>>

CandidateSynced ==
    /\ pc = "touch" /\ todo = {} /\ ~cand.missed /\ res = None
    /\ base' = IF cand.head = 0 THEN base
               ELSE [commit |-> cand.head, files |-> HeadOfCandidate]
    /\ EndRun
    /\ UNCHANGED <<commits, folder, outbox, res, snap, ghosts>>

CandidateStands ==
    /\ pc = "touch" /\ todo = {} /\ ~cand.missed /\ res # None
    /\ res' = [res EXCEPT !.pending = Nothing]
    /\ IF cand.ret = "takein"
       THEN /\ Goto("takenin")
            /\ UNCHANGED runData
       ELSE EndRun
    /\ UNCHANGED <<commits, folder, base, outbox, snap, ghosts>>

-----------------------------------------------------------------------------
(* publish_reviewed: the folder published at the head it was reviewed over *)

\* What the publication sends is the collection; a fresh one after a pass
\* refused on a file changed since.
ReviewedElsewhere(collected) ==
    res # None /\ res.reviewed # None /\ res.reviewed # collected

PublishChanged ==
    /\ pc = "publish" /\ ReviewedElsewhere(Collected)
    /\ LET changed == Changed(res.reviewed, Collected)
       IN  res' = [res EXCEPT !.reviewed = None, !.local = @ \cup changed,
                              !.combined = @ \cup changed]
    /\ Goto("unreviewed")
    /\ UNCHANGED <<commits, folder, base, outbox, snap, runData, ghosts>>

\* A resolution handed back for review drops the outbox the run came in on.
\* (UnreviewedKeepsOutbox: it does not.)
UnreviewedKeepsOutbox ==
    /\ \/ pc = "unreviewed"
       \/ pc = "publish" /\ res # None /\ res.reviewed = None
    /\ EndRun
    /\ UNCHANGED <<commits, diskVars, ghosts>>

PublishUnreviewed ==
    /\ \/ pc = "unreviewed"
       \/ pc = "publish" /\ res # None /\ res.reviewed = None
    /\ outbox' = None
    /\ EndRun
    /\ UNCHANGED <<commits, folder, base, res, snap, ghosts>>

Publishable(collected) == res # None => res.reviewed = collected

\* The files a merge may have marked.  (LocalFiles: the local changes instead.)
LocalFiles == IF res = None THEN {} ELSE {p \in res.local : Collected[p] # NoFile}
CollidedFiles == IF res = None THEN {} ELSE {p \in res.colls : Collected[p] # NoFile}

NextPublication ==
    IF pass + 1 < MaxPasses
    THEN /\ pass' = pass + 1 /\ coll' = None
         /\ Goto("publish")
         /\ UNCHANGED <<mode, todo, named, req, cand>>
    ELSE EndRun

\* A collided file not held in memory is read from the folder, where it may
\* have changed.
PublishStale ==
    /\ pc = "publish" /\ Publishable(Collected)
    /\ \E p \in CollidedFiles : folder[p] # Collected[p]
    /\ NextPublication
    /\ UNCHANGED <<commits, diskVars, ghosts>>

PublishMarked ==
    /\ pc = "publish" /\ Publishable(Collected)
    /\ \E p \in CollidedFiles : HoldsMarker(Collected[p])
    /\ EndRun
    /\ UNCHANGED <<commits, diskVars, ghosts>>

\* The commit the publication is sent over: the head named by a resumption or
\* a move taken in, else the one reviewed over, else the base's.
\* (ParentAtHead: whatever the head is; ParentNotNamed: no fallback.)
ParentAtHead == HeadCommit
ParentNotNamed == IF named # None THEN named.commit ELSE None
Parent ==
    CASE named # None -> named.commit
      [] named = None /\ res # None -> res.head
      [] OTHER -> base.commit

PublishRecords ==
    /\ pc = "publish" /\ Publishable(Collected)
    /\ \A p \in CollidedFiles : ~HoldsMarker(Collected[p])
    /\ coll' = Collected
    /\ outbox' = [parent |-> Parent, tree |-> Collected]
    /\ Goto("request")
    /\ UNCHANGED <<commits, folder, base, res, snap, mode, todo, pass, named, req, cand, ghosts>>

\* The request's changes, against the parent's tree without what stands in
\* the folder uncollected.
Request ==
    LET parent    == outbox.parent
        tree      == IF named # None THEN named.files ELSE TreeRead(parent)
        reference == Without(tree, ExcludedOnDisk(coll))
    IN  [origin |-> parent, parent |-> parent, reference |-> reference,
         puts |-> {p \in Changed(reference, coll) : coll[p] # NoFile},
         dels |-> {p \in Changed(reference, coll) : coll[p] = NoFile}]

PublishRequest ==
    /\ pc = "request" /\ coll # EmptyTree
    /\ req' = Request
    /\ Goto("send")
    /\ UNCHANGED <<commits, diskVars, mode, coll, todo, pass, named, cand, ghosts>>

\* A collection of nothing, or a refusal other than a moved head: nothing
\* landed, so the outbox goes.
PublishRefused ==
    /\ \/ pc = "request" /\ coll = EmptyTree /\ stops' = stops
       \/ pc = "send" /\ req.parent = 0 /\ HeadCommit # 0 /\ stops' = stops
       \/ pc \in {"request", "send"} /\ stops < MaxStops /\ stops' = stops + 1
    /\ outbox' = None
    /\ EndRun
    /\ UNCHANGED <<commits, folder, base, res, snap, texts, deletes, others, mine, seen, stood, blind>>

-----------------------------------------------------------------------------
(* smart_push: the request as one body, or chunked into a chain of them.   *)

\* Every body but the last carries some of the files; the last carries the
\* rest of them and every deletion.
Batches == IF req.puts = {} THEN {{}} ELSE (SUBSET req.puts) \ {{}}

\* A file not held in memory is read as its batch is filled.
SendStale ==
    /\ pc = "send"
    /\ \E p \in req.puts : folder[p] # coll[p]
    /\ outbox' = None
    /\ NextPublication
    /\ UNCHANGED <<commits, folder, base, res, snap, ghosts>>

Pushed(batch, last) ==
    [p \in Paths |-> CASE p \in batch -> coll[p]
                       [] last /\ p \in req.dels -> NoFile
                       [] OTHER -> TreeAt(HeadCommit)[p]]

\* The server takes a body whose parent is its head, or one claiming none,
\* whose head it does not check (and may refuse, PublishRefused, where it holds
\* commits).  It answers one that changes nothing with the standing head.
Accepts(parent) == parent = HeadCommit \/ parent = 0

SendBatch(batch) ==
    /\ pc = "send" /\ batch \in Batches
    /\ Accepts(req.parent)
    /\ LET last == batch = req.puts
           tree == Pushed(batch, last)
       IN  /\ commits' = IF tree = TreeAt(HeadCommit) THEN commits
                         ELSE Append(commits, [tree |-> tree, own |-> TRUE])
           /\ req' = [req EXCEPT !.puts = @ \ batch, !.parent = Len(commits')]
           /\ Goto(IF last THEN "acked" ELSE "send")
    /\ blind' = IF req.parent = 0 THEN blind \cup {HeadCommit} ELSE blind
    /\ UNCHANGED <<diskVars, mode, coll, todo, pass, named, cand, texts, deletes, others, stops,
                   mine, seen, stood>>

\* publish_reviewed 7: the head moved.
SendConflicts ==
    /\ pc = "send" /\ ~Accepts(req.parent)
    /\ outbox' = None
    /\ Goto("refused")
    /\ UNCHANGED <<commits, folder, base, res, snap, runData, ghosts>>

\* publish_reviewed 6: the landed tree is the base; the outbox goes first.
\* (ClaimedBase: recorded at the commit the publication was sent over.)
ClaimedBase   == [commit |-> req.origin, files |-> coll]
PublishedBase == [commit |-> req.parent, files |-> coll]

Acknowledged ==
    /\ pc = "acked"
    /\ base' = PublishedBase
    /\ Goto("drop_outbox")
    /\ UNCHANGED <<commits, folder, outbox, res, snap, runData, ghosts>>

DropOutbox ==
    /\ pc = "drop_outbox"
    /\ outbox' = None
    /\ Goto("drop_resolution")
    /\ UNCHANGED <<commits, folder, base, res, snap, runData, ghosts>>

DropResolution ==
    /\ pc = "drop_resolution"
    /\ res' = None
    /\ Goto("drop_snapshots")
    /\ UNCHANGED <<commits, folder, base, outbox, snap, runData, ghosts>>

DropSnapshots ==
    /\ pc = "drop_snapshots"
    /\ snap' = Nothing /\ stood' = Nothing
    /\ EndRun
    /\ UNCHANGED <<commits, folder, base, outbox, res, texts, deletes, others, stops, mine, seen, blind>>

-----------------------------------------------------------------------------
(* A refused send: the move taken in where it is disjoint from the         *)
(* reviewed work, a round raised and the candidate prepared again where    *)
(* it is not.                                                              *)

ReviewHolds == pass + 1 < MaxPasses /\ res # None /\ res.reviewed # None /\ req.origin # 0

ReviewedWork == Changed(req.reference, res.reviewed)
HeadMoves    == Changed(req.reference, HeadBeside(res.reviewed))
Disjoint     == HeadCommit # req.origin /\ HeadMoves \cap ReviewedWork = {}

TakeInMove ==
    /\ pc = "refused" /\ ReviewHolds /\ Disjoint
    /\ LET reviewed == [p \in Paths |-> IF p \in HeadMoves THEN HeadBeside(res.reviewed)[p]
                                        ELSE res.reviewed[p]]
       IN  Prepare(NewCandidate(req.origin, req.reference, HeadCommit, TRUE, "takein", pass, reviewed))
    /\ coll' = None
    /\ UNCHANGED <<commits, diskVars, mode, todo, named, req, ghosts>>

\* A collision appeared while the move was taken in.
TakenInCollided ==
    /\ pc = "takenin" /\ res.colls # {}
    /\ res' = [res EXCEPT !.round = @ + 1]
    /\ EndRun
    /\ UNCHANGED <<commits, folder, base, outbox, snap, ghosts>>

TakenIn ==
    /\ pc = "takenin" /\ res.colls = {}
    /\ res' = [res EXCEPT !.reviewed = cand.reviewed]
    /\ named' = [commit |-> cand.head, files |-> HeadOfCandidate]
    /\ pass' = cand.sent + 1
    /\ coll' = None /\ req' = None /\ cand' = None
    /\ Goto("publish")
    /\ UNCHANGED <<commits, folder, base, outbox, snap, mode, todo, ghosts>>

RaiseRound ==
    /\ pc = "refused" /\ ~(ReviewHolds /\ Disjoint)
    /\ res' = IF res = None THEN None ELSE [res EXCEPT !.round = @ + 1]
    /\ Goto("raised")
    /\ UNCHANGED <<commits, folder, base, outbox, snap, runData, ghosts>>

PrepareAgain ==
    /\ pc = "raised"
    /\ coll' = None
    /\ Prepare(NewCandidate(req.origin, req.reference, HeadCommit, TRUE, "end", 0, None))
    /\ UNCHANGED <<commits, diskVars, mode, todo, named, req, ghosts>>

-----------------------------------------------------------------------------
(* overwrite_with_head: the folder made the head, with no path tested.     *)

OverwriteStale ==
    /\ pc = "oversnap"
    /\ \E p \in StoresPrior(cand.target, KeptSnapshot) : coll[p] # NoFile /\ folder[p] # coll[p]
    /\ EndRun
    /\ UNCHANGED <<commits, diskVars, ghosts>>

OverwriteSnapshot ==
    /\ pc = "oversnap"
    /\ LET stored == StoresPrior(cand.target, KeptSnapshot)
       IN  /\ \A p \in stored : coll[p] = NoFile \/ folder[p] = coll[p]
           /\ snap' = [p \in Paths |-> IF p \in stored THEN Prior(p) ELSE KeptSnapshot[p]]
    /\ stood' = IF cand.keep THEN stood ELSE Nothing
    /\ todo' = Targets(cand.target)
    /\ Goto("overwrite")
    /\ UNCHANGED <<commits, folder, base, outbox, res, mode, coll, pass, named, req, cand,
                   texts, deletes, others, stops, mine, seen, blind>>

OverwriteTouches(p) ==
    /\ pc = "overwrite" /\ p \in todo
    /\ cand.target[p] = NoFile => \A q \in todo : cand.target[q] = NoFile
    /\ SetFile(p, cand.target[p])
    /\ todo' = todo \ {p}
    /\ UNCHANGED <<commits, base, outbox, res, snap, pc, mode, coll, pass, named, req, cand,
                   texts, deletes, others, stops, mine, stood, blind>>

OverwriteRecords ==
    /\ pc = "overwrite" /\ todo = {}
    /\ base' = IF cand.head = 0 THEN base
               ELSE [commit |-> cand.head, files |-> HeadOfCandidate]
    /\ Goto("overwritten")
    /\ UNCHANGED <<commits, folder, outbox, res, snap, runData, ghosts>>

OverwriteEnds ==
    /\ pc = "overwritten"
    /\ res' = None
    /\ EndRun
    /\ UNCHANGED <<commits, folder, base, outbox, snap, ghosts>>

(* discard_resolution: the snapshot put back, then what was standing. *)

DiscardRestores(p) ==
    /\ pc = "discard" /\ p \in todo
    /\ snap[p] = NoFile => \A q \in todo : snap[q] = NoFile
    /\ SetFile(p, snap[p])
    /\ todo' = todo \ {p}
    /\ UNCHANGED <<commits, base, outbox, res, snap, pc, mode, coll, pass, named, req, cand,
                   texts, deletes, others, stops, mine, stood, blind>>

DiscardRestored ==
    /\ pc = "discard" /\ todo = {}
    /\ Goto("drop_outbox")
    /\ UNCHANGED <<commits, diskVars, runData, ghosts>>

-----------------------------------------------------------------------------
Init ==
    /\ \/ /\ commits = <<[tree |-> SeedTree, own |-> FALSE]>>
          /\ \/ folder = SeedTree /\ base = [commit |-> 1, files |-> SeedTree]
             \/ folder \in {SeedTree, EmptyTree} /\ base = NoBase
       \/ commits = <<>> /\ folder = SeedTree /\ base = NoBase
    /\ outbox = None /\ res = None /\ snap = Nothing
    /\ pc = "idle" /\ mode = "none" /\ coll = None /\ todo = {}
    /\ pass = 0 /\ named = None /\ req = None /\ cand = None
    /\ texts = 1 /\ deletes = 0 /\ others = 0 /\ stops = 0
    /\ mine = [p \in Paths |-> 0]
    /\ seen = [p \in Paths |-> {folder[p]}]
    /\ stood = Nothing /\ blind = {}

World ==
    \/ \E p \in Paths : UserEdits(p) \/ UserDeletes(p) \/ UserResolvesMarkers(p)
    \/ \E p \in Paths : OtherCommits(p)
    \/ \E m \in Modes : Start(m)
    \/ Stop

Settle ==
    \/ NothingToSettle \/ SettleLanded \/ SettleWithoutToken \/ SettleResumes \/ SettleDrops
    \/ LandedKeepsReview \/ LandedDropsResolution \/ LandedDropsSnapshots \/ LandedDropsOutbox

FromResolution ==
    \/ NoResolution \/ FinishPreparation \/ Attention \/ ResumeReviewed
    \/ OverwriteResolution \/ Continue

FromHead == OverwritePlans \/ FolderHoldsHead \/ HeadIsBase \/ HeadPastBase

Candidate ==
    \/ CandidatePlan \/ CandidateReads \/ CandidateResolve
    \/ \E p \in Paths : CandidateTouches(p)
    \/ CandidateMissed \/ CandidateSynced \/ CandidateStands

Publication ==
    \/ PublishChanged \/ PublishUnreviewed \/ PublishStale \/ PublishMarked
    \/ PublishRecords \/ PublishRequest \/ PublishRefused
    \/ SendStale \/ (\E batch \in SUBSET Paths : SendBatch(batch)) \/ SendConflicts
    \/ Acknowledged \/ DropOutbox \/ DropResolution \/ DropSnapshots
    \/ TakeInMove \/ TakenInCollided \/ TakenIn \/ RaiseRound \/ PrepareAgain

Overwrite ==
    \/ OverwriteStale \/ OverwriteSnapshot
    \/ \E p \in Paths : OverwriteTouches(p)
    \/ OverwriteRecords \/ OverwriteEnds

Discard == (\E p \in Paths : DiscardRestores(p)) \/ DiscardRestored

RunStep == Settle \/ FromResolution \/ FromHead \/ Candidate \/ Publication \/ Overwrite \/ Discard

Next == World \/ RunStep

Spec == Init /\ [][Next]_vars

-----------------------------------------------------------------------------
(* Properties. *)

Entry    == {None} \cup Content
Commits  == Seq([tree : Tree, own : BOOLEAN])
Base     == [commit : Nat, files : Tree]
Outbox   == [parent : Nat, tree : Tree]
Resolution ==
    [base : Nat, head : Nat, round : Nat, local : SUBSET Paths, colls : SUBSET Paths,
     combined : SUBSET Paths, reviewed : {None} \cup Tree, pending : [Paths -> Entry]]
Steps ==
    {"idle", "settle", "landed", "landed_snap", "landed_outbox", "resolution", "head", "plan",
     "snapshot", "resolve", "touch", "takenin", "publish", "unreviewed", "request", "send",
     "acked", "drop_outbox", "drop_resolution", "drop_snapshots", "refused", "raised",
     "oversnap", "overwrite", "overwritten", "discard"}

RequestType ==
    [origin : Nat, parent : Nat, reference : Tree, puts : SUBSET Paths, dels : SUBSET Paths]
CandidateType ==
    [base : Nat, tree : Tree, head : Nat, forced : BOOLEAN, ret : {"end", "takein"},
     sent : Nat, reviewed : {None} \cup Tree, written : [Paths -> Entry],
     local : SUBSET Paths, colls : SUBSET Paths, extra : SUBSET Paths, keep : BOOLEAN,
     excluded : SUBSET Paths, target : [Paths -> Entry], before : [Paths -> Entry],
     taken : SUBSET Paths, untouched : SUBSET Paths, missed : BOOLEAN]

\* Every record written to disk and every value a run carries has the shape
\* the step that reads it next relies on (working_copy.rs Resolution, Outbox,
\* BaseFile; converge.rs Candidate): no operator is applied to an absent record.
TypeOK ==
    /\ commits \in Commits
    /\ folder \in Tree /\ base \in Base /\ outbox \in {None} \cup Outbox
    /\ res \in {None} \cup Resolution /\ snap \in [Paths -> Entry]
    /\ pc \in Steps /\ mode \in Modes \cup {"none"} /\ coll \in {None} \cup Tree
    /\ todo \subseteq Paths /\ pass \in Nat
    /\ named \in {None} \cup Base
    /\ req \in {None} \cup RequestType
    /\ cand \in {None} \cup CandidateType
    /\ texts \in Nat /\ deletes \in Nat /\ others \in Nat /\ stops \in Nat
    /\ mine \in [Paths -> Nat] /\ seen \in [Paths -> SUBSET Content]
    /\ stood \in [Paths -> Entry] /\ blind \in SUBSET Nat

\* Outside an overwrite or a discard the user asked for, the user's last text
\* of a path is in the folder, in the snapshot or in a commit.
NoLostLocalWork ==
    \A p \in Paths : mine[p] # 0 =>
        \/ mine[p] \in TextOf(folder[p])
        \/ snap[p] # None /\ mine[p] \in TextOf(snap[p])
        \/ \E c \in 1 .. HeadCommit : mine[p] \in TextOf(commits[c].tree[p])

\* This step commits over a file of the head that never stood in the folder
\* and that no review named.
OverwritesUnseen ==
    /\ Len(commits') > HeadCommit /\ commits'[Len(commits')].own
    /\ \E p \in Paths :
          LET was == TreeAt(HeadCommit)[p]
          IN  /\ was # NoFile /\ commits'[Len(commits')].tree[p] # was
              /\ was \notin seen[p] /\ (res = None \/ p \notin res.combined)

\* A publication claiming a parent that replaces or deletes a file of the head
\* either put up a review naming the path, or the file had stood in the folder.
\* (One claiming none rests on the server alone: it names no head to compare.)
NoBlindOverwrite == [][~(OverwritesUnseen /\ req.origin # 0)]_vars

\* The base names a commit the repository holds, and every file it records
\* stood in that commit with that content, whatever was created or put back
\* while the run held its lock: base.json is what the next run takes for
\* converged (record_base, adopt and publish_reviewed).
BaseNamesCommitted ==
    /\ base.commit <= HeadCommit
    /\ \A p \in Paths : base.files[p] # NoFile => base.files[p] = TreeAt(base.commit)[p]

\* The file stood in a head upon which the copy published claiming no parent,
\* and stands in the commit still: no tree of that head was read, so nothing
\* the copy recorded or sent named the file.
StoodUnread(p, commit) == \E head \in blind : TreeAt(head)[p] = TreeAt(commit)[p]

\* Where no file appears behind a collection, the base is the whole tree of
\* the commit it names, none of its paths left out but those no tree was read
\* for: a file the base omits is one the next run would take for deleted.
BaseIsCommitted ==
    /\ base.commit <= HeadCommit
    /\ \A p \in Paths : \/ base.files[p] = TreeAt(base.commit)[p]
                        \/ base.files[p] = NoFile /\ StoodUnread(p, base.commit)

\* A resolution recorded as reviewed owes the folder no write: a candidate a
\* kill left half-written is never what `syns resolution continue` publishes
\* (continue_locked 1, Resolution::pending).
ReviewedIsWhole == res # None => (res.reviewed # None => ~HasPending)

\* When a publication is acknowledged, the commit its last body was answered
\* with holds the folder as it was collected, and that is the tree reviewed:
\* neither the chunks, nor a head moved between them, nor a fresh collection
\* taken after a refused pass sends anything else.  A file the collection lacks
\* is deleted there, unless a publication claiming no parent passed over it.
PublishedAsReviewed ==
    pc = "acked" =>
        /\ \A p \in Paths : \/ TreeAt(req.parent)[p] = coll[p]
                            \/ coll[p] = NoFile /\ StoodUnread(p, req.parent)
        /\ res # None => res.reviewed = coll

\* No publication carries a conflict marker prepare_candidate wrote into a
\* collided file (publish_reviewed's marker check), however many runs and
\* takings-in of a moved head lie between the two.
MarkersStayLocal ==
    \A c \in 1 .. HeadCommit : commits[c].own =>
        \A p \in Paths : ~HoldsMarker(commits[c].tree[p])

\* While a resolution stands, the snapshot of a path holds what stood there
\* when the resolution's preparation first rewrote it: what a discard puts
\* back (discard_resolution; snapshot_prior's `keep_first`).
SnapshotHoldsPrior ==
    res # None => \A p \in Paths : stood[p] # None => snap[p] = stood[p]

\* A publication whose commit the repository took, the answer lost, is not
\* sent a second time by the run that finds its outbox (settle_outbox).
LandedNotSentAgain ==
    [][pc = "settle" /\ pc' = "publish" =>
          ~\E c \in (outbox.parent + 1) .. HeadCommit :
              commits[c].own /\ commits[c].tree = outbox.tree]_vars

\* Every run ends, releasing the working copy's lock, though the user goes on
\* rewriting files behind every collection for ever: the passes of a preparation
\* and of a publication are counted (MAX_PASSES), also across a move taken in.
RunsEnd == (pc # "idle") ~> (pc = "idle")
RestlessNext == Next \/ \E p \in Paths : UserRewrites(p)
FairRuns == Init /\ [][RestlessNext]_vars /\ WF_vars(RunStep)

\* The user leaves the folder alone but for the markers of a resolution, and
\* goes on with `syns sync` and `syns resolution continue` until done.
Undisturbed ==
    \A p \in Paths : ~UserEdits(p) /\ ~UserRewrites(p) /\ ~UserDeletes(p) /\ ~OtherCommits(p)
Unhurried == \A m \in {"retrieve", "overwrite", "discard"} : ~Start(m)

Quiet == [][Undisturbed /\ Unhurried /\ ~Stop]_vars

FairSync ==
    /\ FairRuns
    /\ SF_vars(Start("publish")) /\ SF_vars(Start("continue"))
    /\ \A p \in Paths : SF_vars(pc = "idle" /\ UserResolvesMarkers(p))

Converged ==
    /\ pc = "idle" /\ outbox = None /\ res = None
    /\ folder = TreeAt(HeadCommit) /\ base = [commit |-> HeadCommit, files |-> folder]

\* Once nobody but the sync itself changes anything, repeating `syns sync`,
\* resolving the markers it leaves and `syns resolution continue` brings folder,
\* base and head together with no outbox or resolution left, from whatever an
\* earlier kill, refusal or agreement left on disk, and again after every run.
\* An emptied folder is never published.
Converges == <>Quiet => []<>(Converged \/ folder = EmptyTree)
=============================================================================
