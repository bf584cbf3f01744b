----------------------------- MODULE SmartPush ------------------------------
(***************************************************************************)
(* A forced or path-scoped `syns push` (src/commands/push.rs) and the      *)
(* publication under it (src/push/smart.rs): of a working copy, or of a    *)
(* folder inside one, whose send a moved head refuses is sent again where  *)
(* the folder did not move.  Other writers, the user and other runs of the *)
(* CLI over the same copy step in between any two steps.                   *)
(***************************************************************************)
EXTENDS FolderCheck

CONSTANTS
    InitialContents,   \* what a file may hold before the first change
    EditedFirst, \* what the user may have written before the first run
    UserWrites,  \* the changes the user makes later, each a partial tree
    Prefix,      \* the paths a path argument names
    Ignored,     \* paths an exclusion keeps out of every walk
    SendBound,   \* FOLDER_SEND_BOUND
    MaxMoves,    \* bound: steps of the user and of other runs on the copy
    MaxRuns      \* bound: runs

ASSUME InitialAssumption == InitialContents \subseteq Contents
ASSUME EditsAssumption ==
    \A write \in EditedFirst \cup UserWrites :
       \A p \in DOMAIN write \cap Paths : write[p] \in Contents \cup {Absent}

VARIABLES
    copyKind,    \* "copy", or "folder" for a folder of a holder
    disk,        \* the files under the root
    base,        \* the base this copy records, commit 0 for none
    outer,       \* the base of the copy enclosing the folder
    outerLater,  \* the enclosing copy's base was recorded last
    review,      \* a resolution stands
    run,         \* the publication
    record,      \* the local record, as the last run wrote it
    moves,       \* those steps so far
    runs         \* runs so far

copyVars == <<copyKind, disk, base, outer, outerLater, review, record, moves, runs>>
pushVars == <<versions, check, copyVars, run>>

Covered == IF copyKind = "copy" THEN Paths ELSE Folder
NoBase == [commit |-> 0, files |-> EmptyTree]
NoRecord == [commit |-> 0, files |-> EmptyTree, excluded |-> {}, exact |-> FALSE]

IdleRun ==
    [at |-> "idle", force |-> FALSE, prefixed |-> FALSE, based |-> NoBase,
     reference |-> EmptyTree, parent |-> NoParent, first |-> NoParent,
     recordBase |-> EmptyTree, excluded |-> {}, collected |-> EmptyTree,
     left |-> {}, deletes |-> {}, hashOnly |-> {}, chunked |-> FALSE,
     uploaded |-> {}, claims |-> NoParent, resent |-> FALSE, sends |-> 0,
     landed |-> 0]

Ends == run' = IdleRun /\ check' = NoCheck
Scope == IF run.prefixed THEN Covered \cap Prefix ELSE Covered

-----------------------------------------------------------------------------
(* The run up to its first request (`cmd_push`, `push_folder`).             *)

(* `folder_base`: of the folder copy's base and the enclosing copy's        *)
(* narrowed to the folder, the one recorded last.                           *)
FolderBase ==
    LET narrowed == [outer EXCEPT !.files = Only(@, Folder)]
    IN IF outer.commit # 0 /\ (base.commit = 0 \/ outerLater) THEN narrowed ELSE base

(* A run past a resolution nobody reviewed is refused; the base the run     *)
(* stands on is read before anything is collected.                          *)
Begin ==
    /\ run.at = "idle"
    /\ ~review
    /\ runs < MaxRuns /\ runs' = runs + 1
    /\ \E force, prefixed \in BOOLEAN :
         /\ copyKind = "copy" => force \/ prefixed
         /\ LET based == IF copyKind = "copy" THEN base ELSE FolderBase
            IN run' = [IdleRun EXCEPT
                         !.at = IF copyKind = "folder" /\ based.commit = 0
                                THEN "head" ELSE "collect",
                         !.force = force, !.prefixed = prefixed, !.based = based,
                         !.reference = based.files, !.parent = based.commit]
    /\ UNCHANGED <<versions, check, copyKind, disk, base, outer, outerLater,
                   review, record, moves>>

(* A folder recording no base, and a copy recording none, stand on the head *)
(* alone, which they read: the folder before it collects, the copy after.   *)
ReadHead ==
    /\ run.at = "head"
    /\ \/ /\ run' = [run EXCEPT !.at = IF copyKind = "copy" THEN "plan" ELSE "collect",
                                !.reference = Only(HeadTree, Covered),
                                !.parent = HeadCommit]
          /\ UNCHANGED check
       \/ Ends
    /\ UNCHANGED <<versions, copyVars>>

Collect ==
    /\ run.at = "collect"
    /\ run' = [run EXCEPT !.at = IF copyKind = "copy" /\ run.based.commit = 0
                                 THEN "head" ELSE "plan",
                          !.collected = Only(disk, Scope \ Ignored)]
    /\ UNCHANGED <<versions, check, copyVars>>

-----------------------------------------------------------------------------
(* The payload (`smart_push` phases 3 and 4).                               *)

(* `excluded_on_disk`: a path walked, standing on disk and left out of the  *)
(* collection is a file an exclusion keeps out.                             *)
ExcludedOnDisk ==
    {p \in FilesOf(run.reference) \cap Scope :
        run.collected[p] = Absent /\ disk[p] # Absent}

(* Mutant: a copy's run names excluded paths as deletions, as before D-162. *)
MutExcluded == {}

(* A convergence of a folder hands its reference over ready made; a copy's  *)
(* run takes the excluded paths out of the one it reads.                    *)
Excluded == IF copyKind = "copy" THEN ExcludedOnDisk ELSE {}

(* `build_push_entries`: the paths whose content changed, and those of the  *)
(* scope that are gone; a forced run compares with nothing.                 *)
Reference == IF run.force THEN EmptyTree ELSE Without(run.reference, Excluded)
ChangedPaths == {p \in FilesOf(run.collected) : run.collected[p] # Reference[p]}
DeletedPaths ==
    {p \in FilesOf(Reference) \cap Scope : run.collected[p] = Absent}

(* `standing_head_entry`: one collected path, named by its hash alone,      *)
(* where nothing changed.                                                   *)
StandingHeadEntry ==
    IF ChangedPaths \cup DeletedPaths # {} \/ FilesOf(run.collected) = {}
    THEN {} ELSE {CHOOSE p \in FilesOf(run.collected) : TRUE}

(* A run on the head alone has no base the server could compare: it refuses *)
(* any update or deletion of what the head holds.                           *)
OnTheHeadAlone == copyKind = "copy" /\ run.based.commit = 0 /\ run.parent # 0
HeadMoved ==
    /\ OnTheHeadAlone
    /\ DeletedPaths # {} \/ ChangedPaths \cap FilesOf(Reference) # {}

(* The empty guard, which `--allow-empty` lifts but for a body that would   *)
(* carry nothing at all.                                                    *)
CarriesNothing == ChangedPaths \cup DeletedPaths \cup StandingHeadEntry = {}
FoundNothing == FilesOf(run.collected) = {} /\ ~run.prefixed

Planned(chunked) ==
    LET parent == IF run.force THEN NoParent ELSE run.parent
    IN [run EXCEPT
          !.at = "send", !.reference = Reference, !.excluded = Excluded,
          !.recordBase = IF OnTheHeadAlone THEN run.reference
                         ELSE Without(run.reference, Excluded),
          !.left = ChangedPaths, !.deletes = DeletedPaths,
          !.hashOnly = StandingHeadEntry, !.chunked = chunked,
          !.claims = parent,
          !.first = IF run.sends = 0 THEN parent ELSE run.first,
          !.parent = parent,
          !.uploaded = {}, !.resent = FALSE, !.sends = run.sends + 1]

Plan ==
    /\ run.at = "plan"
    /\ \/ /\ ~HeadMoved /\ ~CarriesNothing
          /\ \E chunked \in BOOLEAN :
               /\ chunked => ChangedPaths # {}
               /\ run' = Planned(chunked)
          /\ UNCHANGED check
       \/ /\ HeadMoved \/ CarriesNothing \/ FoundNothing
          /\ Ends
    /\ UNCHANGED <<versions, copyVars>>

-----------------------------------------------------------------------------
(* The bodies (`publish_pass`, `chunked_push`).                             *)

(* `pack_batches`: one body, or any batch of what is left to send; the      *)
(* deletions ride on the last.                                              *)
Batches ==
    IF run.chunked /\ run.left # {} THEN (SUBSET run.left) \ {{}} ELSE {run.left}
IsLast(batch) == batch = run.left
BodyChanges(batch) ==
    [p \in batch \cup (IF IsLast(batch) THEN run.deletes ELSE {}) |-> run.collected[p]]
BeforeAnyCommit == run.uploaded = {}

(* The landed body: the next one claims its commit; the last one is         *)
(* recorded by a copy, laid over its base by a folder.                      *)
AfterLanding(batch, commit) ==
    [run EXCEPT
       !.at = IF copyKind = "copy" THEN "record"
              ELSE IF IsLast(batch) THEN "lay" ELSE "send",
       !.left = @ \ batch, !.uploaded = @ \cup batch,
       !.claims = commit, !.landed = commit]

Lands(batch) ==
    /\ PassesHeadCheck(run.claims, HeadCommit)
    /\ versions' = Applied(BodyChanges(batch))
    /\ Len(versions') <= MaxVersions

SendAccepted ==
    /\ run.at = "send"
    /\ \E batch \in Batches :
         /\ Lands(batch)
         /\ run' = AfterLanding(batch, Len(versions'))
    /\ UNCHANGED <<check, copyVars>>

(* The answer did not arrive: the body may have landed.                     *)
SendUnanswered ==
    /\ run.at = "send"
    /\ \E batch \in Batches : Lands(batch)
    /\ Ends
    /\ UNCHANGED copyVars

(* Every other refusal, and a file that moved under its collection.         *)
SendRefused ==
    /\ run.at = "send"
    /\ Ends
    /\ UNCHANGED <<versions, copyVars>>

(* The edge refuses the one body: the chunker takes the same entries once.  *)
SendTooLarge ==
    /\ run.at = "send"
    /\ ~run.chunked /\ run.left # {}
    /\ run' = [run EXCEPT !.chunked = TRUE]
    /\ UNCHANGED <<versions, check, copyVars>>

(* MISSING_BLOBS before any commit: the path named by its hash alone is     *)
(* sent once more with its content.                                         *)
SendMissesBlobs ==
    /\ run.at = "send"
    /\ run.hashOnly # {} /\ ~run.resent /\ BeforeAnyCommit
    /\ PassesHeadCheck(run.claims, HeadCommit)
    /\ run' = [run EXCEPT !.left = @ \cup run.hashOnly, !.hashOnly = {}, !.resent = TRUE]
    /\ UNCHANGED <<versions, check, copyVars>>

MaySendAgain == copyKind = "folder" /\ ~run.force /\ run.sends < SendBound

(* A conflict naming the head: an unforced folder run that claimed a parent *)
(* asks its one check, on the parent it first claimed, and collects again.  *)
SendConflicts ==
    /\ run.at = "send"
    /\ ~PassesHeadCheck(run.claims, HeadCommit)
    /\ IF MaySendAgain
       THEN /\ run' = [run EXCEPT !.at = "check", !.claims = HeadCommit]
            /\ check' = IF check = NoCheck THEN CheckFrom(run.first, 0, FALSE)
                        ELSE AskedAgain
       ELSE Ends
    /\ UNCHANGED <<versions, copyVars>>

CheckRuns == run.at = "check" /\ CheckStep /\ UNCHANGED <<copyVars, run>>

(* Mutant: sent again at the named head without waiting for the check.      *)
MutSendAgain ==
    /\ run.at = "check"
    /\ run' = [run EXCEPT !.at = "again", !.parent = run.claims]
    /\ UNCHANGED <<versions, check, copyVars>>

(* Sent again at the named head, over the reference the run began with.     *)
SendAgain ==
    /\ run.at = "check"
    /\ check.at = "unmoved"
    /\ run' = [run EXCEPT !.at = "again", !.parent = run.claims]
    /\ UNCHANGED <<versions, check, copyVars>>

CollectAgain ==
    /\ run.at = "again"
    /\ run' = [run EXCEPT !.at = "plan", !.collected = Only(disk, Scope \ Ignored)]
    /\ UNCHANGED <<versions, check, copyVars>>

GiveUp ==
    /\ run.at = "check"
    /\ check.at \in {"moved", "refused"}
    /\ Ends
    /\ UNCHANGED <<versions, copyVars>>

-----------------------------------------------------------------------------
(* The local record (`merged_record`, `Manifest::save`).                    *)

(* Mutant: every record write built from the published set alone (u255).    *)
MutMergedRecord == LaidOver(EmptyTree, [p \in run.uploaded |-> run.collected[p]])

(* What was published, laid over the record as it stood when the run began; *)
(* a batch before the last takes no deletion out.                           *)
MergedRecord ==
    IF run.left # {}
    THEN LaidOver(run.recordBase, [p \in run.uploaded |-> run.collected[p]])
    ELSE LaidOver(Without(run.recordBase, run.deletes),
                  [p \in FilesOf(run.collected) |-> run.collected[p]])

SaveRecord ==
    /\ run.at = "record"
    /\ \/ record' = [commit |-> run.landed, files |-> MergedRecord,
                     excluded |-> run.excluded,
                     exact |-> ~run.force /\ run.parent # NoParent]
       \/ UNCHANGED record
    /\ run' = [run EXCEPT !.at = IF run.left # {} THEN "send" ELSE "lay"]
    /\ UNCHANGED <<versions, check, copyKind, disk, base, outer, outerLater, review, moves, runs>>

-----------------------------------------------------------------------------
(* The publication laid over the base, under the copy's lock.               *)

(* Mutant: the deletions are left in the base the publication is laid over. *)
MutLaidPublication(files) ==
    LaidOver(files, [p \in FilesOf(run.collected) |-> run.collected[p]])

LaidPublication(files) ==
    LaidOver(Without(files, run.deletes),
             [p \in FilesOf(run.collected) |-> run.collected[p]])

(* `lay_publication_over_base`: where the base still names the parent sent. *)
LayCopy ==
    /\ run.at = "lay" /\ copyKind = "copy"
    /\ IF base.commit # 0 /\ base.commit = run.first
       THEN \/ base' = [commit |-> run.landed, files |-> LaidPublication(base.files)]
            \/ UNCHANGED base
       ELSE UNCHANGED base
    /\ IF run.force THEN run' = [run EXCEPT !.at = "adopt"] /\ UNCHANGED check ELSE Ends
    /\ UNCHANGED <<versions, copyKind, disk, outer, outerLater, review, record, moves, runs>>

(* `adopt_forced_publication`: a forced run claimed no parent, so its base  *)
(* advances only where the folder holds exactly the tree of its commit.     *)
AdoptableTree ==
    LET walked == Only(disk, Paths \ Ignored)
        tree == TreeAt(run.landed)
        excluded == {p \in FilesOf(tree) : walked[p] = Absent /\ disk[p] # Absent}
    IN ~review /\ base.commit # 0 /\ Without(tree, excluded) = walked
AdoptForced ==
    /\ run.at = "adopt"
    /\ \/ /\ AdoptableTree
          /\ base' = [commit |-> run.landed, files |-> TreeAt(run.landed)]
       \/ UNCHANGED base
    /\ Ends
    /\ UNCHANGED <<versions, copyKind, disk, outer, outerLater, review, record, moves, runs>>

(* `lay_folder_publication`: over the base the run stood on, where it names *)
(* the parent first claimed.                                                *)
LayFolder ==
    /\ run.at = "lay" /\ copyKind = "folder"
    /\ \/ /\ run.first # NoParent /\ run.based.commit = run.first
          /\ base' = [commit |-> run.landed, files |-> LaidPublication(run.based.files)]
          /\ outerLater' = FALSE
          /\ run' = [run EXCEPT !.at = "enclosing"]
          /\ UNCHANGED check
       \/ Ends /\ UNCHANGED <<base, outerLater>>
    /\ UNCHANGED <<versions, copyKind, disk, outer, review, record, moves, runs>>

(* Mutant: the enclosing copy advances from any commit.                     *)
MutOuterLaid(parent, landed) ==
    IF outer.commit = 0 THEN outer
    ELSE [commit |-> landed,
          files |-> LaidOver(outer.files, [p \in Folder |-> base.files[p]])]

(* `lay_over_enclosing`: the folder's paths as its base records them, the   *)
(* enclosing copy's commit its own but where it is the parent `landed` was  *)
(* published over; its recorded time kept.                                  *)
OuterLaid(parent, landed) ==
    IF outer.commit = 0 THEN outer
    ELSE [commit |-> IF parent # NoParent /\ outer.commit = parent
                     THEN landed ELSE outer.commit,
          files |-> LaidOver(outer.files, [p \in Folder |-> base.files[p]])]

LayOverEnclosing ==
    /\ run.at = "enclosing"
    /\ outer' = OuterLaid(run.parent, run.landed)
    /\ Ends
    /\ UNCHANGED <<versions, copyKind, disk, base, outerLater, review, record, moves, runs>>

-----------------------------------------------------------------------------
(* The surroundings.                                                        *)

Moves == moves < MaxMoves /\ moves' = moves + 1

UserEdits ==
    /\ Moves
    /\ \E write \in UserWrites :
         LET files == LaidOver(disk, write) IN files # disk /\ disk' = files
    /\ UNCHANGED <<versions, check, copyKind, base, outer, outerLater, review, record, run, runs>>

Publishes == OtherCommits /\ UNCHANGED <<check, copyVars, run>>

(* Another run finds the folder holding the head and records it.            *)
HoldsHead(within) ==
    HeadCommit # 0 /\ Only(disk, within \ Ignored) = Only(HeadTree, within \ Ignored)
OtherRunConverges ==
    /\ Moves
    /\ HoldsHead(Covered)
    /\ base' = [commit |-> HeadCommit, files |-> Only(HeadTree, Covered)]
    /\ outerLater' = FALSE
    /\ UNCHANGED <<versions, check, copyKind, disk, outer, review, record, run, runs>>
EnclosingConverges ==
    /\ Moves
    /\ copyKind = "folder"
    /\ outer.commit # 0
    /\ HoldsHead(Folder)
    /\ outer' = [commit |-> HeadCommit, files |-> HeadTree]
    /\ outerLater' = TRUE
    /\ UNCHANGED <<versions, check, copyKind, disk, base, review, record, run, runs>>
Reviews ==
    /\ Moves
    /\ review' = ~review
    /\ UNCHANGED <<versions, check, copyKind, disk, base, outer, outerLater, record, run, runs>>

-----------------------------------------------------------------------------
PushInit ==
    /\ copyKind \in {"copy", "folder"}
    /\ \E c \in InitialContents :
         LET tree == [p \in Paths |-> c]
         IN /\ versions \in {<<>>, <<tree>>}
            /\ \E edited \in EditedFirst : disk = LaidOver(Only(tree, Covered), edited)
            /\ base \in {NoBase} \cup
                  {[commit |-> n, files |-> Only(tree, Covered)] : n \in 1 .. HeadCommit}
            /\ outer \in {NoBase} \cup
                  {[commit |-> n, files |-> tree] :
                      n \in IF copyKind = "copy" THEN {} ELSE 1 .. HeadCommit}
    /\ outerLater = FALSE
    /\ review = FALSE
    /\ check = NoCheck
    /\ run = IdleRun
    /\ record = NoRecord
    /\ moves = 0
    /\ runs = 0

PushNext ==
    \/ Begin \/ ReadHead \/ Collect \/ Plan
    \/ SendAccepted \/ SendUnanswered \/ SendRefused \/ SendTooLarge
    \/ SendMissesBlobs \/ SendConflicts
    \/ CheckRuns \/ SendAgain \/ CollectAgain \/ GiveUp
    \/ SaveRecord \/ LayCopy \/ AdoptForced \/ LayFolder \/ LayOverEnclosing

Surroundings ==
    \/ UserEdits \/ Publishes \/ OtherRunConverges \/ EnclosingConverges \/ Reviews

PushSpec == PushInit /\ [][PushNext \/ Surroundings]_pushVars

-----------------------------------------------------------------------------
(* Where another run of the enclosing copy records a later head between a   *)
(* folder's record of its base and the laying of it over that copy, the     *)
(* folder's older files stand under the later commit and its later time,    *)
(* and the next run of the folder stands on them (`lay_over_enclosing`,     *)
(* `folder_base`).  What a run works out from a base is said where no copy  *)
(* enclosing the folder records one, and of the folder's first run.         *)
FirstOrAlone == outer.commit = 0 \/ runs <= 1

(* A body that claimed a parent replaces or deletes nothing the run did not *)
(* compare with: what the head held at each path it changes is what the     *)
(* reference set held there (smart.rs 1327 to 1400), also after the folder  *)
(* was checked and the body sent again at a head the run never read         *)
(* (commands/push.rs 520 to 555).                                           *)
NoBlindOverwrite ==
    [][LET changed == {p \in Paths : HeadTree'[p] # HeadTree[p]}
       IN (FirstOrAlone /\ versions' # versions /\ run' # run /\ run.first # NoParent)
            => \A p \in changed : HeadTree[p] = run.reference[p]
                                 \/ p \in run.uploaded]_pushVars

(* The deletions an unforced run of a copy plans are of files of its scope  *)
(* that do not stand on disk (smart.rs 1072 to 1086, 1237 to 1243): never   *)
(* a file an exclusion or the size limit keeps out of the walk.             *)
PlansDeletionsOfGone(kinds) ==
    (run'.at = "send" /\ run.at = "plan" /\ copyKind \in kinds)
      => \A p \in run'.deletes : disk[p] = Absent /\ p \in Scope
DeletesOnlyGone == [][PlansDeletionsOfGone({"copy"})]_pushVars
FolderDeletesOnlyGone == [][PlansDeletionsOfGone({"folder"})]_pushVars

(* A publication takes from the head only what it compared with, and asks   *)
(* for the deletion only of what is gone.                                   *)
TakesOnlyWhatItSaw == NoBlindOverwrite /\ DeletesOnlyGone

(* Whatever lays a publication over a base - the copy's own, a folder's     *)
(* after a resend, a forced one adopted, another run's convergence - the    *)
(* base names a commit and exactly the files that commit holds              *)
(* (commands/push.rs 590 to 665, converge.rs 1804 to 1836).                 *)
BaseAsCommitted ==
    base.commit # 0 /\ FirstOrAlone => base.files = Only(TreeAt(base.commit), Covered)

(* A folder's publication laid over the copy enclosing it keeps that copy's *)
(* base true outside the folder: its commit advances to the landed one only *)
(* where nothing outside the folder came in between (converge.rs 3011 to    *)
(* 3068).                                                                   *)
OuterAsCommitted ==
    outer.commit # 0 =>
       \A p \in Paths \ Folder : outer.files[p] = TreeAt(outer.commit)[p]

(* The local record a run that claimed a parent writes, after any batch,    *)
(* names every file its commit holds, but those an exclusion keeps out, at  *)
(* the content it holds (smart.rs 550 to 563, 950 to 975, 1470 to 1485).    *)
RecordAsCommitted ==
    record.exact =>
       \A p \in Paths :
          \/ record.files[p] = TreeAt(record.commit)[p]
          \/ p \in record.excluded /\ record.files[p] = Absent

(* What a publication leaves on disk about commits: push.rs 590 to 665,     *)
(* converge.rs 3011 to 3068, smart.rs 950 to 975.                           *)
AsCommitted == BaseAsCommitted /\ OuterAsCommitted /\ RecordAsCommitted
=============================================================================
