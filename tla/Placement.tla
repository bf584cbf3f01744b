----------------------------- MODULE Placement ------------------------------
(***************************************************************************)
(* `syns place` (src/commands/place.rs): one version of the holder adding a *)
(* folder its head does not hold, the same files written to disk, and the  *)
(* base of every copy over them laid at that version, while others publish *)
(* and other runs converge the same copies.                                *)
(*                                                                         *)
(* The run stands in a checkout of the holder, the enclosing folder        *)
(* (Folder) possibly a copy of its own, or in that folder alone, bound to  *)
(* its identity.  The template and the disk are read before anything is    *)
(* sent and refuse there; what they hold is fixed.                         *)
(***************************************************************************)
EXTENDS FolderCheck

CONSTANTS
    PlacedPaths,   \* the files of the new folder
    PlacedIdentity, \* the identity file among them
    AtPlace,       \* the paths at, above or under the new folder
    Template       \* what a placed file holds

ASSUME PlacementAssumption ==
    /\ PlacedIdentity \in PlacedPaths
    /\ PlacedPaths \subseteq AtPlace /\ AtPlace \subseteq Folder /\ Template \in Contents

VARIABLES place, bases
placementVars == <<versions, check, place, bases>>

Copies == {"checkout", "folder", "placed"}
Covered(copy) == CASE copy = "checkout" -> Paths [] copy = "folder" -> Folder [] OTHER -> AtPlace
Placed == [p \in PlacedPaths |-> Template]

(* A copy's base: the commit it stands at and the hash of each file, and    *)
(* whether a resolution or an outbox stands beside it.                      *)
NoBase == [commit |-> 0, files |-> EmptyTree, held |-> FALSE]
BaseAt(copy, commit) == [commit |-> commit, files |-> Only(TreeAt(commit), Covered(copy)), held |-> FALSE]

(* The head the addressed repository names: an identity lists only the      *)
(* versions that changed its folder.                                        *)
AddressedHead == IF place.identity THEN IdentityHead ELSE HeadCommit

PlacementStart(identity) ==
    /\ versions = <<>> /\ check = NoCheck
    /\ bases = [copy \in Copies |-> NoBase]
    /\ place = [at |-> "idle", identity |-> identity, head |-> 0, stood |-> 0, claims |-> 0,
                landed |-> 0, written |-> {}, copy |-> "none", own |-> 0]
PlacementInit == \E identity \in BOOLEAN : PlacementStart(identity)

Ends == [place EXCEPT !.at = "over"]
EmptyAt(commit) == \A p \in AtPlace : TreeAt(commit)[p] = Absent

(* `held_at`.  Mutant: only the files placed are looked for.                *)
MutHeldAt(commit) == \E p \in PlacedPaths : TreeAt(commit)[p] # Absent
HeldAt(commit) == ~EmptyAt(commit)

(* Steps 8 and 9: the head, and nothing it holds at or above the folder.    *)
ReadHead ==
    /\ place.at = "idle"
    /\ place' = IF HeldAt(AddressedHead) THEN Ends
                ELSE [place EXCEPT !.at = "send", !.head = AddressedHead,
                        !.stood = AddressedHead, !.claims = AddressedHead]
    /\ UNCHANGED <<versions, check, bases>>

(* Steps 15 and 16: the body lands at the parent it claims; the answer may  *)
(* be lost, and so may the request.                                         *)
BodyLands ==
    /\ place.at \in {"send", "again"} /\ HeadCommit < MaxVersions
    /\ PassesHeadCheck(place.claims, HeadCommit)
    /\ versions' = Append(versions, LaidOver(HeadTree, Placed))
    /\ \E answered \in BOOLEAN :
         place' = [place EXCEPT !.at = IF answered THEN "write" ELSE "over", !.landed = HeadCommit + 1]
    /\ UNCHANGED <<check, bases>>
SendRefused ==
    /\ place.at \in {"send", "again"} /\ place' = Ends
    /\ UNCHANGED <<versions, check, bases>>

(* A refusal names the head: read again there, and the folder checked since *)
(* the head first read where an identity's base may advance past it.        *)
HeadNamed ==
    /\ place.at = "send" /\ HeadCommit # place.claims
    /\ IF HeldAt(HeadCommit) THEN place' = Ends /\ UNCHANGED check
       ELSE IF place.identity /\ place.head # 0
            THEN /\ place' = [place EXCEPT !.at = "check", !.claims = HeadCommit]
                 /\ check' = CheckFrom(place.head, 0, TRUE)
            ELSE place' = [place EXCEPT !.at = "again", !.claims = HeadCommit] /\ UNCHANGED check
    /\ UNCHANGED <<versions, bases>>

FolderChecked ==
    /\ place.at = "check"
    /\ \/ CheckStep /\ UNCHANGED <<place, bases>>
       \/ /\ check.at \in {"moved", "unmoved", "refused"}
          /\ place' = [place EXCEPT !.at = "again", !.stood = IF check.at = "unmoved" THEN @ ELSE 0]
          /\ check' = NoCheck /\ UNCHANGED <<versions, bases>>

(* Step 17: the files written one by one, the identity file last of them;   *)
(* the first failure ends the run with those before it standing.            *)
NextCopy(copy) ==
    IF copy = "none" /\ ~place.identity THEN "checkout" ELSE IF copy \in {"none", "checkout"} THEN "folder" ELSE "placed"
WriteFile(p) ==
    /\ place.at = "write" /\ p \in PlacedPaths \ place.written
    /\ p = PlacedIdentity => PlacedPaths \ place.written = {p}
    /\ place' = [place EXCEPT !.written = @ \cup {p}]
    /\ UNCHANGED <<versions, check, bases>>
WriteFails ==
    /\ place.at = "write" /\ PlacedPaths # place.written /\ place' = Ends
    /\ UNCHANGED <<versions, check, bases>>
AllWritten ==
    /\ place.at = "write" /\ PlacedPaths = place.written
    /\ place' = [place EXCEPT !.at = "base", !.copy = NextCopy("none")]
    /\ UNCHANGED <<versions, check, bases>>

-----------------------------------------------------------------------------
(* Step 18, `record_bases`: one copy after another.                         *)

(* `folder_unmoved_until`: the landed version is the newest change of the   *)
(* folder and the change before it is no later than the base's own commit.  *)
(* Mutant: the change before is not compared.                               *)
MutUnmovedUntil(own, landed) ==
    NewestChange(ScanBound) = landed
UnmovedUntil(own, landed) ==
    LET before == NewestOf({n \in 1 .. landed - 1 : HeadCommit - n < ScanBound /\ ChangesFolder(n)})
    IN NewestChange(ScanBound) = landed /\ before # 0 /\ before <= own

(* The copy's commit is read without its lock, and the history then asked   *)
(* where it is not the parent the version claimed: what the base may        *)
(* advance from.                                                            *)
AdvanceFrom ==
    /\ place.at = "base" /\ place.copy # "placed"
    /\ \E shown \in BOOLEAN :
         LET own == bases[place.copy].commit
         IN place' = [place EXCEPT !.at = "lay",
                        !.own = IF place.identity THEN place.stood
                                ELSE IF place.copy = "folder" /\ own # 0 /\ own # place.claims
                                        /\ shown /\ UnmovedUntil(own, place.landed)
                                     THEN own ELSE place.claims]
    /\ UNCHANGED <<versions, check, bases>>

(* `lay_files`, under the lock: nothing over a copy that records no base or *)
(* holds a resolution or an outbox.                                         *)
(* Mutant: the commit advances whatever the copy stands at.                 *)
MutLaid(standing) == [standing EXCEPT !.files = LaidOver(@, Placed), !.commit = place.landed]
Laid(standing) ==
    [standing EXCEPT !.files = LaidOver(@, Placed),
                     !.commit = IF @ = place.own THEN place.landed ELSE @]
Lay ==
    /\ place.at = "lay"
    /\ LET standing == bases[place.copy]
       IN bases' = IF standing.commit = 0 \/ standing.held THEN bases
                   ELSE [bases EXCEPT ![place.copy] = Laid(standing)]
    /\ place' = [place EXCEPT !.at = "base", !.copy = NextCopy(@), !.own = 0]
    /\ UNCHANGED <<versions, check>>

(* The new folder's own base: the landed commit with the files placed, not  *)
(* its tree, recorded whatever stands there.                                *)
RecordOwn ==
    /\ place.at = "base" /\ place.copy = "placed"
    /\ bases' = [bases EXCEPT !["placed"] = [commit |-> place.landed, files |-> LaidOver(EmptyTree, Placed),
                                            held |-> bases["placed"].held]]
    /\ place' = Ends
    /\ UNCHANGED <<versions, check>>

-----------------------------------------------------------------------------
(* Other writers publish, and other runs converge a copy or leave one with  *)
(* work of its own, the placed folder being one where its identity file     *)
(* stands; a run stops anywhere.                                            *)

OthersPublish == OtherCommits /\ UNCHANGED <<check, place, bases>>
OtherRun(copy) ==
    /\ HeadCommit # 0
    /\ copy = "placed" => PlacedIdentity \in place.written
    /\ copy = "checkout" => ~place.identity
    /\ bases' = [bases EXCEPT ![copy] =
                   IF @.commit # 0 /\ ~@.held /\ @.commit = AddressedHead THEN [@ EXCEPT !.held = TRUE]
                   ELSE BaseAt(copy, AddressedHead)]
    /\ UNCHANGED <<versions, check, place>>
Stop ==
    /\ place.at \notin {"idle", "over"} /\ place' = Ends
    /\ check' = NoCheck /\ UNCHANGED <<versions, bases>>

PlacementNext ==
    \/ ReadHead \/ BodyLands \/ SendRefused \/ HeadNamed \/ FolderChecked
    \/ WriteFails \/ AllWritten \/ AdvanceFrom \/ Lay \/ RecordOwn
    \/ \E p \in PlacedPaths : WriteFile(p)
    \/ OthersPublish \/ Stop \/ \E copy \in Copies : OtherRun(copy)
PlacementSpec == PlacementInit /\ [][PlacementNext]_placementVars

-----------------------------------------------------------------------------
(* A base names the files of its commit, or those with the placed ones laid *)
(* over them: a copy standing at another commit than the placement's keeps  *)
(* its commit (working_copy.rs, lay_files).  So no commit is advanced past  *)
(* a change of another writer, and the next run still takes that change in. *)
(* Only the new folder's own base may leave out files of its commit: those  *)
(* another writer created under the folder before a body claiming no parent *)
(* landed.  It never names a file the commit lacks, nor misnames one.       *)
PlacedAlone(copy, base) ==
    /\ copy = "placed" /\ place.claims = NoParent /\ base.commit = place.landed
    /\ base.files = Only(TreeAt(place.landed), PlacedPaths)
LaidBaseIsCommitted ==
    \A copy \in Copies :
      LET base == bases[copy] true == BaseAt(copy, base.commit).files
      IN base.commit # 0 =>
           \/ base.files = true
           \/ base.commit # place.landed /\ base.files = LaidOver(true, Placed)
           \/ PlacedAlone(copy, base)

(* The holder's head gains exactly one version, changing the placed folder  *)
(* alone, over a head that held nothing there; no file is written before    *)
(* it landed, and none lacks while a base is laid or another run has taken  *)
(* the folder in, so that no file of it is taken for deleted (place.rs 343  *)
(* to 348).  A holder without a commit claims no parent, and what another   *)
(* writer creates meanwhile is not compared.                                *)
OnePlacement ==
    /\ place.written # {} => place.landed # 0
    /\ (place.landed # 0 /\ (place.claims # NoParent \/ place.landed = 1)) =>
         ChangedBy(place.landed) = PlacedPaths /\ EmptyAt(place.landed - 1)
    /\ (place.at \in {"base", "lay"} \/ bases["placed"].commit # 0) => place.written = PlacedPaths

(* What a placement leaves, in the holder and in the bases: place.rs,       *)
(* lay_files.                                                               *)
PlacedAsCommitted == LaidBaseIsCommitted /\ OnePlacement
=============================================================================
