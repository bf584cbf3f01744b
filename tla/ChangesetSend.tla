--------------------------- MODULE ChangesetSend ----------------------------
(***************************************************************************)
(* A changeset of `syns write`, `edit`, `rm`, `mv`, `cp`, `commit` or      *)
(* `revert` (src/write/mod.rs): the checkout guarded, the repository read, *)
(* the parent pinned, and one body sent - outside a folder once, at the    *)
(* pinned parent; inside one also at each head a refusal names while no    *)
(* version after the pinned parent changed the folder.                     *)
(***************************************************************************)
EXTENDS SmartPush

CONSTANTS
    Bodies   \* the changesets sent: records of a verb and its paths

ASSUME BodiesAssumption ==
    \A body \in Bodies :
       CASE body.verb = "write" -> body.path \in Paths /\ body.content \in Contents
         [] body.verb = "remove" -> body.path \in Paths
         [] OTHER -> /\ body.verb \in {"move", "copy"}
                     /\ body.from \in Paths /\ body.to \in Paths

VARIABLE set   \* the changeset in hand
setVars == <<set>>

NoSet == [at |-> "idle", inside |-> FALSE, identity |-> FALSE, body |-> [verb |-> "none"],
          checkout |-> FALSE, head |-> 0, pinned |-> 0, numbered |-> FALSE,
          claims |-> 0, sends |-> 0]
SetEnds == set' = NoSet /\ check' = NoCheck
Local == UNCHANGED <<versions, copyVars, run>>

(* The head the addressed repository lists, its own or the identity's.      *)
ListedHead == IF set.identity THEN IdentityHead ELSE HeadCommit

-----------------------------------------------------------------------------
(* What a body does to the tree it lands on.  A move or a copy names its    *)
(* paths alone: the server takes the content from the head.                 *)

Changes(body, tree) ==
    CASE body.verb = "write"  -> [p \in {body.path} |-> body.content]
      [] body.verb = "remove" -> [p \in {body.path} |-> Absent]
      [] body.verb = "move"   -> [p \in {body.from, body.to} |->
                                    IF p = body.to THEN tree[body.from] ELSE Absent]
      [] body.verb = "copy"   -> [p \in {body.to} |-> tree[body.from]]
Touches(body) ==
    IF body.verb \in {"move", "copy"} THEN {body.from, body.to} ELSE {body.path}

(* `member_refusal`: the source is missing, or the destination stands.      *)
MemberRefused(body, tree) ==
    body.verb \in {"move", "copy"} /\ (tree[body.from] = Absent \/ tree[body.to] # Absent)

-----------------------------------------------------------------------------
(* `resolve_write_target`.                                                  *)

(* `agrees_with_base`: the folder's hashes and the recorded base, a path an *)
(* exclusion keeps out dropped from both; a copy recording none is clean    *)
(* only where it holds no file.                                             *)
AgreesWithBase ==
    LET walked == Only(disk, Covered \ Ignored)
        excluded == {p \in Covered : walked[p] = Absent /\ disk[p] # Absent}
        standing == IF copyKind = "folder" THEN FolderBase ELSE base
    IN walked = Without(standing.files, excluded)

(* `bind_write_target` and the guard: a checkout the run stands in holding  *)
(* a resolution or unpublished work ends it; a run standing in none is      *)
(* unguarded.                                                               *)
GuardWrite ==
    /\ set.at = "idle"
    /\ runs < MaxRuns /\ runs' = runs + 1
    /\ \/ UNCHANGED set
       \/ \E body \in Bodies, inside, identity, checkout \in BOOLEAN :
            /\ inside <=> copyKind = "folder"
            /\ identity => inside
            /\ inside => checkout /\ Touches(body) \subseteq Folder
            /\ checkout => ~review /\ AgreesWithBase
            /\ set' = [NoSet EXCEPT !.at = "repository", !.inside = inside,
                                    !.identity = identity, !.body = body,
                                    !.checkout = checkout]
    /\ UNCHANGED <<versions, check, copyKind, disk, base, outer, outerLater,
                   review, record, moves, run>>

(* The repository read, and the head it names.                              *)
ReadRepository ==
    /\ set.at = "repository"
    /\ \/ set' = [set EXCEPT !.at = "parent", !.head = ListedHead] /\ UNCHANGED check
       \/ SetEnds
    /\ Local

(* `resolve_parent`: a full hash stands unread, any other spelling is       *)
(* resolved into a version.                                                 *)
ResolveParent ==
    /\ set.at = "parent"
    /\ \/ \E pinned \in 1 .. HeadCommit, numbered \in BOOLEAN :
            set' = [set EXCEPT !.at = "first", !.pinned = pinned, !.numbered = numbered]
          /\ UNCHANGED check
       \/ SetEnds
    /\ Local

-----------------------------------------------------------------------------
(* `publish_changeset` and `send_inside_folder`.                            *)

(* The first send claims the pinned parent, but inside a folder it is kept  *)
(* back where the repository read already named another head.               *)
SendAt(parent) == [set EXCEPT !.at = "send", !.claims = parent, !.sends = @ + 1]
(* Mutant: the check begins at the head the refusal names, not the parent.   *)
MutAskAt(named) ==
    /\ set' = [set EXCEPT !.at = "named", !.claims = named]
    /\ check' = CheckFrom(named, 0, set.identity)

AskAt(named) ==
    /\ set' = [set EXCEPT !.at = "named", !.claims = named]
    /\ check' = CheckFrom(set.pinned, IF set.numbered THEN set.pinned ELSE 0, set.identity)

FirstSend ==
    /\ set.at = "first"
    /\ IF set.inside /\ set.head # 0 /\ set.head # set.pinned
       THEN AskAt(set.head)
       ELSE set' = SendAt(set.pinned) /\ UNCHANGED check
    /\ Local

(* The body lands at the head it claims; the answer, where one arrives,     *)
(* ends the run, and so does every refusal that names no head.              *)
SetLands ==
    /\ set.at = "send"
    /\ set.claims = ListedHead
    /\ ~MemberRefused(set.body, HeadTree)
    /\ versions' = Applied(Changes(set.body, HeadTree))
    /\ HeadCommit' <= MaxVersions
    /\ SetEnds
    /\ UNCHANGED <<copyVars, run>>

SetRefused == set.at = "send" /\ SetEnds /\ Local

(* `fold_conflict` outside a folder; inside one the named head is taken up, *)
(* within the bound on sends.                                               *)
SetConflicts ==
    /\ set.at = "send"
    /\ set.claims # ListedHead
    /\ IF set.inside /\ check = NoCheck
       THEN AskAt(ListedHead)
       ELSE IF set.inside /\ set.sends < SendBound
       THEN set' = [set EXCEPT !.at = "named", !.claims = ListedHead] /\ check' = AskedAgain
       ELSE SetEnds
    /\ Local

SetChecks == set.at = "named" /\ CheckStep /\ UNCHANGED <<copyVars, run, set>>

(* Mutant: the named head is claimed without waiting for the check.         *)
MutSendNamed == set.at = "named" /\ set' = SendAt(set.claims) /\ UNCHANGED check /\ Local
SendNamed ==
    /\ set.at = "named"
    /\ check.at = "unmoved"
    /\ set' = SendAt(set.claims)
    /\ UNCHANGED check
    /\ Local

SetGivesUp ==
    /\ set.at = "named"
    /\ check.at \in {"moved", "refused"}
    /\ SetEnds
    /\ Local

-----------------------------------------------------------------------------
SetInit == PushInit /\ set = NoSet
SetNext ==
    \/ GuardWrite \/ ReadRepository \/ ResolveParent
    \/ FirstSend \/ SetLands \/ SetRefused \/ SetConflicts
    \/ SetChecks \/ SendNamed \/ SetGivesUp

ChangesetNext == SetNext \/ (Surroundings /\ UNCHANGED set)
ChangesetSpec == SetInit /\ [][ChangesetNext]_<<pushVars, set>>

(* A changeset changes only paths that still hold, at the head it lands on, *)
(* what its pinned parent held there - the state its writer read, edited or *)
(* named - whatever the history did between the repository read, the        *)
(* parent's resolution, the check's pages and each send (write/mod.rs 1427  *)
(* to 1505).                                                                *)
LandsOnPinnedState ==
    [][(versions' # versions /\ set' # set)
         => \A p \in Touches(set.body) : HeadTree[p] = TreeAt(set.pinned)[p]]_<<pushVars, set>>

(* The pinned changeset as the abstract change it implements: what it lays  *)
(* is worked out on the pinned version, though the server works it out on   *)
(* the head the body lands on.                                              *)
NoChange == [pinned |-> 0, lays |-> <<>>]
PendingChange ==
    IF set.at \in {"first", "send", "named"}
    THEN [pinned |-> set.pinned, lays |-> Changes(set.body, TreeAt(set.pinned))]
    ELSE NoChange
Guarded == INSTANCE GuardedChange WITH pending <- PendingChange, None <- NoChange

(* Through its repository read, checks and sends a changeset is one         *)
(* optimistic change: it ends dropped, or landed with exactly what it meant *)
(* on the version it was pinned to, on a head that still held that at the   *)
(* paths it changes (write/mod.rs 1369 to 1653).                            *)
IsOneGuardedChange == Guarded!GuardedSpec
=============================================================================
