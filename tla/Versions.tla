------------------------------ MODULE Versions ------------------------------
(***************************************************************************)
(* The repository on the server, as the publications of src/push/smart.rs, *)
(* src/commands/push.rs and src/write/mod.rs rely on it: a line of         *)
(* versions, each a tree; a publication applies its changes to the head    *)
(* and is refused where it claims a parent the head is not.                *)
(* Commit n is version n; 0 stands for no commit at all.                   *)
(***************************************************************************)
EXTENDS Naturals, Sequences, FiniteSets

CONSTANTS
    Paths,        \* the paths of the repository
    Folder,       \* those at or under the folder a scoped run stands in
    Contents,     \* what a file may hold
    Absent,       \* where a tree holds no file
    OtherWrites,  \* the changes other writers make, each a partial tree
    MaxVersions   \* bound: how many versions the repository takes

ASSUME PathsAssumption == Folder \subseteq Paths
ASSUME AbsentAssumption == Absent \notin Contents
ASSUME VersionsAssumption == MaxVersions \in Nat
ASSUME WritesAssumption ==
    \A write \in OtherWrites :
       \A p \in DOMAIN write \cap Paths : write[p] \in Contents \cup {Absent}

VARIABLE versions   \* the trees of the repository, oldest first

Trees == [Paths -> Contents \cup {Absent}]
EmptyTree == [p \in Paths |-> Absent]
FilesOf(tree) == {p \in Paths : tree[p] # Absent}

HeadCommit == Len(versions)
TreeAt(commit) == IF commit = 0 THEN EmptyTree ELSE versions[commit]
HeadTree == TreeAt(HeadCommit)

(* Only the paths of `keep`, or all but those of `drop`.                    *)
Only(tree, keep) == [p \in Paths |-> IF p \in keep THEN tree[p] ELSE Absent]
Without(tree, drop) == Only(tree, Paths \ drop)

(* `laid`, a partial tree, written over `tree`.                             *)
LaidOver(tree, laid) ==
    [p \in Paths |-> IF p \in DOMAIN laid THEN laid[p] ELSE tree[p]]

-----------------------------------------------------------------------------
(* The version list, narrowed to the folder or whole.                       *)

ChangedBy(n) == {p \in Paths : TreeAt(n)[p] # TreeAt(n - 1)[p]}
ChangesFolder(n) == ChangedBy(n) \cap Folder # {}
NewestOf(numbers) ==
    IF numbers = {} THEN 0 ELSE CHOOSE n \in numbers : \A o \in numbers : o <= n

(* The newest version that changed the folder among the `scan` newest.      *)
NewestChange(scan) ==
    NewestOf({n \in 1 .. HeadCommit : HeadCommit - n < scan /\ ChangesFolder(n)})

(* The head a shared folder's own identity lists: its newest version that   *)
(* changed the folder, however far back.                                    *)
IdentityHead == NewestChange(HeadCommit + 1)

-----------------------------------------------------------------------------
(* What the push endpoint does with a body.                                 *)

(* The body's head check: a body naming no parent passes unchecked.         *)
NoParent == 0
PassesHeadCheck(parent, head) == parent = NoParent \/ parent = head

(* The line of versions after a body's changes: a body that changes         *)
(* nothing is answered with the standing head.                              *)
Applied(changes) ==
    LET tree == LaidOver(HeadTree, changes)
    IN IF tree = HeadTree THEN versions ELSE Append(versions, tree)

(* Another writer's publication, at the head as it finds it.               *)
OtherCommits ==
    /\ HeadCommit < MaxVersions
    /\ \E write \in OtherWrites :
           LET tree == LaidOver(HeadTree, write)
           IN tree # HeadTree /\ versions' = Append(versions, tree)
=============================================================================
