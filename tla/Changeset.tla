----------------------------- MODULE Changeset ------------------------------
(***************************************************************************)
(* The changeset document of `syns commit`, `mv`, `cp`, `rm`, `write` and  *)
(* `edit` (src/commands/commit.rs, commit_edits.rs, src/write/mod.rs): its *)
(* members, deletions, files and edits, the overlaps that refuse it before *)
(* any request, and where each edit reads and lands.                       *)
(*                                                                         *)
(* A path is the sequence of its names; a tree maps the paths of its files *)
(* to their content.  What the engine makes of an admitted body is         *)
(* external: deletions first, then every move and copy as the parent holds *)
(* its source, then the files, as the admitted overlaps rely on.           *)
(***************************************************************************)
EXTENDS Naturals, Sequences, FiniteSets, SequencesExt, FiniteSetsExt

CONSTANTS
    DocPaths,    \* the paths a document may name
    ParentTrees, \* the trees its parent may hold
    MaxEntries   \* bound: entries of a document

\* A path is the sequence of its names, and a tree a function.
ASSUME DocAssumption ==
    /\ \A p \in DocPaths \cup UNION {DOMAIN tree : tree \in ParentTrees} : p \in Seq(ToSet(p))
    /\ \A tree \in ParentTrees : tree = [p \in DOMAIN tree |-> tree[p]]

VARIABLE doc     \* the document in hand
docVars == <<doc>>

EmptyDoc == [members |-> <<>>, deletions |-> {}, files |-> {}, edits |-> {}]

-----------------------------------------------------------------------------
(* How one path stands to another (`nesting`).                              *)

LiesUnder(path, other) == Len(other) < Len(path) /\ IsPrefix(other, path)
Nests(path, other) == path = other \/ LiesUnder(path, other) \/ LiesUnder(other, path)

(* `refuse_self_overlap`, and each pair of members: their sources and       *)
(* destinations may not meet, but for two copies' sources.                  *)
SelfOverlaps(member) == Nests(member.to, member.from)
BothCopies(m, e) == m.kind = "copy" /\ e.kind = "copy"
(* Mutant: only the destinations of two members are compared.               *)
MutMembersOverlap(m, e) == Nests(m.to, e.to)
MembersOverlap(m, e) ==
    \/ ~BothCopies(m, e) /\ Nests(m.from, e.from)
    \/ Nests(m.from, e.to) \/ Nests(m.to, e.from) \/ Nests(m.to, e.to)

(* A deletion may lie at or above a destination, which it clears, a file at *)
(* or under one, which it writes over what was moved there.                 *)
DeletionOverlaps(deletion, member) ==
    Nests(deletion, member.from) \/ LiesUnder(deletion, member.to)
FileOverlaps(file, member) ==
    Nests(file, member.from) \/ LiesUnder(member.to, file)

(* `lexical_path`: a typed path with its dot segments resolved; a document  *)
(* may spell one path two ways.                                             *)
LexicalPath(typed) == typed.path
TypedPaths == [path : DocPaths, spelled : {"plain", "dotted"}]
FilePaths == {LexicalPath(typed) : typed \in doc.files}
DeletionPaths == {LexicalPath(typed) : typed \in doc.deletions}

(* `refuse_overlaps`, members first, then deletions, then files.            *)
Overlaps ==
    LET members == doc.members
    IN \/ \E i \in DOMAIN members :
            \/ SelfOverlaps(members[i])
            \/ \E j \in 1 .. i - 1 : MembersOverlap(members[i], members[j])
       \/ \E i \in DOMAIN members, d \in DeletionPaths : DeletionOverlaps(d, members[i])
       \/ \E i \in DOMAIN members, f \in FilePaths : FileOverlaps(f, members[i])

-----------------------------------------------------------------------------
(* `plan_edits`: an edit reads at the parent and lands where a move carries *)
(* its path.                                                                *)

(* A path under `from`, counted from `to`.                                  *)
Carried(path, member) == member.to \o SubSeq(path, Len(member.from) + 1, Len(path))

(* Mutant: a move carries an edit of the very path moved, and none under a  *)
(* folder moved.                                                            *)
MutLands(at) ==
    LET carriers == {i \in DOMAIN doc.members :
                        doc.members[i].kind = "move" /\ at = doc.members[i].from}
    IN IF carriers = {} THEN at
       ELSE doc.members[CHOOSE i \in carriers : TRUE].to
Lands(at) ==
    LET carriers == {i \in DOMAIN doc.members :
                        /\ doc.members[i].kind = "move"
                        /\ at = doc.members[i].from \/ LiesUnder(at, doc.members[i].from)}
    IN IF carriers = {} THEN at
       ELSE Carried(at, doc.members[CHOOSE i \in carriers : TRUE])

EditRefused(at) ==
    \/ \E i \in DOMAIN doc.members :
         LET member == doc.members[i]
         IN \/ member.kind = "copy" /\ Nests(at, member.from)
            \/ member.kind = "move" /\ LiesUnder(member.from, at)
            \/ Nests(at, member.to)
    \/ \E d \in DeletionPaths : Nests(at, d)
    \/ at \in FilePaths \/ Lands(at) \in FilePaths

(* `classify_changeset`: a path named twice under `files`, or as a file and *)
(* as a deletion, is refused - each compared as typed.                      *)
NamedTwice == \E typed \in doc.files : typed \in doc.deletions

Admitted == ~Overlaps /\ ~NamedTwice /\ \A at \in doc.edits : ~EditRefused(at)

-----------------------------------------------------------------------------
(* The engine.                                                              *)

Removed(tree, path) ==
    [p \in {q \in DOMAIN tree : q # path /\ ~LiesUnder(q, path)} |-> tree[p]]
WithDeletions(tree) ==
    [p \in {q \in DOMAIN tree : \A d \in DeletionPaths : q # d /\ ~LiesUnder(q, d)}
        |-> tree[p]]
WithFile(tree, path, content) ==
    [p \in DOMAIN tree \cup {path} |-> IF p = path THEN content ELSE tree[p]]

(* One member over `tree`, its source as `parent` holds it.                 *)
Moved(tree, parent, member) ==
    LET sources == {p \in DOMAIN parent : p = member.from \/ LiesUnder(p, member.from)}
        kept == IF member.kind = "move" THEN Removed(tree, member.from) ELSE tree
        landing == {Carried(p, member) : p \in sources}
        back(q) == CHOOSE p \in sources : Carried(p, member) = q
    IN [q \in DOMAIN kept \cup landing |-> IF q \in landing THEN parent[back(q)] ELSE kept[q]]

MembersIn(order, tree, parent) ==
    FoldSeq(LAMBDA i, acc : Moved(acc, parent, doc.members[i]), tree, order)
(* The same, each source read where the members before it left it.          *)
MembersInTurn(order, tree) ==
    FoldSeq(LAMBDA i, acc : Moved(acc, acc, doc.members[i]), tree, order)

AnyOrder == SetToSeqs(DOMAIN doc.members)
InOrder == [i \in DOMAIN doc.members |-> i]

WithFiles(tree) ==
    FoldSet(LAMBDA p, acc : WithFile(acc, p, "file"), tree, FilePaths)
WithEdits(tree, place) ==
    FoldSet(LAMBDA at, acc : WithFile(acc, place[at], "edited"), tree, doc.edits)

(* The parent holds what every member and every edit reads, and its         *)
(* destinations stand free once the deletions are taken out.                *)
AppliesTo(parent) ==
    LET holds(tree, path) == \E p \in DOMAIN tree : Nests(p, path)
        there(path) == \E p \in DOMAIN parent : p = path \/ LiesUnder(p, path)
    IN /\ \A i \in DOMAIN doc.members :
            /\ there(doc.members[i].from)
            /\ ~holds(WithDeletions(parent), doc.members[i].to)
       /\ doc.edits \subseteq DOMAIN parent

-----------------------------------------------------------------------------
DocInit == doc = EmptyDoc

Entries ==
    Len(doc.members) + Cardinality(doc.deletions) + Cardinality(doc.files)
      + Cardinality(doc.edits)

AddMember ==
    \E kind \in {"move", "copy"}, from \in DocPaths, to \in DocPaths :
       doc' = [doc EXCEPT !.members = Append(@, [kind |-> kind, from |-> from, to |-> to])]
AddDeletion == \E typed \in TypedPaths : doc' = [doc EXCEPT !.deletions = @ \cup {typed}]
AddFile == \E typed \in TypedPaths : doc' = [doc EXCEPT !.files = @ \cup {typed}]
AddEdit == \E at \in DocPaths : doc' = [doc EXCEPT !.edits = @ \cup {at}]

(* Only admitted documents are extended: no entry lifts a refusal.          *)
DocNext ==
    /\ Entries < MaxEntries
    /\ \/ AddMember \/ AddDeletion \/ AddFile \/ AddEdit
    /\ Admitted'

DocSpec == DocInit /\ [][DocNext]_docVars

-----------------------------------------------------------------------------
(* The moves and copies of an admitted document mean one thing: applied in  *)
(* any order, each reading its source where the ones before it left it or   *)
(* all reading it at the parent, they leave the same tree (write/mod.rs 345 *)
(* to 425).                                                                 *)
MembersMeanOneTree ==
    doc.members # <<>> /\ Admitted =>
      \A parent \in {t \in ParentTrees : AppliesTo(t)} :
        LET cleared == WithDeletions(parent)
        IN \A order \in AnyOrder :
              /\ MembersInTurn(order, cleared) = MembersIn(InOrder, cleared, parent)
              /\ MembersIn(order, cleared, parent) = MembersIn(InOrder, cleared, parent)

(* An edit of an admitted document lands the text its path held at the      *)
(* parent where the changeset carries that path: the body's whole-file      *)
(* entry after the members leaves the tree that editing first would have    *)
(* (commit_edits.rs 105 to 215).                                            *)
EditsMoveWithTheirFile ==
    doc.edits # {} /\ Admitted =>
      \A parent \in {t \in ParentTrees : AppliesTo(t)} :
        LET body == WithEdits(WithFiles(MembersIn(InOrder, WithDeletions(parent), parent)),
                              [at \in doc.edits |-> Lands(at)])
            edited == WithEdits(parent, [at \in doc.edits |-> at])
        IN body = WithFiles(MembersIn(InOrder, WithDeletions(edited), edited))

(* What an admitted document means, whatever its parent holds: write/mod.rs *)
(* 345 to 425, commit_edits.rs 105 to 215.                                  *)
DocumentMeansOneTree == MembersMeanOneTree /\ EditsMoveWithTheirFile

=============================================================================
