------------------------------ MODULE Listings ------------------------------
(***************************************************************************)
(* `syns ls` and `syns glob` (src/commands/ls.rs, glob.rs) from the closure *)
(* at one commit (src/read/listing.rs, closure.rs): its trees and a view    *)
(* of its root are kept, and a `304` is rendered from the kept trees.       *)
(*                                                                         *)
(* A path is a sequence of names.  A tree's id is what stands beneath it,   *)
(* so that two trees of one id are one, as under its hash.  The server, and *)
(* what it hides from this reader, are external, as is the sweep of kept    *)
(* trees (BlobStore); a damaged tree is removed and read as one not kept.   *)
(* A request's resends are the module BatchReads'.                          *)
(***************************************************************************)
EXTENDS Naturals, Sequences, FiniteSets, SequencesExt

CONSTANTS
    FilesAt,   \* the files and links of each commit
    LinkPaths, \* those of them that are links
    Hideable,  \* the paths the server may hide from this reader
    AskedPaths, \* the paths a listing is asked for
    NoRoot,    \* no view, or one a pull kept: it names no root
    MaxHides   \* bound: changes of what is hidden

(* A path is the sequence of its names, and no file is a folder too.        *)
ASSUME ListingsAssumption ==
    /\ \A path \in AskedPaths \cup UNION {FilesAt[commit] : commit \in DOMAIN FilesAt} :
           path \in Seq(ToSet(path))
    /\ \A commit \in DOMAIN FilesAt :
           /\ IsFiniteSet(FilesAt[commit])
           /\ \A path, other \in FilesAt[commit] : ~IsStrictPrefix(path, other)

VARIABLES
    shelfHides, \* what is hidden, the times that changed, whether it answers v2
    keptTrees,  \* the store: tree ids, and by commit and scope the view
    listing     \* the run

listingVars == <<shelfHides, keptTrees, listing>>

Commits == DOMAIN FilesAt
Below(files, dir) ==
    {SubSeq(path, Len(dir) + 1, Len(path)) : path \in {q \in files : IsStrictPrefix(dir, q)}}
Shown(commit, hidden) == FilesAt[commit] \ hidden
IsFolder(files, dir) == dir = <<>> \/ Below(files, dir) # {}

(* A tree's lines: its entries, each a file, a link or a tree with its id.  *)
(* A link is told from a file by where it stands.                           *)
LinesOf(id, dir) ==
    {[name |-> path[1], kind |-> IF Len(path) > 1 THEN "tree"
                                 ELSE IF dir \o path \in LinkPaths THEN "link" ELSE "file",
      id |-> IF Len(path) > 1 THEN Below(id, <<path[1]>>) ELSE {}] : path \in id}
(* `tree_id`: the id the lines make.                                        *)
TreeId(lines) ==
    UNION {IF line.kind = "tree" THEN {<<line.name>> \o path : path \in line.id}
           ELSE {<<line.name>>} : line \in lines}

-----------------------------------------------------------------------------
(* The closure: a tree line for each tree, the scope's first, and after it  *)
(* the tree's entries.                                                      *)

Folders(files, scope) ==
    {dir \in {scope} \cup UNION {{SubSeq(path, 1, n) : n \in 0 .. Len(path) - 1} : path \in files} :
        IsPrefix(scope, dir)}
BlockLines(files, dir) ==
    LET id == Below(files, dir)
    IN <<[path |-> dir, id |-> id]>> \o SetToSeq(LinesOf(id, dir))
Body(files, scope) ==
    LET others == SetToSeq(Folders(files, scope) \ {scope})
    IN BlockLines(files, scope)
         \o FlattenSeq([i \in DOMAIN others |-> BlockLines(files, others[i])])

IsTreeLine(line) == "path" \in DOMAIN line
Grouped(blocks, line) ==
    IF IsTreeLine(line) THEN Append(blocks, [path |-> line.path, id |-> line.id, lines |-> {}])
    ELSE [blocks EXCEPT ![Len(blocks)].lines = @ \cup {line}]
Blocks(body) == FoldLeft(Grouped, <<>>, body)

TreeEntries(block) == {line \in block.lines : line.kind = "tree"}
(* Every tree an entry names stands at its path, and every tree is named.   *)
(* Mutant: only that no tree stands unnamed is checked.                     *)
MutAnswered(blocks) ==
    \A i \in 2 .. Len(blocks) :
        \E j \in DOMAIN blocks : \E line \in TreeEntries(blocks[j]) :
            blocks[i].path = Append(blocks[j].path, line.name)
Answered(blocks) ==
    /\ \A i \in DOMAIN blocks : \A line \in TreeEntries(blocks[i]) :
           \E j \in DOMAIN blocks :
               blocks[j].path = Append(blocks[i].path, line.name) /\ blocks[j].id = line.id
    /\ Len(blocks) = 1 + FoldLeft(LAMBDA n, block : n + Cardinality(TreeEntries(block)), 0, blocks)
Parses(body, scope) ==
    LET blocks == Blocks(body)
    IN /\ body # <<>> /\ blocks[1].path = scope
       /\ \A i \in DOMAIN blocks : TreeId(blocks[i].lines) = blocks[i].id
       /\ \A i, j \in DOMAIN blocks : blocks[i].path = blocks[j].path => i = j
       /\ Answered(blocks)

-----------------------------------------------------------------------------
(* What is listed of a tree (`listed`), from the trees at hand: none where  *)
(* one is missing.                                                          *)

Unlisted == {<<>>}
(* Mutant: a tree missing among those at hand lists as an empty one.        *)
MutListed(id, dir, recursive, has) ==
    LET kept == {path \in id : \A n \in 1 .. Len(path) - 1 : Below(id, SubSeq(path, 1, n)) \in has}
    IN IF recursive THEN {dir \o path : path \in kept} \ LinkPaths
       ELSE {dir \o SubSeq(path, 1, 1) : path \in id} \ LinkPaths
Reached(id) == UNION {{Below(id, SubSeq(path, 1, n)) : n \in 1 .. Len(path) - 1} : path \in id}
Listed(id, dir, recursive, has) ==
    IF ~recursive THEN {dir \o SubSeq(path, 1, 1) : path \in id} \ LinkPaths
    ELSE IF Reached(id) \subseteq has THEN {dir \o path : path \in id} \ LinkPaths ELSE Unlisted

NoListing ==
    [at |-> "idle", verb |-> "ls", path |-> <<>>, slash |-> FALSE, recursive |-> FALSE,
     commit |-> 0, hint |-> NoRoot, told |-> {}, entries |-> {}]
ListingStart(v2) ==
    /\ shelfHides = [hidden |-> {}, changes |-> 0, v2 |-> v2]
    /\ keptTrees = [ids |-> {}, views |-> [at \in {} |-> NoRoot]]
    /\ listing = NoListing
ListingInit == \E v2 \in BOOLEAN : ListingStart(v2)

Now == Shown(listing.commit, shelfHides.hidden)
Scope == IF listing.at = "parent" THEN Front(listing.path) ELSE listing.path
Recursive == listing.recursive /\ listing.at = "ask"
ViewHeld(commit, scope) ==
    IF <<commit, scope>> \in DOMAIN keptTrees.views THEN keptTrees.views[<<commit, scope>>] ELSE NoRoot
TagNow == shelfHides.hidden
(* The view whose tag is sent: one that names a root.                       *)
Hint(commit, scope) ==
    LET view == ViewHeld(commit, scope)
    IN IF view = NoRoot THEN NoRoot ELSE IF view.root = NoRoot THEN NoRoot ELSE view

BeginListing ==
    /\ listing.at = "idle"
    /\ \E commit \in Commits, path \in AskedPaths, verb \in {"ls", "glob"}, slash, recursive \in BOOLEAN :
           /\ verb = "glob" => recursive /\ ~slash
           /\ path = <<>> => ~slash
           /\ listing' = [at |-> "ask", verb |-> verb, path |-> path, slash |-> slash,
                          recursive |-> recursive, commit |-> commit,
                          hint |-> Hint(commit, path), told |-> {TagNow}, entries |-> {}]
    /\ UNCHANGED <<shelfHides, keptTrees>>

(* What a read of the tree prints: its listing, or the one file of that     *)
(* name its parent lists (`file_entry`).                                    *)
Prints(entries) ==
    IF listing.at = "ask" THEN [listing EXCEPT !.at = "printed", !.entries = entries]
    ELSE IF listing.path \in entries /\ listing.path \in FilesAt[listing.commit]
    THEN [listing EXCEPT !.at = "printed", !.entries = {listing.path}]
    ELSE [listing EXCEPT !.at = "refused"]

Asking == listing.at \in {"ask", "parent"}
Reads == Asking /\ shelfHides.v2

(* A `304` to the tag of the held view.                                     *)
NotModified ==
    /\ Reads /\ listing.hint # NoRoot /\ listing.hint.tag = TagNow
    /\ LET root == listing.hint.root
           entries == Listed(root, Scope, Recursive, keptTrees.ids)
       IN listing' = IF root \notin keptTrees.ids \/ entries = Unlisted
                     THEN [listing EXCEPT !.hint = NoRoot] ELSE Prints(entries)
    /\ UNCHANGED <<shelfHides, keptTrees>>

(* A view that names no root gains one, and with it the closure's tag.      *)
(* Mutant: the view keeps the tag it was kept under.                        *)
MutKeptView(standing, root, tag) ==
    [root |-> root, tag |-> IF standing = NoRoot THEN tag ELSE standing.tag]
KeptView(standing, root, tag) == [root |-> root, tag |-> tag]
KeepClosure(blocks) ==
    LET at == <<listing.commit, Scope>>
        standing == ViewHeld(listing.commit, Scope)
        rooted == Hint(listing.commit, Scope) # NoRoot
        view == KeptView(standing, blocks[1].id, TagNow)
    IN keptTrees' =
         [ids |-> keptTrees.ids \cup {blocks[i].id : i \in DOMAIN blocks},
          views |-> IF rooted THEN keptTrees.views
                    ELSE [a \in DOMAIN keptTrees.views \cup {at} |->
                              IF a = at THEN view ELSE keptTrees.views[a]]]

(* The closure, whole or cut short; one that does not parse is asked again  *)
(* while the resends last.                                                  *)
ClosureAnswers ==
    /\ Reads /\ IsFolder(Now, Scope)
    /\ IF listing.hint = NoRoot THEN TRUE ELSE listing.hint.tag # TagNow
    /\ LET body == Body(Now, Scope)
       IN \E size \in 0 .. Len(body) :
              LET blocks == Blocks(SubSeq(body, 1, size))
              IN IF Parses(SubSeq(body, 1, size), Scope)
                 THEN /\ KeepClosure(blocks)
                      /\ LET at == {blocks[i].id : i \in DOMAIN blocks}
                             entries == Listed(blocks[1].id, Scope, Recursive, at)
                         IN listing' = Prints(IF entries = Unlisted THEN {} ELSE entries)
                 ELSE /\ UNCHANGED keptTrees
                      /\ listing' \in {listing, [listing EXCEPT !.at = "refused"]}
    /\ UNCHANGED shelfHides

(* A server of no v2 lists the tree itself.                                 *)
V1Answers ==
    /\ Asking /\ ~shelfHides.v2 /\ IsFolder(Now, Scope)
    /\ LET id == Below(Now, Scope) IN listing' = Prints(Listed(id, Scope, Recursive, Reached(id)))
    /\ UNCHANGED <<shelfHides, keptTrees>>

(* No tree stands there: `ls FILE` asks the parent, once.                   *)
NoTree ==
    /\ Asking /\ ~IsFolder(Now, Scope)
    /\ LET asksParent == listing.at = "ask" /\ listing.verb = "ls" /\ ~listing.slash
       IN listing' = IF asksParent
                     THEN [listing EXCEPT !.at = "parent",
                                          !.hint = Hint(listing.commit, Front(listing.path))]
                     ELSE [listing EXCEPT !.at = "refused"]
    /\ UNCHANGED <<shelfHides, keptTrees>>

EndListing ==
    /\ listing.at \in {"printed", "refused"}
    /\ listing' = NoListing
    /\ UNCHANGED <<shelfHides, keptTrees>>

-----------------------------------------------------------------------------
Hide ==
    /\ shelfHides.changes < MaxHides
    /\ \E hidden \in (SUBSET Hideable) \ {shelfHides.hidden} :
           /\ shelfHides' = [shelfHides EXCEPT !.hidden = hidden, !.changes = @ + 1]
           /\ listing' = IF ~Asking THEN listing
                         ELSE [listing EXCEPT !.told = @ \cup {hidden}]
    /\ UNCHANGED keptTrees
SweepTree ==
    /\ \E id \in keptTrees.ids : keptTrees' = [keptTrees EXCEPT !.ids = @ \ {id}]
    /\ UNCHANGED <<shelfHides, listing>>
(* A pull's view of its scope, of no root (`by_changes`).                   *)
PullKeepsView ==
    /\ \E at \in Commits \X AskedPaths :
           keptTrees' = [keptTrees EXCEPT !.views =
               [a \in DOMAIN @ \cup {at} |->
                    IF a = at THEN [root |-> NoRoot, tag |-> TagNow] ELSE @[a]]]
    /\ UNCHANGED <<shelfHides, listing>>

ListingNext ==
    \/ BeginListing \/ NotModified \/ ClosureAnswers \/ V1Answers \/ NoTree \/ EndListing
    \/ Hide \/ SweepTree \/ PullKeepsView
ListingSpec == ListingInit /\ [][ListingNext]_listingVars

-----------------------------------------------------------------------------
(* What a listing prints is the tree the server showed this reader at one   *)
(* moment of the run, whole, whatever of the store had been swept and       *)
(* however short an answer was cut; or the one file the path names.  And a  *)
(* view that names a root holds what its tag stands for.                    *)
ListingOf(files, dir, recursive) ==
    IF recursive THEN {path \in files \ LinkPaths : IsStrictPrefix(dir, path)}
    ELSE {dir \o <<path[1]>> : path \in Below(files, dir)} \ LinkPaths
ListsAsShown ==
    /\ listing.at = "printed" =>
           \E hidden \in listing.told :
               LET files == Shown(listing.commit, hidden)
               IN \/ /\ IsFolder(files, listing.path)
                     /\ listing.entries = ListingOf(files, listing.path, listing.recursive)
                  \/ /\ listing.verb = "ls" /\ ~listing.slash
                     /\ listing.path \in files \ LinkPaths
                     /\ listing.entries = {listing.path}
    /\ \A at \in DOMAIN keptTrees.views :
           LET view == keptTrees.views[at]
           IN view.root # NoRoot => view.root = Below(Shown(at[1], view.tag), at[2])
=============================================================================
