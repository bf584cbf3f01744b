------------------------------- MODULE Scopes -------------------------------
(***************************************************************************)
(* Where a run stands (src/read/mod.rs, src/repo/folder.rs), what a typed  *)
(* path names there, and what a write of it does and reports               *)
(* (src/write/mod.rs, src/commands/write.rs, rm.rs, mv.rs, revert.rs).     *)
(*                                                                         *)
(* A path is the sequence of segments it is typed in, empty ones among     *)
(* them.  One repository, the landed, and one of its folders, checked out  *)
(* with it, alone, or bound to the identity it is shared as.  How that     *)
(* scope is found is the module Identities', how a moved head is retried   *)
(* inside a folder ChangesetSend's, a document's parse and overlaps        *)
(* Changeset's; the server is external.                                    *)
(***************************************************************************)
EXTENDS Naturals, Sequences, FiniteSets, SequencesExt

CONSTANTS
    ScopeFiles,  \* the landed's paths
    ScopeFolder, \* the path the scoped folder records
    WrittenContents, \* what a write may put in a file
    Gone,        \* no file
    Said,        \* the changesets, as they are typed
    FirstTrees,  \* the trees the holder may start with
    OthersFiles, \* bound: the paths someone else writes
    MaxScoped    \* bound: versions of the holder

VARIABLES
    landed,      \* the holder's versions: a tree and the moves recorded with it
    server,      \* "follows" moves, knows none ("plain"), or also "drops" a listing's path
    writing      \* the run that writes

scopeVars == <<landed, server, writing>>

Places == {"elsewhere", "checkout", "folder", "alone", "identity"}

AtOrUnder(path, folder) == IsPrefix(folder, path)
Within(folder) == {path \in ScopeFiles : AtOrUnder(path, folder)}
Changed(n) == IF n = 1 THEN {p \in ScopeFiles : landed[1].tree[p] # Gone}
              ELSE {p \in ScopeFiles : landed[n].tree[p] # landed[n - 1].tree[p]}

-----------------------------------------------------------------------------
(* What a typed path names.                                                 *)

Outside == <<"..">>   \* a refusal: no resolved path holds this segment
HasDots(typed) == \E i \in DOMAIN typed : typed[i] \in {".", ".."}

(* `resolve_dot_segments`.                                                  *)
(* Mutant: a segment climbing above the start is dropped.                   *)
MutResolve(typed) ==
    FoldLeft(LAMBDA path, segment : CASE segment \in {"", "."} -> path
                                      [] segment = ".." -> IF path = <<>> THEN path ELSE Front(path)
                                      [] OTHER -> Append(path, segment), <<>>, typed)
Resolve(typed) ==
    FoldLeft(LAMBDA path, segment :
               CASE path = Outside \/ segment \in {"", "."} -> path
                 [] segment = ".." -> IF path = <<>> THEN Outside ELSE Front(path)
                 [] OTHER -> Append(path, segment), <<>>, typed)

OpensAtRoot(typed) == typed # <<>> /\ typed[1] = ""   \* empty, or opening with `/`
Requested(binding, relative) ==
    IF binding = "holder" THEN ScopeFolder \o relative ELSE relative

(* `repository_argument`: the empty sequence is the whole tree, and nothing *)
(* typed is read as the folder itself.                                      *)
RepositoryArgument(binding, typed) ==
    LET path == Resolve(typed)
    IN CASE binding = "none" /\ ~HasDots(typed) -> typed
         [] binding = "none" -> path
         [] OpensAtRoot(typed) \/ path = Outside -> Outside
         [] OTHER -> Requested(binding, path)

(* `file_argument`: neither the root nor the folder is a file.              *)
FileArgument(binding, typed) ==
    IF HasDots(typed) /\ Resolve(typed) = <<>> THEN Outside
    ELSE RepositoryArgument(binding, typed)

(* `as_server_reads`: trailing separators taken off.                        *)
Stripped(typed) ==
    FoldRight(LAMBDA segment, path : IF path = <<>> /\ segment = "" THEN path
                                     ELSE <<segment>> \o path, typed, <<>>)

(* `member_path`: counted from the folder, where one is bound.              *)
MemberPath(binding, typed) ==
    LET path == Stripped(typed)
    IN IF path = <<>> \/ OpensAtRoot(path) \/ FileArgument(binding, path) = Outside THEN Outside
       ELSE Resolve(path)

-----------------------------------------------------------------------------
(* What a run binds and guards.                                             *)

(* `bind_repository` and `bind_write_target`: `--repo` takes the repository *)
(* outright, with no folder; "none" is no `--repo`, and no repository.      *)
Binding(place, repo) ==
    CASE repo # "none" -> "none"
      [] place \in {"folder", "alone"} -> "holder"
      [] place = "identity" -> "identity"
      [] OTHER -> "none"
Address(place, repo) ==
    CASE repo # "none" -> repo
      [] place = "identity" -> "identity"
      [] place = "elsewhere" -> "none"
      [] OTHER -> "holder"

(* `checkout_of`: the copy the guard judges.                                *)
Guarded(place, repo) ==
    LET address == Address(place, repo)
    IN CASE place = "identity" -> "identity"
         [] place = "elsewhere" \/ address # "holder" -> "none"
         [] place = "folder" /\ repo # "none" -> "checkout"
         [] OTHER -> place
(* `guard_root`, `guard_folder`: the copy holds local work, which stands    *)
(* within the scoped folder, beside it, or both.                            *)
Dirty(copy, unpublished) ==
    CASE copy = "none" -> FALSE
      [] copy = "checkout" -> unpublished # {}
      [] OTHER -> "within" \in unpublished
Extent(copy) ==
    CASE copy = "none" -> {}
      [] copy = "checkout" -> ScopeFiles
      [] OTHER -> Within(ScopeFolder)

(* `identity_folder_path`: a write naming the holder from inside the folder *)
(* bound to its identity.                                                   *)
CountsWritten(place, repo) == place = "identity" /\ repo = "holder"

-----------------------------------------------------------------------------
(* The changeset sent.                                                      *)

Members(binding, said) ==
    [i \in DOMAIN said.members |->
       [kind |-> said.members[i].kind, from |-> MemberPath(binding, said.members[i].from),
        to |-> MemberPath(binding, said.members[i].to)]]
Nested(a, b) == IsPrefix(a, b) \/ IsPrefix(b, a)

(* The paths that reach the wire (`publish_changeset`); a member's are      *)
(* mapped twice, first as its report names them.                            *)
Sent(binding, said) ==
    LET members == Members(binding, said)
    IN [files |-> {FileArgument(binding, said.files[i]) : i \in DOMAIN said.files},
        gone |-> {FileArgument(binding, said.gone[i]) : i \in DOMAIN said.gone},
        members |-> [i \in DOMAIN members |->
                       [members[i] EXCEPT !.from = FileArgument(binding, members[i].from),
                                          !.to = FileArgument(binding, members[i].to)]]]
SaidRefused(binding, said) ==
    LET sent == Sent(binding, said)
        members == Members(binding, said)
    IN \/ Outside \in sent.files \cup sent.gone
       \/ \E i \in DOMAIN members :
            Outside \in {members[i].from, members[i].to} \/ Nested(members[i].from, members[i].to)
       \/ said.verb \in {"rm", "revert"} /\ <<"">> \in ToSet(said.files) \cup ToSet(said.gone)

(* The landed's path of a path the server is asked for.                     *)
HolderPath(address, path) == IF address = "identity" THEN ScopeFolder \o path ELSE path
InHolder(address, sent) ==
    [files |-> {HolderPath(address, p) : p \in sent.files},
     gone |-> {HolderPath(address, p) : p \in sent.gone},
     members |-> [i \in DOMAIN sent.members |->
                    [sent.members[i] EXCEPT !.from = HolderPath(address, @),
                                            !.to = HolderPath(address, @)]]]

(* What the server makes of a tree (external): it refuses a path with an    *)
(* empty segment, a member whose source is missing or whose destination     *)
(* stands, and a revert of a path the version does not hold.                *)
Standing(tree, path) == {p \in Within(path) : tree[p] # Gone}
Rebased(path, from, to) == to \o SubSeq(path, Len(from) + 1, Len(path))
ServerAdmits(verb, content, put, tree) ==
    /\ put.files \subseteq ScopeFiles
    /\ \A p \in put.gone : p # <<>> /\ \A i \in DOMAIN p : p[i] # ""
    /\ \A i \in DOMAIN put.members :
         LET member == put.members[i]
         IN /\ Standing(tree, member.from) # {} /\ Standing(tree, member.to) = {}
            /\ \A p \in Standing(tree, member.from) : Rebased(p, member.from, member.to) \in ScopeFiles
    /\ verb = "revert" => content # Gone
TreeAfter(content, put, tree) ==
    LET left == UNION {Within(p) : p \in put.gone}
                \cup UNION {Within(put.members[i].from) : i \in
                              {j \in DOMAIN put.members : put.members[j].kind = "move"}}
        Brought(p) == {q \in ScopeFiles : \E i \in DOMAIN put.members :
                         /\ q \in Standing(tree, put.members[i].from)
                         /\ p = Rebased(q, put.members[i].from, put.members[i].to)}
    IN [p \in ScopeFiles |->
          CASE p \in put.files -> content
            [] Brought(p) # {} -> tree[CHOOSE q \in Brought(p) : TRUE]
            [] p \in left -> Gone
            [] OTHER -> tree[p]]
Moves(put) == {[from |-> put.members[i].from, to |-> put.members[i].to] :
                 i \in {j \in DOMAIN put.members : put.members[j].kind = "move"}}
(* The answer server each member in its kind's list, with its files.        *)
Echo(kind, put, tree) ==
    LET ofKind == SelectSeq(put.members, LAMBDA member : member.kind = kind)
    IN [i \in DOMAIN ofKind |-> Cardinality(Standing(tree, ofKind[i].from))]

-----------------------------------------------------------------------------
(* What the run reports.                                                    *)

OfKind(members, kind, n) ==
    Cardinality({i \in 1 .. n : members[i].kind = kind})
(* `refuse_unechoed`.                                                       *)
Unechoed(members, answer) ==
    \E kind \in {"move", "copy"} : OfKind(members, kind, Len(members)) # Len(answer[kind])
(* `member_lines`: the answer at the member's place among its kind.         *)
MemberLines(members, answer) ==
    [i \in DOMAIN members |-> answer[members[i].kind][OfKind(members, members[i].kind, i)]]

(* The paths a run says it wrote: files and deletions as typed, members     *)
(* resolved.                                                                *)
WrittenPaths(said, members) ==
    ToSet(said.files) \cup ToSet(said.gone)
      \cup UNION {{members[i].from, members[i].to} : i \in DOMAIN members}
(* `checkout_left_behind`.                                                  *)
LeftBehind(place, repo, said, members, changed) ==
    IF /\ changed > 0
       /\ CountsWritten(place, repo) =>
            \E path \in WrittenPaths(said, members) : AtOrUnder(path, ScopeFolder)
    THEN Guarded(place, repo) ELSE "none"

-----------------------------------------------------------------------------
NoWriting == [at |-> "idle"]

ScopesInit ==
    /\ landed \in {<<[tree |-> tree, moves |-> {}]>> : tree \in FirstTrees}
    /\ server \in {"follows", "plain", "drops"}
    /\ writing = NoWriting

(* The run binds, is guarded, and reads its parent; what it is refused for  *)
(* alone leaves nothing.                                                    *)
BindWrite ==
    /\ writing.at = "idle"
    /\ \E place \in Places, repo \in {"none", "holder", "identity"} :
         /\ Address(place, repo) # "none"
         /\ \E unpublished \in SUBSET {"within", "beside"} : ~Dirty(Guarded(place, repo), unpublished)
         /\ \E said \in {s \in Said : ~SaidRefused(Binding(place, repo), s)}, parent \in DOMAIN landed :
            \E to \in IF said.verb = "revert" THEN DOMAIN landed ELSE {parent} :
               writing' = [at |-> "send", place |-> place, repo |-> repo, said |-> said,
                           parent |-> parent, to |-> to]
    /\ UNCHANGED <<landed, server>>

(* The one publication: at its parent, or inside a folder also past         *)
(* versions that left the folder alone.                                     *)
AtHead(binding, parent) ==
    \A n \in parent + 1 .. Len(landed) :
        binding # "none" /\ Changed(n) \cap Within(ScopeFolder) = {}

(* What goes into a file: what standard input carries, or under `revert`    *)
(* what the version named holds.                                            *)
Carries(said, put, to) ==
    IF said.verb # "revert" THEN WrittenContents
    ELSE {landed[to].tree[path] : path \in put.files \cap ScopeFiles}

(* `report`, or nothing where the answer echoes no member, or a removal     *)
(* removed nothing.                                                         *)
Reported(version, changed, answer) ==
    LET said == writing.said
        members == Members(Binding(writing.place, writing.repo), said)
    IN IF Unechoed(members, answer) \/ (said.verb = "rm" /\ changed = 0) THEN NoWriting
       ELSE [at |-> "done", place |-> writing.place, repo |-> writing.repo, said |-> said,
             version |-> version, changed |-> changed, lines |-> MemberLines(members, answer),
             behind |-> LeftBehind(writing.place, writing.repo, said, members, changed)]

SendWrite ==
    /\ writing.at = "send"
    /\ LET said == writing.said
           binding == Binding(writing.place, writing.repo)
           asked == InHolder(Address(writing.place, writing.repo), Sent(binding, said))
           put == IF server = "follows" THEN asked ELSE [asked EXCEPT !.members = <<>>]
           tree == Last(landed).tree
       IN \E content \in Carries(said, put, writing.to) :
            LET after == TreeAfter(content, put, tree)
                changed == Cardinality({p \in ScopeFiles : after[p] # tree[p]})
                answer == [move |-> Echo("move", put, tree), copy |-> Echo("copy", put, tree)]
            IN /\ AtHead(binding, writing.parent)
               /\ ServerAdmits(said.verb, content, put, tree)
               /\ changed > 0 => Len(landed) < MaxScoped
               /\ landed' = IF changed = 0 THEN landed
                            ELSE Append(landed, [tree |-> after, moves |-> Moves(put)])
               /\ writing' \in {NoWriting, Reported(Len(landed'), changed, answer)}   \* answered or not
    /\ UNCHANGED server

(* Refused, a conflict among the refusals, or ended.                        *)
EndWrite == writing.at # "idle" /\ writing' = NoWriting /\ UNCHANGED <<landed, server>>

(* Someone else publishes.                                                  *)
SomeoneWrites ==
    /\ Len(landed) < MaxScoped
    /\ \E path \in OthersFiles, content \in WrittenContents \cup {Gone} :
         /\ Last(landed).tree[path] # content
         /\ landed' = Append(landed, [tree |-> [Last(landed).tree EXCEPT ![path] = content],
                                      moves |-> {}])
    /\ UNCHANGED <<server, writing>>

ScopesNext == BindWrite \/ SendWrite \/ EndWrite \/ SomeoneWrites
-----------------------------------------------------------------------------
(* Where a typed path leads from the folder, or the repository, it is       *)
(* counted from.                                                            *)
Meant(place, repo, typed) ==
    Resolve((IF Binding(place, repo) # "none" \/ Address(place, repo) = "identity"
             THEN ScopeFolder ELSE <<>>) \o typed)
MeantBy(place, repo, said) ==
    {Meant(place, repo, typed) : typed \in ToSet(said.files) \cup ToSet(said.gone)
       \cup UNION {{said.members[i].from, said.members[i].to} : i \in DOMAIN said.members}}

WroteWhereTyped(changed) ==
    /\ \A p \in changed : \E path \in MeantBy(writing.place, writing.repo, writing.said) :
          AtOrUnder(p, path)
    /\ Binding(writing.place, writing.repo) # "none" => changed \subseteq Within(ScopeFolder)

(* Each member's line counts what it carried, and all of it was carried.    *)
ToldEachMember ==
    \A i \in DOMAIN writing.said.members :
        LET member == writing.said.members[i]
            from == Meant(writing.place, writing.repo, member.from)
            to == Meant(writing.place, writing.repo, member.to)
            before == landed[writing.version - 1].tree
            after == landed[writing.version].tree
        IN /\ writing.lines[i] = Cardinality(Standing(before, from))
           /\ \A p \in Standing(before, from) : after[Rebased(p, from, to)] = before[p]
           /\ member.kind = "move" => Standing(after, from) = {}

(* Written as the holder names it, and nothing above the folder.            *)
Plainly(said) ==
    LET members == Members("none", said)
    IN /\ \A typed \in ToSet(said.files) \cup ToSet(said.gone) :
            ~HasDots(typed) /\ ~IsStrictPrefix(typed, ScopeFolder)
       /\ \A i \in DOMAIN members : ~IsStrictPrefix(members[i].from, ScopeFolder)
                                   /\ ~IsStrictPrefix(members[i].to, ScopeFolder)
NamedBehind(changed) ==
    LET place == writing.place
        repo == writing.repo
        copy == Guarded(place, repo)
    IN IF writing.behind = "none"
       THEN (CountsWritten(place, repo) => Plainly(writing.said))
              => changed \cap Extent(copy) = {}
       ELSE /\ writing.behind = copy
            /\ repo = "none" \/ copy = "checkout" => changed \cap Extent(copy) # {}

(* Safety: a write changes what the typed paths lead to and, inside a       *)
(* folder, nothing beside it; a reported move or copy was carried out       *)
(* whole, its line its own; and the copy the run stood in is named behind   *)
(* where the write changed a file it holds.  Excepted: a write naming the   *)
(* holder from a folder bound to its identity, of a path typed with dots    *)
(* or of one above that folder.                                             *)
WritesWhereTyped ==
    writing.at = "done" =>
        LET changed == IF writing.changed = 0 THEN {} ELSE Changed(writing.version)
        IN WroteWhereTyped(changed) /\ ToldEachMember /\ NamedBehind(changed)
=============================================================================
