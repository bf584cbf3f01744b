------------------------------ MODULE History -------------------------------
(***************************************************************************)
(* `syns history` (src/commands/history.rs): the whole version list, a     *)
(* file's history, or a folder's, from where the run stands (Scopes), and  *)
(* `syns history show`.  What the server lists is external: asked with a   *)
(* path, one that follows moves matches each older version at the path a   *)
(* recorded move left; one that knows none matches the path as asked; one  *)
(* that drops the path lists every version.                                *)
(***************************************************************************)
EXTENDS Scopes

CONSTANTS
    TypedFiles, \* what `--file` is given
    Windows     \* the limits and offsets asked: pairs

VARIABLE looking   \* the run
historyVars == <<scopeVars, looking>>

NotTyped == <<"--">>   \* no `--file`
NoFollow == <<"-">>    \* no path matched, or no move

-----------------------------------------------------------------------------
(* What is listed.  Through an identity, its folder's own versions stand,   *)
(* at paths counted from it.                                                *)

Moved(path, n) == {m \in landed[n].moves : AtOrUnder(path, m.to)}
Source(path, n) == LET m == CHOOSE move \in Moved(path, n) : TRUE IN Rebased(path, m.to, m.from)
(* The path a version is matched at, from the head down.                    *)
Follows(address) == server = "follows" /\ address = "holder"
MatchedAt(address, path, n) ==
    FoldLeft(LAMBDA at, m : IF Follows(address) /\ Moved(at, m) # {} THEN Source(at, m) ELSE at,
             path, Reverse([i \in 1 .. Len(landed) - n |-> n + i]))

ListedBy(address, n) == address = "holder" \/ Changed(n) \cap Within(ScopeFolder) # {}
Paged(versions, window) ==
    SelectSeq(Reverse(SetToSortSeq(versions, <)), LAMBDA n : LET place == Cardinality({m \in versions : m > n})
                                                         IN place >= window.offset /\ place < window.offset + window.limit)
Counted(address, path) ==
    IF address = "identity" THEN SubSeq(path, Len(ScopeFolder) + 1, Len(path)) ELSE path
Row(address, path, n) ==
    LET follows == Follows(address) /\ path # <<>>
        matched == MatchedAt(address, path, n)
    IN [version |-> n,
        changed |-> {Counted(address, p) :
                       p \in IF address = "holder" THEN Changed(n) ELSE Changed(n) \cap Within(ScopeFolder)},
        diff |-> <<>>,
        path |-> IF follows THEN matched ELSE NoFollow,
        movedFrom |-> IF follows /\ Moved(matched, n) # {} THEN Source(matched, n) ELSE NoFollow]
(* The diff a file's version is served with: headers, a hunk, and a content *)
(* line that reads as a header does.                                        *)
NullSide == <<"/dev/null">>
DiffOf(address, path, n) ==
    LET new == MatchedAt(address, path, n)
        old == IF Follows(address) /\ Moved(new, n) # {} THEN Source(new, n) ELSE new
        Side(p, v) == IF v = 0 THEN NullSide
                      ELSE IF landed[v].tree[p] = Gone THEN NullSide ELSE Counted(address, p)
        Line(mark, paths) == [mark |-> mark, paths |-> paths]
    IN <<Line("diff --git", <<Counted(address, old), Counted(address, new)>>),
         Line("---", <<Side(old, n - 1)>>), Line("+++", <<Side(new, n)>>), Line("@@", <<>>),
         Line("---", <<Counted(address, new)>>)>>
FileRow(address, path, n) ==
    [Row(address, path, n) EXCEPT !.changed = {}, !.diff = DiffOf(address, path, n)]

(* The versions listed for a path, as the holder names it.                  *)
FileVersions(address, path) == {n \in DOMAIN landed : MatchedAt(address, path, n) \in Changed(n)}
FolderVersions(address, path) ==
    {n \in DOMAIN landed :
       /\ ListedBy(address, n)
       /\ path = <<>> \/ server = "drops" \/ \E p \in Changed(n) : AtOrUnder(p, MatchedAt(address, path, n))}

-----------------------------------------------------------------------------
(* What is shown.                                                           *)

(* `served_path`: NoFollow where the path lies outside the folder.          *)
ServedPath(binding, path) ==
    CASE binding # "holder" -> path
      [] IsStrictPrefix(ScopeFolder, path) -> SubSeq(path, Len(ScopeFolder) + 1, Len(path))
      [] OTHER -> NoFollow
(* `shown_path`.                                                            *)
ShownPath(binding, path) ==
    IF ServedPath(binding, path) = NoFollow THEN path ELSE ServedPath(binding, path)
(* `folder_history`: every version on the page changed the path.            *)
Stray(rows, path) ==
    \E i \in DOMAIN rows :
        ~\E p \in rows[i].changed :
            AtOrUnder(p, IF rows[i].path = NoFollow THEN path ELSE rows[i].path)
(* The changed paths of a row counted from the folder; one matched outside  *)
(* it, whole.                                                               *)
ShownPaths(binding, row) ==
    {ServedPath(binding, p) : p \in {q \in row.changed : ServedPath(binding, q) # NoFollow}}
    \cup {p \in row.changed : /\ ServedPath(binding, p) = NoFollow
                              /\ row.path # NoFollow /\ AtOrUnder(p, row.path)}
(* `rebase_side`, and `rebase_pair`: two sides only where both map.         *)
CountedSide(side) == ShownPath("holder", side)
CountedPair(sides) ==
    IF \A i \in DOMAIN sides : sides[i] = NullSide \/ IsStrictPrefix(ScopeFolder, sides[i])
    THEN [i \in DOMAIN sides |-> CountedSide(sides[i])] ELSE sides
(* `rebase_diff_headers`: the lines ahead of a file's first hunk.           *)
CountedDiff(diff) ==
    FoldLeft(LAMBDA done, line :
               LET inHeader == line.mark = "diff --git" \/ (done.inHeader /\ line.mark # "@@")
               IN [inHeader |-> inHeader,
                   lines |-> Append(done.lines, IF inHeader THEN [line EXCEPT !.paths = CountedPair(@)]
                                                ELSE line)],
             [inHeader |-> TRUE, lines |-> <<>>], diff).lines
ShownRow(binding, row) ==
    [version |-> row.version, changed |-> ShownPaths(binding, row),
     diff |-> IF binding = "holder" THEN CountedDiff(row.diff) ELSE row.diff,
     movedFrom |-> IF row.movedFrom = NoFollow THEN NoFollow ELSE ShownPath(binding, row.movedFrom)]

-----------------------------------------------------------------------------
(* The run.                                                                 *)

NoLooking == [at |-> "idle"]

HistoryInit == ScopesInit /\ looking = NoLooking

(* `--file` with its trailing separators taken off, as the path asked for.  *)
AskedPath(binding, typed) ==
    LET trimmed == IF Stripped(typed) = <<>> THEN <<"">> ELSE Stripped(typed)
    IN IF typed # NotTyped THEN RepositoryArgument(binding, trimmed)
       ELSE Requested(binding, <<>>)

BindHistory ==
    /\ looking.at = "idle"
    /\ \E place \in Places \ {"alone"}, repo \in {"none", "holder", "identity"},
         typed \in TypedFiles \cup {NotTyped}, window \in Windows :
         LET path == AskedPath(Binding(place, repo), typed)
         IN /\ Address(place, repo) # "none"
            /\ path # Outside
            /\ looking' = [at |-> IF path = <<>> THEN "whole"
                                  ELSE IF typed = NotTyped THEN "folder" ELSE "file",
                           place |-> place, repo |-> repo, typed |-> typed,
                           window |-> window, path |-> path]
    /\ UNCHANGED <<landed, server, writing>>

Shows(how, total, rows) ==
    looking' = [at |-> "done", how |-> how, place |-> looking.place, repo |-> looking.repo,
                typed |-> looking.typed, window |-> looking.window, head |-> Len(landed),
                total |-> total, rows |-> rows]

(* A file's history, where there is one.                                    *)
AskFileHistory ==
    /\ looking.at = "file"
    /\ LET binding == Binding(looking.place, looking.repo)
           address == Address(looking.place, looking.repo)
           path == HolderPath(address, looking.path)
           versions == FileVersions(address, path)
           page == Paged(versions, looking.window)
       IN IF versions = {} THEN looking' = [looking EXCEPT !.at = "folder"]
          ELSE Shows("file", Cardinality(versions),
                     [i \in DOMAIN page |-> ShownRow(binding, FileRow(address, path, page[i]))])
    /\ UNCHANGED <<landed, server, writing>>

(* A folder's, or the whole list.                                           *)
AskVersions ==
    /\ looking.at \in {"folder", "whole"}
    /\ LET binding == Binding(looking.place, looking.repo)
           address == Address(looking.place, looking.repo)
           path == IF looking.path = <<>> THEN <<>> ELSE HolderPath(address, looking.path)
           versions == FolderVersions(address, path)
           page == Paged(versions, looking.window)
           rows == [i \in DOMAIN page |-> Row(address, path, page[i])]
       IN IF looking.at = "folder" /\ Stray(rows, looking.path) THEN looking' = NoLooking
          ELSE Shows(looking.at, Cardinality(versions),
                     [i \in DOMAIN rows |-> ShownRow(binding, rows[i])])
    /\ UNCHANGED <<landed, server, writing>>

(* `history show`: an ordinal below 1 is refused; the changed paths are     *)
(* narrowed to the folder's.                                                *)
ShowVersion ==
    /\ looking.at = "idle"
    /\ \E place \in Places, repo \in {"none", "holder"}, reference \in 0 .. Len(landed) :
         LET binding == Binding(place, repo)
             address == Address(place, repo)
         IN /\ address # "none" /\ reference >= 1 /\ ListedBy(address, reference)
            /\ looking' = [at |-> "done", how |-> "show", place |-> place, repo |-> repo,
                           typed |-> NotTyped, window |-> [limit |-> 1, offset |-> 0],
                           head |-> Len(landed), total |-> 1,
                           rows |-> <<ShownRow(binding, [Row(address, <<>>, reference)
                                                           EXCEPT !.path = NoFollow])>>]
    /\ UNCHANGED <<landed, server, writing>>

EndHistory ==
    looking.at # "idle" /\ looking' = NoLooking /\ UNCHANGED <<landed, server, writing>>

(* Someone moves a folder or a file.                                        *)
SomeoneMoves ==
    /\ Len(landed) < MaxScoped
    /\ \E said \in Said : \E i \in DOMAIN said.members :
         LET member == [said.members[i] EXCEPT !.from = Resolve(@), !.to = Resolve(@)]
             put == [files |-> {}, gone |-> {}, members |-> <<member>>]
         IN /\ member.kind = "move" /\ ServerAdmits("commit", Gone, put, Last(landed).tree)
            /\ landed' = Append(landed, [tree |-> TreeAfter(Gone, put, Last(landed).tree),
                                         moves |-> Moves(put)])
    /\ UNCHANGED <<server, writing, looking>>

HistoryNext ==
    \/ BindHistory \/ AskFileHistory \/ AskVersions \/ ShowVersion \/ EndHistory
    \/ SomeoneMoves \/ (SomeoneWrites /\ UNCHANGED looking)
-----------------------------------------------------------------------------
(* The versions that changed what was asked for, where it then stood.       *)
Hits ==
    LET address == Address(looking.place, looking.repo)
        meant == Meant(looking.place, looking.repo, IF looking.typed = NotTyped THEN <<>> ELSE looking.typed)
    IN {n \in DOMAIN landed :
          LET stood == MatchedAt(address, meant, n)
          IN IF looking.how = "file" THEN stood \in Changed(n)
             ELSE \E p \in Changed(n) : AtOrUnder(p, stood)}

(* What a row shows counted from the folder reads back, typed there, as the *)
(* path changed; nothing of the folder is left out; the rest is what was    *)
(* matched outside it.                                                      *)
CountedBack(row) ==
    LET binding == Binding(looking.place, looking.repo)
        inside == {RepositoryArgument(binding, path) : path \in row.changed} \cap Changed(row.version)
    IN binding = "holder" /\ looking.how \in {"folder", "show"} =>
         /\ Changed(row.version) \cap Within(ScopeFolder) \subseteq inside
         /\ \A path \in row.changed :
              RepositoryArgument(binding, path) \in inside
              \/ (looking.how = "folder" /\ path \in Changed(row.version) \ Within(ScopeFolder))

(* A diff's headers name the paths as they are typed in the folder, or as   *)
(* served where they lie outside it; its content stands as served.          *)
DiffReadsBack(row) ==
    LET binding == Binding(looking.place, looking.repo)
        served == DiffOf("holder", Meant(looking.place, looking.repo, looking.typed), row.version)
    IN binding = "holder" /\ looking.how = "file" =>
         \A i \in DOMAIN served : \A j \in DOMAIN served[i].paths :
            LET shown == row.diff[i].paths[j]
                path == served[i].paths[j]
            IN IF i > 3 \/ path = NullSide \/ ~IsStrictPrefix(ScopeFolder, path) THEN shown = path
               ELSE RepositoryArgument(binding, shown) = path \/ (served[i].mark = "diff --git" /\ shown = path)

(* A row says the path was carried there only where its version says so.    *)
CarriedFrom(row) ==
    row.movedFrom # NoFollow =>
        \E move \in landed[row.version].moves :
            \E path \in {row.movedFrom, ScopeFolder \o row.movedFrom} : AtOrUnder(path, move.from)

(* Safety: a history holds the page asked for of the versions that changed  *)
(* the file or the folder meant, followed to where each version had it, and *)
(* no version that did not, whatever the server makes of the path.          *)
HistoryAsShown ==
    looking.at = "done" /\ looking.head = Len(landed) =>
        /\ \A i \in DOMAIN looking.rows : CountedBack(looking.rows[i]) /\ DiffReadsBack(looking.rows[i])
                                             /\ CarriedFrom(looking.rows[i])
        /\ looking.how # "show" =>
             /\ \A i \in DOMAIN looking.rows : looking.rows[i].version \in Hits
             /\ server # "drops" \/ looking.how # "folder" =>
                  /\ [i \in DOMAIN looking.rows |-> looking.rows[i].version] = Paged(Hits, looking.window)
                  /\ looking.total = Cardinality(Hits)

(* Safety: a typed path is written, and its history read, where it leads.   *)
WhereTyped == WritesWhereTyped /\ HistoryAsShown
=============================================================================
