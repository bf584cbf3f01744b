------------------------------- MODULE Search -------------------------------
(***************************************************************************)
(* `syns grep` (src/commands/grep.rs): the server's search where it answers *)
(* one, and otherwise the run's own, which fetches a window of the files    *)
(* several at a time, closes at `--head-limit` and says where the next page *)
(* starts; and the caller that follows `nextOffset` at the version read.    *)
(*                                                                         *)
(* A path is a sequence of names and a glob one of names and stars; a text *)
(* says of each of its lines whether it matches.  Fetches go through the   *)
(* store as the module PathReads' do.  The server searches or it does not, *)
(* for as long as a caller pages: its offset counts rows, the run's files. *)
(***************************************************************************)
EXTENDS Naturals, Sequences, FiniteSets, SequencesExt

CONSTANTS
    TreeFiles,  \* the files of the version read, in path order
    Holding,    \* the folder a run may stand in, a path of its holder
    Globs,      \* the `--glob` values
    Star,       \* any one name
    Lines,      \* what a file may hold: its lines
    Binary,     \* or no text
    Given,      \* the content options given: sets of names
    Limits,     \* the `--head-limit` values
    NoBound,    \* none given, or no next page
    FanOutCap,  \* FAN_OUT_CAP
    SearchPage, \* SEARCH_PAGE
    InFlight    \* IN_FLIGHT

VARIABLE search

Least(a, b) == IF a < b THEN a ELSE b
Modes == {"content", "files", "count"}
ContentOptions == {"line-number", "before", "after", "context"}

NoPage ==
    [rows |-> <<>>, next |-> NoBound, limited |-> FALSE, truncated |-> FALSE, partial |-> FALSE]
Searching(mode, given, limit, glob, inside, served) ==
    [at |-> "options", mode |-> mode, given |-> given, limit |-> limit, glob |-> glob,
     inside |-> inside, served |-> served, holds |-> <<>>, listed |-> <<>>, offset |-> 0,
     issued |-> 0, flight |-> {}, results |-> <<>>, carried |-> 0, closed |-> FALSE,
     page |-> NoPage, taken |-> <<>>, refused |-> {}]
SearchInit ==
    \E mode \in Modes, given \in Given, limit \in Limits, glob \in Globs, inside, served \in BOOLEAN :
        search = Searching(mode, given, limit, glob, inside, served)

-----------------------------------------------------------------------------
(* The files searched.                                                      *)

Fits(value, path) ==
    /\ Len(value) = Len(path)
    /\ \A i \in DOMAIN path : value[i] \in {path[i], Star}
(* A value of one name is matched with a file's own, at every depth.        *)
Admits(globs, path) ==
    \/ globs = {}
    \/ \E value \in globs : Fits(value, IF Len(value) = 1 THEN <<Last(path)>> ELSE path)
Under(path) == IsStrictPrefix(Holding, path)
Scoped == IF search.inside THEN SelectSeq(search.listed, Under) ELSE search.listed
CountedFrom(path) ==
    IF search.inside THEN SubSeq(path, Len(Holding) + 1, Len(path)) ELSE path
Kept == LET Keeps(path) == Admits(search.glob, CountedFrom(path))
        IN SelectSeq(Scoped, Keeps)

(* A path's rows: its matching lines, or the path itself and their count.   *)
Matching(path) ==
    LET text == search.holds[path]
    IN IF text = Binary THEN <<>>
       ELSE LET Matches(n) == text[n] IN SelectSeq([n \in DOMAIN text |-> n], Matches)
RowsOf(path) ==
    LET lines == Matching(path)
    IN CASE search.mode = "content" -> [i \in DOMAIN lines |-> <<path, lines[i]>>]
         [] search.mode = "files" -> IF lines = <<>> THEN <<>> ELSE <<<<path, 0>>>>
         [] search.mode = "count" -> IF lines = <<>> THEN <<>> ELSE <<<<path, Len(lines)>>>>
RowsIn(paths) == FlattenSeq([i \in DOMAIN paths |-> RowsOf(paths[i])])
FirstOf(rows, bound) ==
    IF bound = NoBound THEN rows ELSE SubSeq(rows, 1, Least(bound, Len(rows)))

-----------------------------------------------------------------------------
RefusedOptions ==
    \/ search.mode # "content" /\ search.given # {}
    \/ "context" \in search.given /\ search.given \cap {"before", "after"} # {}
    \/ search.limit = 0
RefuseOptions ==
    /\ search.at = "options" /\ RefusedOptions
    /\ search' = [search EXCEPT !.at = "refused"]
Resolve ==
    /\ search.at = "options" /\ ~RefusedOptions
    /\ \E holds \in [Range(TreeFiles) -> Lines \cup {Binary}] :
           search' = [search EXCEPT !.at = "ask", !.holds = holds, !.listed = TreeFiles]

(* The server's search (`EP-v2-search`): a page of rows, at most as many as *)
(* asked and cut short at its bytes.  A value with a `/` is anchored at the *)
(* folder of the holder the run stands in.                                  *)
(* Mutant: every value is sent as typed.                                    *)
MutRequested == search.glob
Requested ==
    IF search.inside
    THEN {IF Len(value) = 1 THEN value ELSE Holding \o value : value \in search.glob}
    ELSE search.glob
ServedRows ==
    LET Serves(path) == Admits(Requested, path) IN RowsIn(SelectSeq(Scoped, Serves))
Asked == IF search.limit = NoBound THEN SearchPage ELSE Least(search.limit, SearchPage)

ServerAnswers ==
    /\ search.at = "ask" /\ search.served
    /\ LET left == SubSeq(ServedRows, search.offset + 1, Len(ServedRows))
           most == Least(Asked, Len(left))
       IN \E size \in Least(1, most) .. most :
              search' = [search EXCEPT
                  !.at = "shown",
                  !.page = [rows |-> FirstOf(left, size),
                            next |-> IF size < Len(left) THEN search.offset + size ELSE NoBound,
                            limited |-> size < Len(left) /\ size = search.limit,
                            truncated |-> size < Len(left), partial |-> FALSE]]
(* An answer cut, of no shape, or whose `truncated` and `nextOffset`        *)
(* disagree, and a refusal of the search: no fallback.                      *)
ServerFails ==
    /\ search.at = "ask" /\ search.served
    /\ search' = [search EXCEPT !.at = "refused"]

-----------------------------------------------------------------------------
(* The run's own search.                                                    *)

Start(s) == Least(s.offset, Len(Kept))
End(s) == Least(Start(s) + FanOutCap, Len(Kept))
Window == SubSeq(Kept, Start(search) + 1, End(search))
Capped == Len(Kept) > End(search)

(* `fill!`: the next files of the window, while there is room in flight.    *)
Filled(s, pool) ==
    LET upTo == Least(pool, s.issued + InFlight - Cardinality(s.flight))
    IN [s EXCEPT !.issued = upTo, !.flight = @ \cup (s.issued + 1 .. upTo)]

(* The tree's listing may itself stop short.                                *)
ListTree ==
    /\ search.at = "ask" /\ ~search.served
    /\ \E listed \in {TreeFiles, Front(TreeFiles)} :
           search' = [search EXCEPT !.at = "window", !.listed = listed]
OpenWindow ==
    /\ search.at = "window"
    /\ LET opened == [search EXCEPT !.at = "fetch", !.results = [i \in DOMAIN Window |-> "none"],
                                    !.issued = 0, !.flight = {}, !.carried = 0, !.closed = FALSE]
       IN search' = Filled(opened, Len(Window))

(* A content lands; at the limit the run fetches no more.                   *)
Closes(s) == s.limit # NoBound /\ s.carried >= s.limit
(* Mutant: at the limit what is still in flight is given up.                *)
MutLanded(s, pool) ==
    IF Closes(s) THEN [s EXCEPT !.closed = TRUE, !.flight = {}] ELSE Filled(s, pool)
Landed(s, pool) ==
    IF Closes(s) THEN [s EXCEPT !.closed = TRUE] ELSE Filled(s, pool)
Land ==
    /\ search.at = "fetch"
    /\ \E i \in search.flight, outcome \in {"read", "refused"} :
           LET rows == IF outcome = "read" THEN Len(RowsOf(Window[i])) ELSE 0
           IN search' = Landed([search EXCEPT !.flight = @ \ {i}, !.results[i] = outcome,
                                              !.carried = @ + rows], Len(Window))
(* Any other refusal of a fetch ends the run; the store is swept first.     *)
FetchFails ==
    /\ search.at = "fetch" /\ search.flight # {}
    /\ search' = [search EXCEPT !.at = "refused", !.flight = {}]

Outcome(outcome) == {Window[i] : i \in {i \in DOMAIN Window : search.results[i] = outcome}}
Found == LET Read(path) == path \in Outcome("read") IN RowsIn(SelectSeq(Window, Read))
EndedEarly == search.issued < Len(Window)
(* Mutant: the next window is named though this one was not searched whole. *)
MutSearchedWhole == TRUE
SearchedWhole ==
    /\ ~EndedEarly
    /\ search.limit = NoBound \/ search.carried <= search.limit
Assemble ==
    /\ search.at = "fetch" /\ search.flight = {}
    /\ LET short == search.listed # TreeFiles
           refused == Outcome("refused")
       IN search' = [search EXCEPT
              !.at = "shown", !.refused = @ \cup refused,
              !.page = [rows |-> FirstOf(Found, search.limit),
                        next |-> IF Capped /\ SearchedWhole THEN End(search) ELSE NoBound,
                        limited |-> EndedEarly \/ (search.limit # NoBound /\ Len(Found) > search.limit),
                        truncated |-> short \/ Capped, partial |-> short \/ refused # {}]]

(* The caller asks for the next page at the version this one read.          *)
NextPage ==
    /\ search.at = "shown" /\ search.page.next # NoBound
    /\ search' = [search EXCEPT !.at = "ask", !.taken = @ \o search.page.rows, !.listed = TreeFiles,
                                !.offset = search.page.next, !.page = NoPage]

SearchNext ==
    \/ RefuseOptions \/ Resolve \/ ServerAnswers \/ ServerFails \/ ListTree \/ OpenWindow
    \/ Land \/ FetchFails \/ Assemble \/ NextPage
SearchSpec == SearchInit /\ [][SearchNext]_search

-----------------------------------------------------------------------------
(* The content render (`search_text`, `content_lines`): each row with the   *)
(* lines around it that do not match, each line of a path once, and a bar   *)
(* between lines that do not follow each other.                             *)

Around(option) == IF search.given \cap {option, "context"} # {} THEN 1 ELSE 0
(* Mutant: the lines around a row that match are taken with it.             *)
MutContextOf(row) ==
    {n \in DOMAIN search.holds[row[1]] :
        n # row[2] /\ n + Around("before") >= row[2] /\ n <= row[2] + Around("after")}
ContextOf(row) ==
    {n \in DOMAIN search.holds[row[1]] :
        /\ ~search.holds[row[1]][n]
        /\ n + Around("before") >= row[2] /\ n <= row[2] + Around("after")}
MergedRows(rows, path) ==
    LET own == {row \in Range(rows) : row[1] = path}
        hits == {row[2] : row \in own}
        numbers == hits \cup UNION {ContextOf(row) : row \in own}
        sorted == SetToSortSeq(numbers, <)
    IN [i \in DOMAIN sorted |-> [path |-> path, line |-> sorted[i], hit |-> sorted[i] \in hits]]
Bar == [path |-> <<>>, line |-> 0, hit |-> FALSE]
Barred(done, line) ==
    LET before == Last(done)
        adjacent == before.path = line.path /\ line.line = before.line + 1
    IN IF done = <<>> \/ adjacent \/ search.given \cap {"before", "after", "context"} = {}
       THEN Append(done, line) ELSE done \o <<Bar, line>>
Rendered(rows) ==
    LET merged == FlattenSeq([i \in DOMAIN Scoped |-> MergedRows(rows, Scoped[i])])
    IN FoldLeft(Barred, <<>>, merged)

-----------------------------------------------------------------------------
(* In whatever order the contents land, a page of the run's own search      *)
(* shows the first rows of its window in path order, and says when it does  *)
(* not show them all.                                                       *)
FirstRowsInOrder ==
    search.at = "shown" /\ ~search.served =>
        LET Readable(path) == path \notin Outcome("refused")
            rows == RowsIn(SelectSeq(Window, Readable))
        IN /\ search.page.rows = FirstOf(rows, search.limit)
           /\ search.page.limited \/ search.page.rows = rows

(* A caller that followed `nextOffset` to a page that says of nothing that  *)
(* it was cut has been shown every row once, but for the files it was told  *)
(* could not be read, whether the server or the run searched.               *)
PagesJoin ==
    LET Readable(path) == path \notin search.refused
        last == search.page.next = NoBound /\ ~search.page.limited /\ ~search.page.truncated
    IN search.at = "shown" /\ last =>
           search.taken \o search.page.rows = RowsIn(SelectSeq(Kept, Readable))

(* The render shows each row once as a match, no matching line as context,  *)
(* and a bar exactly where two lines do not follow each other.              *)
RendersOnce ==
    search.at = "shown" /\ search.mode = "content" /\ search.given \notin {{}, {"line-number"}} =>
        LET printed == Rendered(search.page.rows)
            IsLine(line) == line # Bar
            IsHit(line) == line.hit
            lines == SelectSeq(printed, IsLine)
            hits == SelectSeq(lines, IsHit)
            follows(a, b) == a.path = b.path /\ b.line = a.line + 1
        IN /\ [i \in DOMAIN hits |-> <<hits[i].path, hits[i].line>>] = search.page.rows
           /\ IsInjective(lines)
           /\ \A i \in DOMAIN lines : lines[i].hit \/ ~search.holds[lines[i].path][lines[i].line]
           /\ \A i \in 2 .. Len(printed) :
                  IF printed[i] = Bar THEN ~follows(printed[i - 1], printed[i + 1])
                  ELSE printed[i - 1] = Bar \/ follows(printed[i - 1], printed[i])

(* What `syns grep` shows is what stands in the files it says it searched.  *)
ShowsWhatMatches == FirstRowsInOrder /\ PagesJoin /\ RendersOnce
=============================================================================
