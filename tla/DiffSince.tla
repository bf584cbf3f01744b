----------------------------- MODULE DiffSince -----------------------------
(***************************************************************************)
(* What changed since a version (src/commands/diff_since.rs, diff.rs).     *)
(* Under `--provenance` and `--content` a run pins two ends and the paths  *)
(* changed between them in one answer, reads the texts at the newer end,   *)
(* and credits each path by walking the address's list of versions page by *)
(* page, newest first, while further versions land in front of it.         *)
(* Plainly, inside a folder, it narrows a served diff to the folder.       *)
(***************************************************************************)
EXTENDS Naturals, Sequences, FiniteSets, FiniteSetsExt

CONSTANTS DiffPaths,     \* the paths of the repository
          ChangeSets,      \* what a version may change, of them
          InFolder,      \* those under the run's folder
          DiffTexts,     \* what a file may hold
          NoText,        \* no file stands
          PageSize,      \* versions on one page (PAGE)
          MaxListed,     \* bound: versions the address lists
          MaxNumber      \* bound: the newest version's number

ASSUME DiffSinceAssumption ==
    /\ InFolder \subseteq DiffPaths /\ ChangeSets \subseteq SUBSET DiffPaths /\ NoText \notin DiffTexts
    /\ PageSize \in Nat \ {0} /\ MaxListed \in Nat /\ MaxNumber \in Nat

VARIABLES listed,  \* the versions the address lists, newest first: their numbers and filesChanged
          walked,  \* a run under --provenance: its span, its place in the list, whom it credits
          shown    \* what a run shows: a path's text, or a folder's narrowed diff
diffVars == <<listed, walked, shown>>

NoVersion == 0
Idle == [at |-> "idle", from |-> 0, to |-> 0, head |-> FALSE, asked |-> {}, offset |-> 0,
         jump |-> 0, page |-> <<>>, seen |-> {}, credit |-> [path \in DiffPaths |-> NoVersion]]
NothingShown == [what |-> "nothing"]

DiffInit == listed = <<>> /\ walked = Idle /\ shown = NothingShown

Numbers(page) == {page[i].version : i \in DOMAIN page}
Top == IF listed = <<>> THEN 0 ELSE listed[1].version

(* A version lands.  An address's list may carry gaps: a version of the     *)
(* repository it does not list.                                             *)
LandVersion ==
    /\ Len(listed) < MaxListed
    /\ \E number \in Top + 1 .. Top + 2, files \in ChangeSets :
          /\ number <= MaxNumber
          /\ listed' = <<[version |-> number, files |-> files]>> \o listed
    /\ UNCHANGED <<walked, shown>>

-----------------------------------------------------------------------------
(* The walk.                                                                *)

(* One `changes` answer pins both ends, the older not newer, and the paths  *)
(* that differ between them; where nothing does, no page is read.           *)
AskChanges ==
    /\ walked.at = "idle"
    /\ \E from, to \in Numbers(listed), asked \in (SUBSET UNION ChangeSets) \ {{}}, head \in BOOLEAN :
          /\ from <= to /\ (head => to = Top)
          /\ walked' = [Idle EXCEPT !.at = "first", !.from = from, !.to = to, !.asked = asked, !.head = head]
    /\ UNCHANGED <<listed, shown>>

PageAt(offset) ==
    SubSeq(listed, offset + 1, Min({offset + PageSize, Len(listed)}))
IsLast(page, offset) == Len(page) < PageSize \/ offset + Len(page) >= Len(listed)

(* `consume`: of the versions of the page not seen before and none above    *)
(* `to`, the newest in the span that names a path still uncredited is       *)
(* credited with it.                                                        *)
MutFresh(w, page) == {i \in DOMAIN page : page[i].version \notin w.seen}
Fresh(w, page) == {i \in DOMAIN page : page[i].version <= w.to /\ page[i].version \notin w.seen}
Naming(w, page, path) == {i \in Fresh(w, page) : page[i].version > w.from /\ path \in page[i].files}
Consumed(w, page) ==
    [w EXCEPT !.seen = @ \cup {page[i].version : i \in Fresh(w, page)},
              !.credit = [path \in DiffPaths |->
                  IF path \in w.asked /\ w.credit[path] = NoVersion /\ Naming(w, page, path) # {}
                  THEN page[Min(Naming(w, page, path))].version ELSE w.credit[path]]]
ReachedFrom(w, page) == \E i \in Fresh(w, page) : page[i].version <= w.from
AllCredited(w) == \A path \in w.asked : w.credit[path] # NoVersion

(* One turn of the loop over a page read at an offset.                      *)
Turn(w, page, offset) ==
    LET done == \/ AllCredited(Consumed(w, page)) \/ ReachedFrom(w, page) \/ IsLast(page, offset)
    IN [Consumed(w, page) EXCEPT !.at = IF done THEN "done" ELSE "next",
                                 !.offset = offset + PageSize, !.page = <<>>, !.jump = 0]

(* Page 0; where `--to` stands below it, its place in the list is asked.    *)
ReadFirstPage ==
    LET page == PageAt(0)
        below == \A number \in Numbers(page) : number > walked.to
    IN /\ walked.at = "first"
       /\ walked' = IF ~walked.head /\ below /\ ~IsLast(page, 0)
                  THEN [walked EXCEPT !.at = "place", !.page = page]
                  ELSE Turn(walked, page, 0)
       /\ UNCHANGED <<listed, shown>>

(* The place counts the versions listed above `to`.  An address that names  *)
(* no place numbers densely, or has gaps short enough that the subtraction  *)
(* stays inside its list.                                                   *)
AskPlace ==
    LET above == Cardinality({n \in Numbers(listed) : n > walked.to})
        dense == walked.page[1].version - walked.to
        jumps == {above} \cup {n \in {dense} : n < Len(listed)}
    IN /\ walked.at = "place"
       /\ \E jump \in jumps : walked' = [walked EXCEPT !.at = "jump", !.jump = jump]
       /\ UNCHANGED <<listed, shown>>

(* One jump there; a page that opens below `to` missed it (gaps), and the   *)
(* list is walked from its second page on.                                  *)
MutMissed(page) == FALSE
Missed(page) == page # <<>> /\ page[1].version < walked.to
JumpToPlace ==
    LET page == PageAt(walked.jump)
    IN /\ walked.at = "jump"
       /\ walked' = IF Missed(page)
                  THEN [Consumed(walked, walked.page) EXCEPT !.at = "next", !.offset = PageSize, !.page = <<>>]
                  ELSE Turn(walked, page, walked.jump)
       /\ UNCHANGED <<listed, shown>>

ReadNextPage ==
    /\ walked.at = "next"
    /\ walked' = Turn(walked, PageAt(walked.offset), walked.offset)
    /\ UNCHANGED <<listed, shown>>

(* The walk's answer is printed.                                             *)
PrintCredits ==
    /\ walked.at = "done" /\ walked' = Idle
    /\ UNCHANGED <<listed, shown>>
WalkNext ==
    LandVersion \/ AskChanges \/ ReadFirstPage \/ AskPlace \/ JumpToPlace \/ ReadNextPage \/ PrintCredits

-----------------------------------------------------------------------------
(* The text of one entry at the newer end (`--content`): an entry with no   *)
(* size is a submodule; one larger than a file alone may be is not asked;   *)
(* the others are asked in the batch, with the hash the store holds.        *)

Kinds == {"deleted", "submodule", "large", "file"}
Frames == {"ok", "unchanged", "too large"}
Says(text, deferred) == [text |-> text, deferred |-> deferred]
MutStoreLost == Says("null", FALSE)
StoreLost == Says("null", TRUE)

(* `unchanged` answers with the blob held when asked, if it still stands;   *)
(* a path not found, or a hash that does not hold, refuses the run.         *)
TextOf(kind, holds, frame, stored) ==
    IF kind \in {"deleted", "submodule"} THEN Says("null", FALSE)
    ELSE IF kind = "large" \/ frame = "too large" THEN Says("null", TRUE)
    ELSE IF frame = "unchanged" /\ ~stored THEN StoreLost
    ELSE Says(holds, FALSE)
ShowText ==
    /\ shown = NothingShown
    /\ \E kind \in Kinds, holds \in DiffTexts \cup {"null"}, frame \in Frames, stored \in BOOLEAN :
          shown' = [what |-> "text", kind |-> kind, holds |-> holds,
                    says |-> TextOf(kind, holds, frame, stored)]
    /\ UNCHANGED <<listed, walked>>

-----------------------------------------------------------------------------
(* A plain diff between two versions, as served: the renames among its      *)
(* entries are the server's to choose.                                      *)

Trees == [DiffPaths -> DiffTexts \cup {NoText}]
Gone(old, new) == {path \in DiffPaths : old[path] # NoText /\ new[path] = NoText}
Added(old, new) == Gone(new, old)
Entry(status, path, from) == [status |-> status, path |-> path, from |-> from]
RenamesOf(old, new) ==
    {pairs \in SUBSET (Gone(old, new) \X Added(old, new)) :
        \A a, b \in pairs : a # b => a[1] # b[1] /\ a[2] # b[2]}
Served(old, new, renames) ==
    {Entry("renamed", pair[2], pair[1]) : pair \in renames}
      \cup {Entry("deleted", path, NoText) : path \in Gone(old, new) \ {pair[1] : pair \in renames}}
      \cup {Entry("added", path, NoText) : path \in Added(old, new) \ {pair[2] : pair \in renames}}
      \cup {Entry("modified", path, NoText) : path \in {q \in DiffPaths :
                old[q] # new[q] /\ NoText \notin {old[q], new[q]}}}

(* One entry as the folder sees it (`scoped_entry`): a rename across the    *)
(* folder's edge is an addition or a deletion.                              *)
MutScopedEntry(e) == IF e.path \in InFolder THEN {e} ELSE {}
ScopedEntry(e) ==
    IF e.status # "renamed" THEN IF e.path \in InFolder THEN {e} ELSE {}
    ELSE IF {e.path, e.from} \subseteq InFolder THEN {e}
    ELSE IF e.path \in InFolder THEN {Entry("added", e.path, NoText)}
    ELSE IF e.from \in InFolder THEN {Entry("deleted", e.from, NoText)}
    ELSE {}

(* Under `--path`, the entries one of whose paths lies there.               *)
ShowDiff ==
    /\ shown = NothingShown
    /\ \E old, new \in Trees, under \in SUBSET InFolder :
          \E renames \in RenamesOf(old, new) :
             shown' = [what |-> "diff", old |-> old, new |-> new, under |-> under,
                       entries |-> {e \in UNION {ScopedEntry(s) : s \in Served(old, new, renames)} :
                                       {e.path, e.from} \cap under # {}}]
    /\ UNCHANGED <<listed, walked>>

ShowNext == ShowText \/ ShowDiff
DiffNext == WalkNext \/ ShowNext
DiffSpec == DiffInit /\ [][DiffNext]_diffVars

-----------------------------------------------------------------------------
(* Each path is credited with the newest version listed in the span that    *)
(* names it, and with none only where none does, whatever landed while the  *)
(* pages were read and wherever the walk started.                            *)
CreditedToNewest ==
    walked.at = "done" => \A path \in walked.asked :
        LET naming == {listed[i].version : i \in {j \in DOMAIN listed :
                          /\ path \in listed[j].files
                          /\ listed[j].version > walked.from /\ listed[j].version <= walked.to}}
        IN walked.credit[path] = Max(naming \cup {NoVersion})

(* A standing entry's text is shown, is none at all, or is named as         *)
(* deferred: a store that lost the blob never reads as a file without text. *)
TextOrDeferred ==
    shown.what = "text" =>
        \/ shown.says.deferred
        \/ shown.says.text = (IF shown.kind = "file" THEN shown.holds ELSE "null")

(* Narrowed to a folder a diff says of each path of the folder what the     *)
(* folder's own two trees say.                                              *)
ScopedAsTheFolder ==
    shown.what = "diff" => \A path \in shown.under :
        LET of(status) == {e \in shown.entries : e.status = status}
            says == [gone |-> path \in {e.path : e \in of("deleted")} \cup {e.from : e \in of("renamed")},
                     came |-> path \in {e.path : e \in of("added") \cup of("renamed")},
                     changed |-> path \in {e.path : e \in of("modified")}]
        IN says = [gone |-> path \in Gone(shown.old, shown.new),
                   came |-> path \in Added(shown.old, shown.new),
                   changed |-> shown.old[path] # shown.new[path]
                                 /\ NoText \notin {shown.old[path], shown.new[path]}]

DiffsAsListed == CreditedToNewest /\ TextOrDeferred /\ ScopedAsTheFolder
=============================================================================
