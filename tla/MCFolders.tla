------------------------------ MODULE MCFolders ------------------------------
(***************************************************************************)
(* The commands of a folder that share no state, checked in one run: a     *)
(* behaviour runs one of them, and the others stay where they start.       *)
(***************************************************************************)
EXTENDS TLC, Collection, Placement, Sharing, Identities, Reviews, History

CONSTANTS c, d, m1, m2, m3
VARIABLE command

AlikeContents == Permutations(FileContents) \cup Permutations(Texts)

(* A folder collected again and again, whose file changes under a clock     *)
(* that may stand between two changes; and one collected once, under every  *)
(* rule that leaves a file or its directory out.                            *)
Ruled(top, below) == [f \in FolderFiles |-> IF f \in TopFiles THEN top ELSE below]
Recollected == {[rule |-> Ruled("kept", "kept"), standing |-> TopFiles, clock |-> clock, edited |-> TopFiles,
              edits |-> 2, ticks |-> 3, collections |-> 2] : clock \in {"coarse", "fine"}}
RuledOut == {[rule |-> Ruled(top, below), standing |-> FolderFiles, clock |-> "coarse",
              edited |-> FolderFiles, edits |-> 2, ticks |-> 0, collections |-> 1] :
             top \in {"kept", "gitignore", "machine_name"}, below \in {"kept", "default_dir"}}
FolderScenes == Recollected \cup RuledOut

(* What others publish beside a placement: a file elsewhere in the          *)
(* checkout, one of the enclosing folder, one at the place, a placed one.   *)
OthersWrite == {p :> "x" : p \in {"o", "f", "n", "t"}}

(* The holder's checkout, and a folder copy inside it.                      *)
CheckoutAndFolder == ("checkout" :> {"a", "f/b"}) @@ ("folder" :> {"f/b"})

(* A folder beside another that may move to its place, and two files beside *)
(* both.                                                                    *)
HolderFiles == {<<"d", "q", "x">>, <<"d", "q", "y">>, <<"e", "x">>, <<"e", "y">>, <<"x">>, <<"y">>}
ScopedAt == <<"d", "q">>
TreeOf(held) == [p \in HolderFiles |-> IF p \notin held THEN "none" ELSE IF Len(p) = 3 THEN "two" ELSE "one"]
HolderTrees == {TreeOf({<<"d", "q", "x">>, <<"x">>}), TreeOf({<<"e", "x">>, <<"e", "y">>, <<"x">>})}

FilesOfOthers == {<<"d", "q", "y">>, <<"e", "x">>, <<"x">>}

(* Changesets as typed: plainly, with dots, with separators before, after   *)
(* and alone, above the folder, and leaving it.                             *)
Put(path) == [verb |-> "write", files |-> <<path>>, gone |-> <<>>, members |-> <<>>]
Take(path) == [verb |-> "rm", files |-> <<>>, gone |-> <<path>>, members |-> <<>>]
Member(kind, from, to) == [kind |-> kind, from |-> from, to |-> to]
Carry(members) == [verb |-> "commit", files |-> <<>>, gone |-> <<>>, members |-> members]
Changesets ==
    {Put(path) : path \in {<<"x">>, <<".", "x">>, <<"..", "x">>, <<"d", "q", "y">>, <<"", "x">>, <<"d", ".", "q", "x">>}}
    \cup {Take(path) : path \in {<<"x">>, <<".">>, <<"d">>, <<"">>, <<"d", "q", "">>}}
    \cup {[Put(<<"x">>) EXCEPT !.verb = "revert"],
          Carry(<<Member("move", <<"x">>, <<"y">>)>>),
          Carry(<<Member("move", <<"e", "">>, <<"d", "q">>)>>),
          Carry(<<Member("copy", <<".", "x">>, <<"y">>), Member("move", <<"e">>, <<"d", "q">>)>>),
          [Carry(<<Member("copy", <<"x">>, <<"y">>)>>) EXCEPT !.files = <<<<"x">>>>]}
HistoryWindows == {[limit |-> 2, offset |-> 0], [limit |-> 1, offset |-> 1]}
HistoryFiles == {<<"x">>, <<"..", "e">>, <<"d", "q", "">>, <<".">>, <<"e", "x">>, <<"d", "..", "x">>}

Commands == {"collect", "place", "share", "identities", "review", "write", "history"}

MCInit ==
    /\ command \in Commands
    /\ IF command = "collect" THEN CollectionInit
       ELSE LET scene == CHOOSE s \in Scenes : TRUE IN CollectionStart(scene, CHOOSE x \in FileContents : TRUE)
    /\ IF command = "place" THEN PlacementInit ELSE PlacementStart(TRUE)
    /\ IF command = "share" THEN SharingInit ELSE SharingStart("alone", 1)
    /\ IF command = "identities" THEN IdentitiesInit
       ELSE IdentitiesStart([r \in Repos |-> NoForm])
    /\ IF command = "review" THEN ReviewsInit
       ELSE ReviewsStart([p \in AllPaths |-> CHOOSE x \in Texts : TRUE])
    /\ HistoryInit
    /\ CASE command = "write" -> server # "drops"   \* a listing's affair
         [] command = "history" -> TRUE
         [] OTHER -> server = "plain" /\ landed[1].tree = CHOOSE t \in FirstTrees : TRUE

MCNext ==
    /\ UNCHANGED command
    /\ \/ command = "collect" /\ CollectionNext
          /\ UNCHANGED <<placementVars, sharingVars, identitiesVars, reviewsVars, historyVars>>
       \/ command = "place" /\ PlacementNext
          /\ UNCHANGED <<collectionVars, sharingVars, identitiesVars, reviewsVars, historyVars>>
       \/ command = "share" /\ SharingNext
          /\ UNCHANGED <<collectionVars, placementVars, identitiesVars, reviewsVars, historyVars>>
       \/ command = "identities" /\ IdentitiesNext
          /\ UNCHANGED <<collectionVars, placementVars, sharingVars, reviewsVars, historyVars>>
       \/ command = "review" /\ ReviewsNext
          /\ UNCHANGED <<collectionVars, placementVars, sharingVars, identitiesVars, historyVars>>
       \/ command = "write" /\ ScopesNext
          /\ UNCHANGED <<collectionVars, placementVars, sharingVars, identitiesVars, reviewsVars, looking>>
       \/ command = "history" /\ HistoryNext
          /\ UNCHANGED <<collectionVars, placementVars, sharingVars, identitiesVars, reviewsVars>>

MCSpec == MCInit /\ [][MCNext]_<<collectionVars, placementVars, sharingVars, identitiesVars, reviewsVars, historyVars, command>>
=============================================================================
