------------------------------ MODULE MCCopies ------------------------------
(***************************************************************************)
(* A copy's state files, the identity file of its folder, and the listings *)
(* of a repository, over small sets.  They share no state: a behaviour is   *)
(* about one of them, and the others stay where they start.                 *)
(***************************************************************************)
EXTENDS StateHomes, IdentityRecord, Listings, TLC

CONSTANTS b0, local, remote, c, d, r, s
VARIABLE about

OneDoc == {b0}
BothSnapshots == {local, remote}
OneContent == {c}
TwoContents == {c, d}
TwoRuns == {r, s}
RunSymmetry == Permutations(Runs)

(* Of the identity file: none, the text a retrieval writes, the same with   *)
(* what the repository declares, and another repository's.                  *)
IdentityTexts == "id" :> {NoFile, {Us}, {Us, 3}, {Them}} @@ "doc" :> {NoFile, {5}}

(* A folder of two levels, with a link; one of its files may be hidden.     *)
OneCommit == <<{<<"f">>, <<"d", "x">>, <<"d", "e", "y">>, <<"d", "l">>}>>
OneLink == {<<"d", "l">>}
MayHide == {<<"d", "x">>}
FolderAndFile == {<<"d">>, <<"f">>}

MCInit ==
    /\ about \in {"state", "identity", "listing"}
    /\ Init
    /\ IF about = "identity" THEN RecordInit ELSE RecordStart(EmptyTree)
    /\ IF about = "listing" THEN ListingInit ELSE ListingStart(FALSE)

MCNext ==
    /\ UNCHANGED about
    /\ \/ about = "state" /\ Next /\ UNCHANGED <<recordVars, listingVars>>
       \/ about = "identity" /\ RecordNext /\ UNCHANGED <<vars, listingVars>>
       \/ about = "listing" /\ ListingNext /\ UNCHANGED <<vars, recordVars>>

MCSpec == MCInit /\ [][MCNext]_<<vars, recordVars, listingVars, about>>
=============================================================================
