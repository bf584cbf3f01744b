------------------------------ MODULE MCReads -------------------------------
(***************************************************************************)
(* The machines that read: they share no state, and a behaviour runs one   *)
(* of them while the others stay where they start.                         *)
(***************************************************************************)
EXTENDS BatchReads, RawReads, Views, BlobReads, Staging, TLC

CONSTANTS p, x, y, s1, s2, s3
VARIABLE reader

(* The first path is asked at two places, and one place names none.         *)
FivePlaces == <<1, 2, NotAsked, 1, 3>>
ThreeSizes == <<1, 2, 1>>
MCBatchModes == CatModes(2, {NoBudget, 2, 4}) \cup FetchModes(2)
MCRawModes ==
    {[budget |-> b, stop |-> "run wide"] : b \in {NoBudget, 0, 2, 4}}
      \cup {[budget |-> NoBudget, stop |-> "in order"]}

Want(size, len, here) == [size |-> size, len |-> len, here |-> here]
UpToThreeWants ==
    UNION {[1 .. n -> {Want(1, 1, TRUE), Want(3, 3, TRUE), Want(Null, 1, TRUE),
                       Want(1, 3, TRUE), Want(1, 1, FALSE)}] : n \in 1 .. 3}

(* The processes that stage are alike, and so are the contents.             *)
Alike == Permutations(Stagers) \cup Permutations(Contents)

Readers == {"batch", "raw", "views", "blobs", "staging"}

readersVars == <<batch, raw, viewsVars, reads, stagingVars>>

MCInit ==
    /\ reader \in Readers
    /\ IF reader = "batch" THEN BatchInit
       ELSE batch = BatchStart(CHOOSE mode \in BatchModes : TRUE, <<<<1>>>>)
    /\ IF reader = "raw" THEN RawInit ELSE raw = RawStart(CHOOSE mode \in RawModes : TRUE)
    /\ IF reader = "views" THEN ViewsInit ELSE ViewsStart([served \in Served |-> x], {}, 0)
    /\ IF reader = "blobs" THEN BlobReadsInit
       ELSE reads = BlobReadsStart(<<Want(1, 1, TRUE)>>, FALSE, 0)
    /\ StagingInit

MCNext ==
    /\ UNCHANGED reader
    /\ \/ reader = "batch" /\ BatchNext /\ UNCHANGED <<raw, viewsVars, reads, stagingVars>>
       \/ reader = "raw" /\ RawNext /\ UNCHANGED <<batch, viewsVars, reads, stagingVars>>
       \/ reader = "views" /\ ViewsNext /\ UNCHANGED <<batch, raw, reads, stagingVars>>
       \/ reader = "blobs" /\ BlobReadsNext /\ UNCHANGED <<batch, raw, viewsVars, stagingVars>>
       \/ reader = "staging" /\ StagingNext /\ UNCHANGED <<batch, raw, viewsVars, reads>>

MCSpec == MCInit /\ [][MCNext]_<<readersVars, reader>>
=============================================================================
