--------------------------- MODULE FoldersProofs ---------------------------
(***************************************************************************)
(* Theorems about the commands of a folder and their proofs, component by  *)
(* component: the reviews of several copies over the same files, a folder  *)
(* shared under an identity of its own, a folder collected, a folder       *)
(* placed, and the file that names a directory's repository.               *)
(***************************************************************************)
EXTENDS Reviews, Sharing, Collection, Placement, Identities, FolderCheckProofs

-----------------------------------------------------------------------------
(* Reviews.                                                                 *)

ReviewContents == Texts \cup {Marked}
PartOfFolder == {<<>>} \cup UNION {[S -> ReviewContents] : S \in SUBSET AllPaths}
ReviewType ==
    [names : SUBSET AllPaths, raised : SUBSET AllPaths, collided : SUBSET AllPaths,
     head : Nat, pending : BOOLEAN, accepted : PartOfFolder, prior : PartOfFolder]
PassType ==
    [at : {"idle", "collected", "read", "locked", "prepares", "writes", "sends"},
     publishing : BOOLEAN, files : PartOfFolder, base : Nat, head : Nat]

ReviewsTyped ==
    /\ trees \in Seq([AllPaths -> ReviewContents]) /\ Len(trees) > 0
    /\ onDisk \in [AllPaths -> ReviewContents]
    /\ copies \in [CopyNames -> [base : Nat, review : ReviewType]]
    /\ passes \in [CopyNames -> PassType]
    /\ moves \in Nat

(* Every commit a copy or a pass names is one the holder has.               *)
CopyNamesCommits(c) ==
    /\ copies[c].base \in 1 .. Len(trees)
    /\ Reviewing(c) => copies[c].review.head \in 1 .. Len(trees)
PassNamesCommits(c) ==
    /\ passes[c].at # "idle" => passes[c].files \in [Spans(c) -> ReviewContents]
                                  /\ passes[c].base \in 1 .. Len(trees)
    /\ passes[c].at \in {"read", "locked", "prepares", "writes"} => passes[c].head \in 1 .. Len(trees)
CommitsAreTheHolders == \A c \in CopyNames : CopyNamesCommits(c) /\ PassNamesCommits(c)

(* A pass between its reading of the others' resolutions and its writing of *)
(* its own holds the review lock, and no other copy has prepared a review   *)
(* of a path it is about to write down.                                     *)
HoldsTheLock(c) == passes[c].at \in {"locked", "prepares"} => reviewLock = c
StillDisjoint(c) ==
    passes[c].at = "prepares" =>
        \A d \in CopyNames \ {c} :
            copies[d].review.names \cap (Brought(c) \cup copies[c].review.names) = {}
ReviewsInv ==
    /\ ReviewsTyped /\ CommitsAreTheHolders
    /\ \A c \in CopyNames : HoldsTheLock(c) /\ StillDisjoint(c)
    /\ OneReviewPerPath

LEMMA NoneIsPart == <<>> \in PartOfFolder
  BY DEF PartOfFolder

LEMMA LaidOverPart ==
  ASSUME NEW f \in PartOfFolder, NEW g \in PartOfFolder
  PROVE  PutOver(f, g) \in PartOfFolder
<1>1. DOMAIN f \in SUBSET AllPaths /\ \A x \in DOMAIN f : f[x] \in ReviewContents
  BY DEF PartOfFolder
<1>2. DOMAIN g \in SUBSET AllPaths /\ \A x \in DOMAIN g : g[x] \in ReviewContents
  BY DEF PartOfFolder
<1>3. PutOver(f, g) \in [DOMAIN f \cup DOMAIN g -> ReviewContents]
  BY <1>1, <1>2 DEF PutOver
<1>4. DOMAIN f \cup DOMAIN g \in SUBSET AllPaths
  BY <1>1, <1>2
<1> QED BY <1>3, <1>4 DEF PartOfFolder

LEMMA LaidOverFolder ==
  ASSUME NEW f \in PartOfFolder, NEW g \in [AllPaths -> ReviewContents]
  PROVE  PutOver(f, g) \in [AllPaths -> ReviewContents]
<1>1. DOMAIN f \in SUBSET AllPaths /\ \A x \in DOMAIN f : f[x] \in ReviewContents
  BY DEF PartOfFolder
<1>2. DOMAIN f \cup DOMAIN g = AllPaths
  BY <1>1
<1> QED BY <1>1, <1>2 DEF PutOver

(* What stands under a copy is a part of the folder.                        *)
LEMMA UnderIsPart ==
  ASSUME NEW c \in CopyNames, NEW f \in [AllPaths -> ReviewContents]
  PROVE  Under(c, f) \in [Spans(c) -> ReviewContents] /\ Under(c, f) \in PartOfFolder
<1>1. Spans(c) \in SUBSET AllPaths
  BY DEF Spans, AllPaths
<1> QED BY <1>1 DEF Under, PartOfFolder

LEMMA NoReviewTyped == NoReview \in ReviewType
  BY NoneIsPart DEF NoReview, ReviewType

LEMMA NoPassTyped == NoPass \in PassType
  BY NoneIsPart DEF NoPass, PassType

(* The holder's history only grows.                                         *)
HistoryGrows ==
    /\ trees' \in Seq([AllPaths -> ReviewContents]) /\ Len(trees') >= Len(trees)
    /\ \A i \in 1 .. Len(trees) : trees'[i] = trees[i]

LEMMA AppendGrows ==
  ASSUME ReviewsTyped, NEW t \in [AllPaths -> ReviewContents],
         trees' = trees \/ trees' = Append(trees, t)
  PROVE  HistoryGrows
<1>1. trees \in Seq([AllPaths -> ReviewContents])
  BY DEF ReviewsTyped
<1>2. CASE trees' = trees
  BY <1>1, <1>2 DEF HistoryGrows
<1>3. CASE trees' = Append(trees, t)
  BY <1>1, <1>3 DEF HistoryGrows
<1> QED BY <1>2, <1>3

LEMMA BroughtStands ==
  ASSUME ReviewsInv, HistoryGrows, NEW c \in CopyNames, passes'[c] = passes[c],
         passes[c].at = "prepares"
  PROVE  Brought(c)' = Brought(c)
<1>1. /\ passes[c].base \in 1 .. Len(trees) /\ passes[c].head \in 1 .. Len(trees)
  BY DEF ReviewsInv, CommitsAreTheHolders, PassNamesCommits
<1>2. /\ trees'[passes[c].base] = trees[passes[c].base]
      /\ trees'[passes[c].head] = trees[passes[c].head]
  BY <1>1 DEF HistoryGrows
<1> QED BY <1>2 DEF Brought, Local, Remote, Agreed, Spans

(* A step that takes no lock, prepares nothing and adds no name to a review *)
(* keeps the reviews apart.                                                 *)
LEMMA KeepsApart ==
  ASSUME ReviewsInv, HistoryGrows, NEW c \in CopyNames,
         \A d \in CopyNames : copies'[d].review.names \subseteq copies[d].review.names,
         \A d \in CopyNames \ {c} : passes'[d] = passes[d],
         \/ passes'[c] = passes[c] /\ reviewLock' = reviewLock
         \/ passes'[c].at \notin {"locked", "prepares"},
         \A d \in CopyNames \ {c} : reviewLock = d => reviewLock' = d
  PROVE  (\A d \in CopyNames : HoldsTheLock(d) /\ StillDisjoint(d))' /\ OneReviewPerPath'
<1>1. ASSUME NEW d \in CopyNames, passes'[d] = passes[d], reviewLock = d => reviewLock' = d
      PROVE  HoldsTheLock(d)'
  BY <1>1 DEF ReviewsInv, HoldsTheLock
<1>2. ASSUME NEW d \in CopyNames, passes'[d] = passes[d]
      PROVE  StillDisjoint(d)'
  <2>1. SUFFICES ASSUME passes[d].at = "prepares", NEW e \in CopyNames \ {d}
                 PROVE  copies'[e].review.names \cap (Brought(d)' \cup copies'[d].review.names) = {}
    BY <1>2 DEF StillDisjoint
  <2>2. Brought(d)' = Brought(d)
    BY <1>2, <2>1, BroughtStands
  <2>3. copies[e].review.names \cap (Brought(d) \cup copies[d].review.names) = {}
    BY <2>1 DEF ReviewsInv, StillDisjoint
  <2> QED BY <2>2, <2>3
<1>3. ASSUME NEW d \in CopyNames, passes'[d].at \notin {"locked", "prepares"}
      PROVE  HoldsTheLock(d)' /\ StillDisjoint(d)'
  BY <1>3 DEF HoldsTheLock, StillDisjoint
<1>4. OneReviewPerPath'
  BY DEF ReviewsInv, OneReviewPerPath
<1> QED BY <1>1, <1>2, <1>3, <1>4

LEMMA KeepsCommits ==
  ASSUME ReviewsInv, HistoryGrows, NEW c \in CopyNames
  PROVE  /\ copies'[c] = copies[c] => CopyNamesCommits(c)'
         /\ passes'[c] = passes[c] => PassNamesCommits(c)'
<1>1. CopyNamesCommits(c) /\ PassNamesCommits(c) /\ Len(trees) \in Nat
  BY DEF ReviewsInv, ReviewsTyped, CommitsAreTheHolders
<1>2. Len(trees') >= Len(trees) /\ Len(trees') \in Nat
  BY DEF HistoryGrows
<1>3. ASSUME copies'[c] = copies[c]
      PROVE  CopyNamesCommits(c)'
  BY <1>1, <1>2, <1>3 DEF CopyNamesCommits, Reviewing
<1>4. ASSUME passes'[c] = passes[c]
      PROVE  PassNamesCommits(c)'
  BY <1>1, <1>2, <1>4 DEF PassNamesCommits, Spans
<1> QED BY <1>3, <1>4

LEMMA ReviewsFirst == ReviewsInit => ReviewsInv
<1> SUFFICES ASSUME NEW k \in Texts, ReviewsStart([p \in AllPaths |-> k])
             PROVE  ReviewsInv
  BY DEF ReviewsInit
<1>1. [p \in AllPaths |-> k] \in [AllPaths -> ReviewContents]
  BY DEF ReviewContents
<1>2. trees \in Seq([AllPaths -> ReviewContents]) /\ Len(trees) = 1
  BY <1>1 DEF ReviewsStart
<1>3. \A c \in CopyNames : /\ copies[c].base = 1 /\ copies[c].review = NoReview
                           /\ copies[c].review.names = {} /\ passes[c].at = "idle"
  BY DEF ReviewsStart, NoReview, NoPass
<1>4. ReviewsTyped
  BY <1>1, <1>2, NoReviewTyped, NoPassTyped DEF ReviewsTyped, ReviewsStart
<1>5. CommitsAreTheHolders
  <2> SUFFICES ASSUME NEW c \in CopyNames
               PROVE  CopyNamesCommits(c) /\ PassNamesCommits(c)
    BY DEF CommitsAreTheHolders
  <2>1. CopyNamesCommits(c)
    BY <1>2, <1>3 DEF CopyNamesCommits, Reviewing
  <2>2. PassNamesCommits(c)
    BY <1>3 DEF PassNamesCommits
  <2> QED BY <2>1, <2>2
<1>6. \A c \in CopyNames : HoldsTheLock(c) /\ StillDisjoint(c)
  BY <1>3 DEF HoldsTheLock, StillDisjoint
<1>7. OneReviewPerPath
  BY <1>3 DEF OneReviewPerPath
<1> QED BY <1>4, <1>5, <1>6, <1>7 DEF ReviewsInv

(* A step of one copy that leaves the copies' records as they are.          *)
LEMMA PassOnly ==
  ASSUME ReviewsInv, NEW c \in CopyNames, NEW p \in PassType,
         passes' = [passes EXCEPT ![c] = p], copies' = copies, trees' = trees,
         onDisk' \in [AllPaths -> ReviewContents], moves' = moves,
         p.at # "idle" => p.files \in [Spans(c) -> ReviewContents] /\ p.base \in 1 .. Len(trees),
         p.at \in {"read", "locked", "prepares", "writes"} => p.head \in 1 .. Len(trees)
  PROVE  /\ HistoryGrows /\ ReviewsTyped' /\ CommitsAreTheHolders'
         /\ passes'[c] = p /\ \A d \in CopyNames \ {c} : passes'[d] = passes[d]
<1>1. /\ trees \in Seq([AllPaths -> ReviewContents]) /\ Len(trees) > 0
      /\ copies \in [CopyNames -> [base : Nat, review : ReviewType]]
      /\ passes \in [CopyNames -> PassType] /\ moves \in Nat
  BY DEF ReviewsInv, ReviewsTyped
<1>2. HistoryGrows
  BY <1>1 DEF HistoryGrows
<1>3. passes'[c] = p /\ \A d \in CopyNames \ {c} : passes'[d] = passes[d]
  BY <1>1
<1>4. passes' \in [CopyNames -> PassType]
  BY <1>1
<1>5. ReviewsTyped'
  BY <1>1, <1>4 DEF ReviewsTyped
<1>6. PassNamesCommits(c)'
  BY <1>3 DEF PassNamesCommits, Spans
<1>7. \A d \in CopyNames : CopyNamesCommits(d)' /\ PassNamesCommits(d)'
  BY <1>2, <1>3, <1>6, KeepsCommits
<1> QED BY <1>2, <1>3, <1>5, <1>7 DEF CommitsAreTheHolders

(* Such a step that neither takes the lock nor begins to prepare.           *)
LEMMA PassQuietly ==
  ASSUME ReviewsInv, NEW c \in CopyNames, NEW p \in PassType,
         passes' = [passes EXCEPT ![c] = p], copies' = copies, trees' = trees,
         onDisk' \in [AllPaths -> ReviewContents], moves' = moves,
         p.at # "idle" => p.files \in [Spans(c) -> ReviewContents] /\ p.base \in 1 .. Len(trees),
         p.at \in {"read", "writes"} => p.head \in 1 .. Len(trees),
         p.at \notin {"locked", "prepares"},
         reviewLock' = reviewLock \/ reviewLock = c
  PROVE  ReviewsInv'
<1>1. /\ HistoryGrows /\ ReviewsTyped' /\ CommitsAreTheHolders'
      /\ passes'[c] = p /\ \A d \in CopyNames \ {c} : passes'[d] = passes[d]
  BY PassOnly
<1>2. \A d \in CopyNames \ {c} : reviewLock = d => reviewLock' = d
  OBVIOUS
<1>3. \A d \in CopyNames : copies'[d].review.names \subseteq copies[d].review.names
  OBVIOUS
<1>4. (\A d \in CopyNames : HoldsTheLock(d) /\ StillDisjoint(d))' /\ OneReviewPerPath'
  BY <1>1, <1>2, <1>3, KeepsApart
<1> QED BY <1>1, <1>4 DEF ReviewsInv

LEMMA PassOf ==
  ASSUME ReviewsInv, NEW c \in CopyNames
  PROVE  /\ passes[c] \in PassType /\ CopyNamesCommits(c) /\ PassNamesCommits(c)
         /\ copies[c].base \in Nat /\ copies[c].review \in ReviewType
         /\ Len(trees) \in Nat /\ Len(trees) > 0
         /\ onDisk \in [AllPaths -> ReviewContents]
         /\ \A i \in 1 .. Len(trees) : trees[i] \in [AllPaths -> ReviewContents]
  BY DEF ReviewsInv, ReviewsTyped, CommitsAreTheHolders

LEMMA FreshPass ==
  ASSUME ReviewsInv, NEW c \in CopyNames, NEW publishing \in BOOLEAN, NEW at \in {"collected", "sends"}
  PROVE  /\ Pass(c, at, publishing) \in PassType /\ Pass(c, at, publishing).at = at
         /\ Pass(c, at, publishing).files \in [Spans(c) -> ReviewContents]
         /\ Pass(c, at, publishing).base = copies[c].base /\ copies[c].base \in 1 .. Len(trees)
<1>1. onDisk \in [AllPaths -> ReviewContents] /\ copies[c].base \in Nat /\ copies[c].base \in 1 .. Len(trees)
  BY PassOf DEF CopyNamesCommits
<1>2. Under(c, onDisk) \in [Spans(c) -> ReviewContents] /\ Under(c, onDisk) \in PartOfFolder
  BY <1>1, UnderIsPart
<1> QED BY <1>1, <1>2 DEF Pass, PassType

LEMMA KeepsBeginRun ==
  ASSUME ReviewsInv, NEW c \in CopyNames, BeginRun(c)
  PROVE  ReviewsInv'
<1>1. PICK publishing \in BOOLEAN, at \in {"collected", "sends"} :
         passes' = [passes EXCEPT ![c] = Pass(c, at, publishing)]
  BY DEF BeginRun
<1>2. onDisk \in [AllPaths -> ReviewContents]
  BY PassOf
<1>3. /\ Pass(c, at, publishing) \in PassType /\ Pass(c, at, publishing).at = at
      /\ Pass(c, at, publishing).files \in [Spans(c) -> ReviewContents]
      /\ Pass(c, at, publishing).base \in 1 .. Len(trees)
  BY FreshPass
<1> QED BY <1>1, <1>2, <1>3, PassQuietly DEF BeginRun

LEMMA KeepsCompareHead ==
  ASSUME ReviewsInv, NEW c \in CopyNames, CompareHead(c)
  PROVE  ReviewsInv'
<1> DEFINE p == [passes[c] EXCEPT !.head = Newest, !.at = "read"]
<1>1. passes[c] \in PassType /\ passes[c].at = "collected" /\ PassNamesCommits(c)
  BY PassOf DEF CompareHead
<1>2. Newest \in 1 .. Len(trees) /\ Newest \in Nat /\ onDisk \in [AllPaths -> ReviewContents]
  BY PassOf DEF Newest
<1>3. passes \in [CopyNames -> PassType]
  BY DEF ReviewsInv, ReviewsTyped
<1>4. p \in PassType /\ p.at = "read" /\ p.head = Newest /\ p.files = passes[c].files /\ p.base = passes[c].base
  BY <1>1, <1>2 DEF PassType
<1>5. p.files \in [Spans(c) -> ReviewContents] /\ p.base \in 1 .. Len(trees)
  BY <1>1, <1>4 DEF PassNamesCommits
<1>6. passes' = [passes EXCEPT ![c] = p]
  BY <1>3 DEF CompareHead
<1> HIDE DEF p
<1> QED BY <1>2, <1>4, <1>5, <1>6, PassQuietly DEF CompareHead

(* A pass that goes on to a step at which it takes nothing.                 *)
LEMMA GoesQuietly ==
  ASSUME ReviewsInv, NEW c \in CopyNames, NEW at \in {"writes", "sends"}, Goes(c, at),
         passes[c].at \in {"read", "locked"}, copies' = copies, trees' = trees,
         onDisk' = onDisk, moves' = moves, reviewLock' = reviewLock
  PROVE  ReviewsInv'
<1> DEFINE p == [passes[c] EXCEPT !.at = at]
<1>1. passes[c] \in PassType /\ PassNamesCommits(c) /\ onDisk \in [AllPaths -> ReviewContents]
  BY PassOf
<1>2. passes \in [CopyNames -> PassType]
  BY DEF ReviewsInv, ReviewsTyped
<1>3. p \in PassType /\ p.at = at /\ p.head = passes[c].head /\ p.files = passes[c].files /\ p.base = passes[c].base
  BY <1>1 DEF PassType
<1>4. /\ p.files \in [Spans(c) -> ReviewContents] /\ p.base \in 1 .. Len(trees)
      /\ p.head \in 1 .. Len(trees)
  BY <1>1, <1>3 DEF PassNamesCommits
<1>5. passes' = [passes EXCEPT ![c] = p]
  BY <1>2 DEF Goes
<1> HIDE DEF p
<1> QED BY <1>1, <1>3, <1>4, <1>5, PassQuietly

LEMMA EndsQuietly ==
  ASSUME ReviewsInv, NEW c \in CopyNames, EndPass(c), copies' = copies, trees' = trees,
         onDisk' = onDisk, moves' = moves, reviewLock' = reviewLock \/ reviewLock = c
  PROVE  ReviewsInv'
<1>1. onDisk \in [AllPaths -> ReviewContents]
  BY PassOf
<1>2. NoPass.at = "idle"
  BY DEF NoPass
<1> QED BY <1>1, <1>2, NoPassTyped, PassQuietly DEF EndPass

LEMMA KeepsAtBase ==
  ASSUME ReviewsInv, NEW c \in CopyNames, AtBase(c)
  PROVE  ReviewsInv'
<1>1. CASE passes[c].publishing
  BY <1>1, GoesQuietly DEF AtBase
<1>2. CASE ~passes[c].publishing
  BY <1>2, EndsQuietly DEF AtBase
<1> QED BY <1>1, <1>2

LEMMA KeepsPrepareNoReview ==
  ASSUME ReviewsInv, NEW c \in CopyNames, PrepareNoReview(c)
  PROVE  ReviewsInv'
  BY GoesQuietly DEF PrepareNoReview, PastBase

LEMMA KeepsKilled ==
  ASSUME ReviewsInv, NEW c \in CopyNames, Killed(c)
  PROVE  ReviewsInv'
  BY EndsQuietly DEF Killed

(* Taking the lock, reading the others' resolutions, writing one's own.     *)
LEMMA KeepsTakeReviewLock ==
  ASSUME ReviewsInv, ReviewsAssumption, NEW c \in CopyNames, TakeReviewLock(c)
  PROVE  ReviewsInv'
<1> DEFINE p == [passes[c] EXCEPT !.at = "locked"]
<1>1. passes[c] \in PassType /\ PassNamesCommits(c) /\ onDisk \in [AllPaths -> ReviewContents] /\ passes[c].at = "read"
  BY PassOf DEF TakeReviewLock, PastBase
<1>2. passes \in [CopyNames -> PassType]
  BY DEF ReviewsInv, ReviewsTyped
<1>3. p \in PassType /\ p.at = "locked" /\ p.head = passes[c].head /\ p.files = passes[c].files /\ p.base = passes[c].base
  BY <1>1 DEF PassType
<1>4. /\ p.files \in [Spans(c) -> ReviewContents] /\ p.base \in 1 .. Len(trees)
      /\ p.head \in 1 .. Len(trees)
  BY <1>1, <1>3 DEF PassNamesCommits
<1>5. passes' = [passes EXCEPT ![c] = p] /\ copies' = copies /\ trees' = trees /\ onDisk' = onDisk /\ moves' = moves
  BY <1>2 DEF TakeReviewLock, Goes
<1>6. reviewLock = Unheld /\ reviewLock' = c
  BY DEF TakeReviewLock
<1> HIDE DEF p
<1>7. /\ HistoryGrows /\ ReviewsTyped' /\ CommitsAreTheHolders'
      /\ passes'[c] = p /\ \A d \in CopyNames \ {c} : passes'[d] = passes[d]
  BY <1>1, <1>3, <1>4, <1>5, PassOnly
<1>8. ASSUME NEW d \in CopyNames \ {c}
      PROVE  passes'[d].at \notin {"locked", "prepares"}
  <2>1. reviewLock # d
    BY <1>6, <1>8 DEF ReviewsAssumption
  <2> QED BY <1>7, <1>8, <2>1 DEF ReviewsInv, HoldsTheLock
<1>9. \A d \in CopyNames : HoldsTheLock(d)' /\ StillDisjoint(d)'
  BY <1>3, <1>6, <1>7, <1>8 DEF HoldsTheLock, StillDisjoint
<1>10. OneReviewPerPath'
  BY <1>5 DEF ReviewsInv, OneReviewPerPath
<1> QED BY <1>7, <1>9, <1>10 DEF ReviewsInv

LEMMA KeepsReadElsewhere ==
  ASSUME ReviewsInv, NEW c \in CopyNames, ReadElsewhere(c)
  PROVE  ReviewsInv'
<1> DEFINE ours == Brought(c) \cup copies[c].review.names
<1>0. passes[c].at = "locked" /\ reviewLock = c
  BY DEF ReadElsewhere, ReviewsInv, HoldsTheLock
<1>1. CASE ~HoldsNone(c, ours)
  BY <1>0, <1>1, EndsQuietly DEF ReadElsewhere
<1>2. CASE HoldsNone(c, ours)
  <2> DEFINE p == [passes[c] EXCEPT !.at = "prepares"]
  <2>1. passes[c] \in PassType /\ PassNamesCommits(c) /\ onDisk \in [AllPaths -> ReviewContents]
    BY PassOf
  <2>2. passes \in [CopyNames -> PassType]
    BY DEF ReviewsInv, ReviewsTyped
  <2>3. p \in PassType /\ p.at = "prepares" /\ p.head = passes[c].head /\ p.files = passes[c].files /\ p.base = passes[c].base
    BY <2>1 DEF PassType
  <2>4. /\ p.files \in [Spans(c) -> ReviewContents] /\ p.base \in 1 .. Len(trees)
        /\ p.head \in 1 .. Len(trees)
    BY <1>0, <2>1, <2>3 DEF PassNamesCommits
  <2>5. /\ passes' = [passes EXCEPT ![c] = p] /\ copies' = copies /\ trees' = trees
        /\ onDisk' = onDisk /\ moves' = moves /\ reviewLock' = reviewLock
    BY <1>2, <2>2 DEF ReadElsewhere, Goes
  <2> HIDE DEF p
  <2>6. /\ HistoryGrows /\ ReviewsTyped' /\ CommitsAreTheHolders'
        /\ passes'[c] = p /\ \A d \in CopyNames \ {c} : passes'[d] = passes[d]
    BY <2>1, <2>3, <2>4, <2>5, PassOnly
  <2>7. StillDisjoint(c)'
    <3>1. Brought(c)' = Brought(c)
      BY <2>3, <2>5, <2>6 DEF Brought, Local, Remote, Agreed, Spans
    <3>2. \A d \in CopyNames \ {c} : copies[d].review.names \cap ours = {}
      BY <1>2 DEF HoldsNone, Named
    <3> QED BY <2>5, <3>1, <3>2 DEF StillDisjoint
  <2>8. ASSUME NEW d \in CopyNames \ {c}
        PROVE  HoldsTheLock(d)' /\ StillDisjoint(d)'
    <3>1. passes'[d] = passes[d] /\ passes[d].at \notin {"locked", "prepares"}
      BY <1>0, <2>6, <2>8 DEF ReviewsInv, HoldsTheLock
    <3> QED BY <3>1 DEF HoldsTheLock, StillDisjoint
  <2>9. HoldsTheLock(c)'
    BY <1>0, <2>5 DEF HoldsTheLock
  <2>10. OneReviewPerPath'
    BY <2>5 DEF ReviewsInv, OneReviewPerPath
  <2> QED BY <2>6, <2>7, <2>8, <2>9, <2>10 DEF ReviewsInv
<1> QED BY <1>1, <1>2

(* A step that changes one copy's record and pass.                          *)
LEMMA CopyAndPass ==
  ASSUME ReviewsInv, HistoryGrows, NEW c \in CopyNames, NEW p \in PassType, NEW r \in ReviewType,
         NEW b \in 1 .. Len(trees'),
         passes' = [passes EXCEPT ![c] = p], copies' = [copies EXCEPT ![c] = [base |-> b, review |-> r]],
         onDisk' \in [AllPaths -> ReviewContents], moves' = moves,
         r # NoReview => r.head \in 1 .. Len(trees'),
         p.at # "idle" => p.files \in [Spans(c) -> ReviewContents] /\ p.base \in 1 .. Len(trees'),
         p.at = "writes" => p.head \in 1 .. Len(trees'),
         p.at \notin {"read", "locked", "prepares"}
  PROVE  /\ ReviewsTyped' /\ CommitsAreTheHolders'
         /\ passes'[c] = p /\ \A d \in CopyNames \ {c} : passes'[d] = passes[d]
         /\ copies'[c].review = r /\ \A d \in CopyNames \ {c} : copies'[d] = copies[d]
<1>1. /\ copies \in [CopyNames -> [base : Nat, review : ReviewType]]
      /\ passes \in [CopyNames -> PassType] /\ moves \in Nat /\ Len(trees) > 0 /\ Len(trees) \in Nat
  BY DEF ReviewsInv, ReviewsTyped
<1>2. trees' \in Seq([AllPaths -> ReviewContents]) /\ Len(trees') > 0 /\ Len(trees') \in Nat
  BY <1>1 DEF HistoryGrows
<1>3. passes'[c] = p /\ \A d \in CopyNames \ {c} : passes'[d] = passes[d]
  BY <1>1
<1>4. passes' \in [CopyNames -> PassType]
  BY <1>1
<1>5. [base |-> b, review |-> r] \in [base : Nat, review : ReviewType]
  BY <1>2
<1>6. copies' \in [CopyNames -> [base : Nat, review : ReviewType]]
  BY <1>1, <1>5
<1>7. /\ copies'[c].review = r /\ copies'[c].base = b
      /\ \A d \in CopyNames \ {c} : copies'[d] = copies[d]
  BY <1>1
<1>8. ReviewsTyped'
  BY <1>1, <1>2, <1>4, <1>6 DEF ReviewsTyped
<1>9. PassNamesCommits(c)'
  BY <1>3 DEF PassNamesCommits, Spans
<1>10. CopyNamesCommits(c)'
  BY <1>7 DEF CopyNamesCommits, Reviewing
<1>11. \A d \in CopyNames \ {c} : CopyNamesCommits(d)' /\ PassNamesCommits(d)'
  BY <1>3, <1>7, KeepsCommits
<1> QED BY <1>3, <1>7, <1>8, <1>9, <1>10, <1>11 DEF CommitsAreTheHolders

LEMMA KeepsWriteReview ==
  ASSUME ReviewsInv, NEW c \in CopyNames, WriteReview(c)
  PROVE  ReviewsInv'
<1> DEFINE was == copies[c].review
           r1 == [was EXCEPT !.names = @ \cup Brought(c)]
           r2 == [r1 EXCEPT !.collided = @ \cup Collisions(c)]
           r3 == [r2 EXCEPT !.head = passes[c].head]
           r4 == [r3 EXCEPT !.pending = TRUE]
           r5 == [r4 EXCEPT !.accepted = <<>>]
           laid == PutOver(was.prior, [p \in Rewritten(c) |-> passes[c].files[p]])
           r == [r5 EXCEPT !.prior = laid]
           p == [passes[c] EXCEPT !.at = "writes"]
<1>1. /\ passes[c] \in PassType /\ passes[c].at = "prepares" /\ PassNamesCommits(c) /\ CopyNamesCommits(c)
      /\ was \in ReviewType /\ Len(trees) \in Nat /\ onDisk \in [AllPaths -> ReviewContents]
  BY PassOf DEF WriteReview
<1>2. /\ passes[c].files \in [Spans(c) -> ReviewContents] /\ passes[c].base \in 1 .. Len(trees)
      /\ passes[c].head \in 1 .. Len(trees)
  BY <1>1 DEF PassNamesCommits
<1>3. /\ Spans(c) \in SUBSET AllPaths
  BY DEF Spans, AllPaths
<1>4. /\ Brought(c) \in SUBSET AllPaths /\ Collisions(c) \in SUBSET AllPaths
      /\ Rewritten(c) \in SUBSET Spans(c)
  BY <1>3 DEF Brought, Collisions, Rewritten, Local, Remote
<1>5. laid \in PartOfFolder
  <2>1. [q \in Rewritten(c) |-> passes[c].files[q]] \in [Rewritten(c) -> ReviewContents]
    BY <1>2, <1>4
  <2>2. [q \in Rewritten(c) |-> passes[c].files[q]] \in PartOfFolder
    BY <1>3, <1>4, <2>1 DEF PartOfFolder
  <2>3. was.prior \in PartOfFolder
    BY <1>1 DEF ReviewType
  <2> QED BY <2>2, <2>3, LaidOverPart
<1> HIDE DEF laid
<1>6. r1 \in ReviewType /\ r1.names = was.names \cup Brought(c)
  BY <1>1, <1>4 DEF ReviewType
<1> HIDE DEF r1
<1>7. r2 \in ReviewType /\ r2.names = r1.names
  BY <1>4, <1>6 DEF ReviewType
<1> HIDE DEF r2
<1>8. r3 \in ReviewType /\ r3.names = r1.names /\ r3.head = passes[c].head
  BY <1>1, <1>2, <1>7 DEF ReviewType
<1> HIDE DEF r3
<1>81. r4 \in ReviewType /\ r4.names = r1.names /\ r4.head = passes[c].head
  BY <1>8 DEF ReviewType
<1> HIDE DEF r4
<1>82. r5 \in ReviewType /\ r5.names = r1.names /\ r5.head = passes[c].head
  BY <1>81, NoneIsPart DEF ReviewType
<1> HIDE DEF r5
<1>9. r \in ReviewType /\ r.names = was.names \cup Brought(c) /\ r.head = passes[c].head
  BY <1>5, <1>6, <1>82 DEF ReviewType
<1>10. r = ReviewPrepared(c)
  BY <1>1 DEF r1, r2, r3, r4, r5, laid, ReviewType, ReviewPrepared
<1> HIDE DEF r
<1>11. p \in PassType /\ p.at = "writes" /\ p.files = passes[c].files /\ p.base = passes[c].base /\ p.head = passes[c].head
  BY <1>1 DEF PassType
<1>12. /\ passes \in [CopyNames -> PassType] /\ copies \in [CopyNames -> [base : Nat, review : ReviewType]]
  BY DEF ReviewsInv, ReviewsTyped
<1>13. passes' = [passes EXCEPT ![c] = p]
  BY <1>12 DEF WriteReview, Goes
<1>14. copies' = [copies EXCEPT ![c].review = r]
  BY <1>10 DEF WriteReview
<1>15. copies' = [copies EXCEPT ![c] = [base |-> copies[c].base, review |-> r]]
  <2>1. copies[c] = [base |-> copies[c].base, review |-> copies[c].review]
    BY <1>12
  <2>2. copies' = [copies EXCEPT ![c] = [copies[c] EXCEPT !.review = r]]
    BY <1>14
  <2>3. [copies[c] EXCEPT !.review = r] = [base |-> copies[c].base, review |-> r]
    BY <1>12
  <2> QED BY <2>2, <2>3
<1>16. trees' = trees /\ onDisk' = onDisk /\ moves' = moves /\ reviewLock = c
  BY <1>1 DEF WriteReview, ReviewsInv, HoldsTheLock
<1>17. HistoryGrows
  BY <1>16 DEF ReviewsInv, ReviewsTyped, HistoryGrows
<1>18. copies[c].base \in 1 .. Len(trees')
  BY <1>1, <1>16 DEF CopyNamesCommits
<1> HIDE DEF p
<1>19. /\ ReviewsTyped' /\ CommitsAreTheHolders'
       /\ passes'[c] = p /\ \A d \in CopyNames \ {c} : passes'[d] = passes[d]
       /\ copies'[c].review = r /\ \A d \in CopyNames \ {c} : copies'[d] = copies[d]
  BY <1>1, <1>2, <1>9, <1>11, <1>13, <1>15, <1>16, <1>17, <1>18, CopyAndPass
<1>20. \A d \in CopyNames \ {c} : passes[d].at \notin {"locked", "prepares"}
  BY <1>16 DEF ReviewsInv, HoldsTheLock
<1>21. \A d \in CopyNames : HoldsTheLock(d)' /\ StillDisjoint(d)'
  BY <1>11, <1>19, <1>20 DEF HoldsTheLock, StillDisjoint
<1>22. OneReviewPerPath'
  <2>1. \A d \in CopyNames \ {c} : copies[d].review.names \cap (Brought(c) \cup was.names) = {}
    BY <1>1 DEF ReviewsInv, StillDisjoint
  <2>2. \A d \in CopyNames \ {c} : copies'[d].review.names \cap copies'[c].review.names = {}
    BY <1>9, <1>19, <2>1
  <2>3. \A d, e \in CopyNames \ {c} : d # e => copies'[d].review.names \cap copies'[e].review.names = {}
    BY <1>19 DEF ReviewsInv, OneReviewPerPath
  <2> QED BY <2>2, <2>3 DEF OneReviewPerPath
<1> QED BY <1>19, <1>21, <1>22 DEF ReviewsInv

(* A step of one copy after its preparation, that names no further path.    *)
LEMMA CopyQuietly ==
  ASSUME ReviewsInv, HistoryGrows, NEW c \in CopyNames, NEW p \in PassType, NEW r \in ReviewType,
         NEW b \in 1 .. Len(trees'),
         passes' = [passes EXCEPT ![c] = p], copies' = [copies EXCEPT ![c] = [base |-> b, review |-> r]],
         onDisk' \in [AllPaths -> ReviewContents], moves' = moves, reviewLock' = reviewLock,
         r # NoReview => r.head \in 1 .. Len(trees'),
         r.names \subseteq copies[c].review.names,
         p.at # "idle" => p.files \in [Spans(c) -> ReviewContents] /\ p.base \in 1 .. Len(trees'),
         p.at \notin {"read", "locked", "prepares", "writes"}
  PROVE  ReviewsInv'
<1>1. /\ ReviewsTyped' /\ CommitsAreTheHolders'
      /\ passes'[c] = p /\ \A d \in CopyNames \ {c} : passes'[d] = passes[d]
      /\ copies'[c].review = r /\ \A d \in CopyNames \ {c} : copies'[d] = copies[d]
  BY CopyAndPass
<1>2. \A d \in CopyNames : copies'[d].review.names \subseteq copies[d].review.names
  BY <1>1
<1>3. (\A d \in CopyNames : HoldsTheLock(d) /\ StillDisjoint(d))' /\ OneReviewPerPath'
  BY <1>1, <1>2, KeepsApart
<1> QED BY <1>1, <1>3 DEF ReviewsInv

LEMMA SetsReview ==
  ASSUME ReviewsInv, NEW c \in CopyNames, NEW r, copies' = [copies EXCEPT ![c].review = r]
  PROVE  copies' = [copies EXCEPT ![c] = [base |-> copies[c].base, review |-> r]]
<1>1. copies \in [CopyNames -> [base : Nat, review : ReviewType]]
  BY DEF ReviewsInv, ReviewsTyped
<1>2. copies' = [copies EXCEPT ![c] = [copies[c] EXCEPT !.review = r]]
  OBVIOUS
<1>3. [copies[c] EXCEPT !.review = r] = [base |-> copies[c].base, review |-> r]
  BY <1>1
<1> QED BY <1>2, <1>3

LEMMA KeepsWriteFolder ==
  ASSUME ReviewsInv, NEW c \in CopyNames, WriteFolder(c)
  PROVE  ReviewsInv'
<1> DEFINE met == {q \in Rewritten(c) : onDisk[q] = passes[c].files[q]}
<1>1. /\ passes[c] \in PassType /\ passes[c].at = "writes" /\ PassNamesCommits(c) /\ CopyNamesCommits(c)
      /\ copies[c].review \in ReviewType /\ onDisk \in [AllPaths -> ReviewContents]
      /\ \A i \in 1 .. Len(trees) : trees[i] \in [AllPaths -> ReviewContents]
      /\ Len(trees) \in Nat
  BY PassOf DEF WriteFolder
<1>2. passes[c].base \in 1 .. Len(trees) /\ passes[c].head \in 1 .. Len(trees)
  BY <1>1 DEF PassNamesCommits
<1>3. /\ onDisk' = [p \in AllPaths |-> IF p \in met THEN Aim(c, p) ELSE onDisk[p]]
      /\ trees' = trees /\ reviewLock' = reviewLock /\ moves' = moves
  BY DEF WriteFolder
<1>4. onDisk' \in [AllPaths -> ReviewContents]
  <2>1. \A p \in AllPaths : Aim(c, p) \in ReviewContents
    BY <1>1, <1>2 DEF Aim, ReviewContents
  <2> QED BY <1>1, <1>3, <2>1
<1>5. /\ passes \in [CopyNames -> PassType] /\ copies \in [CopyNames -> [base : Nat, review : ReviewType]]
  BY DEF ReviewsInv, ReviewsTyped
<1>6. CASE met # Rewritten(c)
  <2> DEFINE p == [passes[c] EXCEPT !.at = "collected", !.files = Under(c, onDisk')]
  <2>1. passes' = [passes EXCEPT ![c] = p] /\ copies' = copies
    BY <1>5, <1>6 DEF WriteFolder
  <2>2. Under(c, onDisk') \in [Spans(c) -> ReviewContents] /\ Under(c, onDisk') \in PartOfFolder
    BY <1>4, UnderIsPart
  <2>3. p \in PassType /\ p.at = "collected" /\ p.base = passes[c].base /\ p.files = Under(c, onDisk')
    BY <1>1, <2>2 DEF PassType
  <2> HIDE DEF p
  <2> QED BY <1>2, <1>3, <1>4, <2>1, <2>2, <2>3, PassQuietly
<1>7. CASE met = Rewritten(c)
  <2>1. passes' = [passes EXCEPT ![c] = NoPass] /\ NoPass \in PassType /\ NoPass.at = "idle"
    BY <1>7, NoPassTyped DEF WriteFolder, EndPass, NoPass
  <2>2. HistoryGrows
    BY <1>3 DEF ReviewsInv, ReviewsTyped, HistoryGrows
  <2>3. CASE Reviewing(c)
    <3> DEFINE r == [copies[c].review EXCEPT !.pending = FALSE]
    <3>1. copies' = [copies EXCEPT ![c].review = r]
      BY <1>7, <2>3 DEF WriteFolder, ReviewWritten
    <3>2. copies' = [copies EXCEPT ![c] = [base |-> copies[c].base, review |-> r]]
      BY <3>1, SetsReview
    <3>3. r \in ReviewType /\ r.names = copies[c].review.names /\ r.head = copies[c].review.head
      BY <1>1 DEF ReviewType
    <3>4. r.head \in 1 .. Len(trees') /\ copies[c].base \in 1 .. Len(trees')
      BY <1>1, <1>3, <2>3, <3>3 DEF CopyNamesCommits
    <3> HIDE DEF r
    <3> QED BY <1>3, <1>4, <2>1, <2>2, <3>2, <3>3, <3>4, CopyQuietly
  <2>4. CASE ~Reviewing(c)
    <3>1. copies' = [copies EXCEPT ![c].base = passes[c].head]
      BY <1>7, <2>4 DEF WriteFolder
    <3>2. copies' = [copies EXCEPT ![c] = [base |-> passes[c].head, review |-> copies[c].review]]
      <4>1. copies[c] \in [base : Nat, review : ReviewType]
        BY <1>5
      <4>2. [copies[c] EXCEPT !.base = passes[c].head] = [base |-> passes[c].head, review |-> copies[c].review]
        BY <4>1
      <4> QED BY <3>1, <4>2
    <3>3. copies[c].review = NoReview /\ passes[c].head \in 1 .. Len(trees')
      BY <1>2, <1>3, <2>4 DEF Reviewing
    <3> QED BY <1>1, <1>3, <1>4, <2>1, <2>2, <3>2, <3>3, CopyQuietly
  <2> QED BY <2>3, <2>4
<1> QED BY <1>6, <1>7

LEMMA KeepsContinueReview ==
  ASSUME ReviewsInv, NEW c \in CopyNames, ContinueReview(c)
  PROVE  ReviewsInv'
<1> DEFINE p == Pass(c, "sends", TRUE)
           r == [copies[c].review EXCEPT !.accepted = Under(c, onDisk)]
<1>1. /\ CopyNamesCommits(c) /\ copies[c].review \in ReviewType
      /\ onDisk \in [AllPaths -> ReviewContents] /\ Reviewing(c)
  BY PassOf DEF ContinueReview
<1>3. /\ passes' = [passes EXCEPT ![c] = p] /\ copies' = [copies EXCEPT ![c].review = r]
      /\ trees' = trees /\ onDisk' = onDisk /\ moves' = moves /\ reviewLock' = reviewLock
  BY DEF ContinueReview, ReviewAccepted
<1>4. /\ p \in PassType /\ p.at = "sends" /\ p.files \in [Spans(c) -> ReviewContents]
      /\ p.base \in 1 .. Len(trees')
  BY <1>3, FreshPass
<1>5. Under(c, onDisk) \in PartOfFolder
  BY <1>1, UnderIsPart
<1>6. r \in ReviewType /\ r.names = copies[c].review.names /\ r.head = copies[c].review.head
  BY <1>1, <1>5 DEF ReviewType
<1>7. copies' = [copies EXCEPT ![c] = [base |-> copies[c].base, review |-> r]]
  BY <1>3, SetsReview
<1>8. r.head \in 1 .. Len(trees') /\ copies[c].base \in 1 .. Len(trees')
  BY <1>1, <1>3, <1>6 DEF CopyNamesCommits
<1>9. HistoryGrows
  BY <1>3 DEF ReviewsInv, ReviewsTyped, HistoryGrows
<1> HIDE DEF p, r
<1> QED BY <1>1, <1>3, <1>4, <1>6, <1>7, <1>8, <1>9, CopyQuietly

LEMMA KeepsHandBack ==
  ASSUME ReviewsInv, NEW c \in CopyNames, HandBack(c)
  PROVE  ReviewsInv'
<1> DEFINE was == copies[c].review
           changed == {p \in Spans(c) : was.accepted[p] # passes[c].files[p]}
<1>1. CASE copies' = copies
  BY <1>1, EndsQuietly DEF HandBack
<1>2. CASE copies' = [copies EXCEPT ![c].review = ReviewRaised(c, changed)]
  <2> DEFINE r1 == [was EXCEPT !.raised = @ \cup changed]
             r == [r1 EXCEPT !.accepted = <<>>]
  <2>1. /\ CopyNamesCommits(c) /\ was \in ReviewType
        /\ onDisk \in [AllPaths -> ReviewContents] /\ Reviewing(c)
    BY PassOf DEF HandBack
  <2>3. changed \in SUBSET AllPaths
    BY DEF Spans, AllPaths
  <2> HIDE DEF changed
  <2>4. r1 \in ReviewType /\ r1.names = was.names /\ r1.head = was.head
    BY <2>1, <2>3 DEF ReviewType
  <2>5. ReviewRaised(c, changed) = r
    BY <2>1 DEF ReviewRaised, ReviewType
  <2>6. copies' = [copies EXCEPT ![c] = [base |-> copies[c].base, review |-> r]]
    BY <1>2, <2>5, SetsReview
  <2> HIDE DEF r1
  <2>7. r \in ReviewType /\ r.names = was.names /\ r.head = was.head
    BY <2>4, NoneIsPart DEF ReviewType
  <2>8. /\ passes' = [passes EXCEPT ![c] = NoPass]
        /\ trees' = trees /\ onDisk' = onDisk /\ moves' = moves /\ reviewLock' = reviewLock
    BY DEF HandBack, EndPass
  <2>9. r.head \in 1 .. Len(trees') /\ copies[c].base \in 1 .. Len(trees')
    BY <2>1, <2>7, <2>8 DEF CopyNamesCommits
  <2>10. HistoryGrows
    BY <2>8 DEF ReviewsInv, ReviewsTyped, HistoryGrows
  <2>11. NoPass.at = "idle"
    BY DEF NoPass
  <2> HIDE DEF r
  <2> QED BY <2>1, <2>6, <2>7, <2>8, <2>9, <2>10, <2>11, NoPassTyped, CopyQuietly
<1> QED BY <1>1, <1>2 DEF HandBack, Refusals

LEMMA KeepsSend ==
  ASSUME ReviewsInv, NEW c \in CopyNames, Send(c)
  PROVE  ReviewsInv'
<1> DEFINE review == copies[c].review
           parent == IF Reviewing(c) THEN review.head ELSE copies[c].base
           sent == [p \in AllPaths |-> IF p \in Spans(c) THEN passes[c].files[p] ELSE trees[Newest][p]]
<1>1. /\ CopyNamesCommits(c) /\ PassNamesCommits(c) /\ passes[c].at = "sends" /\ review \in ReviewType
      /\ Len(trees) \in Nat /\ Len(trees) > 0 /\ onDisk \in [AllPaths -> ReviewContents]
      /\ \A i \in 1 .. Len(trees) : trees[i] \in [AllPaths -> ReviewContents]
  BY PassOf DEF Send
<1>2. onDisk' = onDisk /\ moves' = moves /\ reviewLock' = reviewLock
  BY DEF Send
<1>3. sent \in [AllPaths -> ReviewContents]
  <2>1. passes[c].files \in [Spans(c) -> ReviewContents] /\ trees[Newest] \in [AllPaths -> ReviewContents]
    BY <1>1 DEF PassNamesCommits, Newest
  <2> QED BY <2>1
<1>4. CASE parent = Newest
  <2>1. /\ trees' = trees \/ trees' = Append(trees, sent)
        /\ copies' = [copies EXCEPT ![c] = [base |-> Len(trees'), review |-> NoReview]]
        /\ passes' = [passes EXCEPT ![c] = NoPass]
    BY <1>4 DEF Send, EndPass
  <2> HIDE DEF sent
  <2>2. HistoryGrows
    BY <1>3, <2>1, AppendGrows DEF ReviewsInv
  <2>3. Len(trees') \in 1 .. Len(trees')
    BY <1>1, <2>2 DEF HistoryGrows
  <2>4. NoPass.at = "idle" /\ NoReview.names = {}
    BY DEF NoPass, NoReview
  <2> QED BY <1>1, <1>2, <2>1, <2>2, <2>3, <2>4, NoPassTyped, NoReviewTyped, CopyQuietly
<1>5. CASE parent # Newest
  <2> DEFINE fresh == Pass(c, "collected", TRUE)
             p == [fresh EXCEPT !.base = parent]
             r == [copies[c].review EXCEPT !.accepted = <<>>]
  <2>1. /\ trees' = trees /\ copies' = [copies EXCEPT ![c].review = r]
        /\ passes' = [passes EXCEPT ![c] = p]
    BY <1>5 DEF Send, ReviewAccepted
  <2>2. parent \in 1 .. Len(trees)
    BY <1>1 DEF CopyNamesCommits
  <2>3. fresh \in PassType /\ fresh.at = "collected" /\ fresh.files \in [Spans(c) -> ReviewContents]
    BY FreshPass
  <2> HIDE DEF fresh, parent
  <2>4. p \in PassType /\ p.at = "collected" /\ p.files \in [Spans(c) -> ReviewContents] /\ p.base = parent
    BY <1>1, <2>2, <2>3 DEF PassType
  <2>5. r \in ReviewType /\ r.names = copies[c].review.names /\ r.head = copies[c].review.head
    BY <1>1, NoneIsPart DEF ReviewType
  <2>6. r # NoReview => r.head \in 1 .. Len(trees)
    <3>1. CASE Reviewing(c)
      BY <1>1, <2>5, <3>1 DEF CopyNamesCommits
    <3>2. CASE ~Reviewing(c)
      BY <3>2 DEF Reviewing, NoReview
    <3> QED BY <3>1, <3>2
  <2>7. copies' = [copies EXCEPT ![c] = [base |-> copies[c].base, review |-> r]]
    BY <2>1, SetsReview
  <2>8. HistoryGrows
    BY <2>1 DEF ReviewsInv, ReviewsTyped, HistoryGrows
  <2>9. copies[c].base \in 1 .. Len(trees')
    BY <1>1, <2>1 DEF CopyNamesCommits
  <2> HIDE DEF p, r
  <2> QED BY <1>1, <1>2, <2>1, <2>2, <2>4, <2>5, <2>6, <2>7, <2>8, <2>9, CopyQuietly
<1> QED BY <1>4, <1>5

LEMMA KeepsDiscardReview ==
  ASSUME ReviewsInv, NEW c \in CopyNames, DiscardReview(c)
  PROVE  ReviewsInv'
<1>1. /\ CopyNamesCommits(c) /\ copies[c].review \in ReviewType /\ onDisk \in [AllPaths -> ReviewContents]
      /\ passes[c] = NoPass
  BY PassOf DEF DiscardReview
<1>2. /\ trees' = trees /\ moves' = moves /\ reviewLock' = reviewLock /\ passes' = passes
      /\ copies' = [copies EXCEPT ![c] = [base |-> copies[c].base, review |-> NoReview]]
  BY SetsReview DEF DiscardReview
<1>3. onDisk' \in [AllPaths -> ReviewContents]
  <2>1. copies[c].review.prior \in PartOfFolder
    BY <1>1 DEF ReviewType
  <2> QED BY <1>1, <2>1, LaidOverFolder DEF DiscardReview
<1>4. passes' = [passes EXCEPT ![c] = NoPass]
  BY <1>1, <1>2 DEF ReviewsInv, ReviewsTyped
<1>5. HistoryGrows
  BY <1>2 DEF ReviewsInv, ReviewsTyped, HistoryGrows
<1>6. NoPass.at = "idle" /\ NoReview.names = {}
  BY DEF NoPass, NoReview
<1>7. copies[c].base \in 1 .. Len(trees')
  BY <1>1, <1>2 DEF CopyNamesCommits
<1> QED BY <1>2, <1>3, <1>4, <1>5, <1>6, <1>7, NoPassTyped, NoReviewTyped, CopyQuietly

(* An edit of the person and a commit of another writer change no copy.     *)
LEMMA KeepsOutside ==
  ASSUME ReviewsInv, HistoryGrows, onDisk' \in [AllPaths -> ReviewContents], moves' = moves + 1,
         copies' = copies, passes' = passes, reviewLock' = reviewLock
  PROVE  ReviewsInv'
<1>1. ReviewsTyped'
  <2>1. Len(trees) > 0 /\ Len(trees) \in Nat /\ Len(trees') \in Nat
    BY DEF ReviewsInv, ReviewsTyped, HistoryGrows
  <2> QED BY <2>1 DEF ReviewsInv, ReviewsTyped, HistoryGrows
<1>2. CommitsAreTheHolders'
  BY KeepsCommits DEF CommitsAreTheHolders
<1>3. (\A d \in CopyNames : HoldsTheLock(d) /\ StillDisjoint(d))' /\ OneReviewPerPath'
  <2>1. CASE CopyNames = {}
    BY <2>1 DEF OneReviewPerPath
  <2>2. ASSUME NEW c \in CopyNames
        PROVE  (\A d \in CopyNames : HoldsTheLock(d) /\ StillDisjoint(d))' /\ OneReviewPerPath'
    BY KeepsApart
  <2> QED BY <2>1, <2>2
<1> QED BY <1>1, <1>2, <1>3 DEF ReviewsInv

LEMMA KeepsPersonEdits == ReviewsInv /\ PersonEdits => ReviewsInv'
<1> SUFFICES ASSUME ReviewsInv, PersonEdits
             PROVE  ReviewsInv'
  OBVIOUS
<1>1. onDisk' \in [AllPaths -> ReviewContents]
  BY DEF PersonEdits, ReviewsInv, ReviewsTyped, ReviewContents
<1>2. HistoryGrows
  BY DEF PersonEdits, ReviewsInv, ReviewsTyped, HistoryGrows
<1> QED BY <1>1, <1>2, KeepsOutside DEF PersonEdits

LEMMA KeepsOthersMove == ReviewsInv /\ OthersMove => ReviewsInv'
<1> SUFFICES ASSUME ReviewsInv, OthersMove
             PROVE  ReviewsInv'
  OBVIOUS
<1>1. PICK p \in AllPaths, k \in Texts : trees' = Append(trees, [trees[Newest] EXCEPT ![p] = k])
  BY DEF OthersMove
<1>2. trees[Newest] \in [AllPaths -> ReviewContents] /\ onDisk \in [AllPaths -> ReviewContents]
  BY DEF ReviewsInv, ReviewsTyped, Newest
<1>3. [trees[Newest] EXCEPT ![p] = k] \in [AllPaths -> ReviewContents]
  BY <1>2 DEF ReviewContents
<1>4. HistoryGrows
  BY <1>1, <1>3, AppendGrows DEF ReviewsInv
<1> QED BY <1>2, <1>4, KeepsOutside DEF OthersMove

LEMMA ReviewsStep ==
  ASSUME ReviewsAssumption, ReviewsInv, [ReviewsNext]_reviewsVars
  PROVE  ReviewsInv'
<1>1. CASE UNCHANGED reviewsVars
  <2>1. /\ trees' = trees /\ onDisk' = onDisk /\ copies' = copies /\ reviewLock' = reviewLock
        /\ passes' = passes /\ moves' = moves
    BY <1>1 DEF reviewsVars
  <2>2. ReviewsTyped' /\ CommitsAreTheHolders' /\ OneReviewPerPath'
    BY <2>1 DEF ReviewsInv, ReviewsTyped, CommitsAreTheHolders, CopyNamesCommits, PassNamesCommits,
                Reviewing, OneReviewPerPath
  <2>3. (\A c \in CopyNames : HoldsTheLock(c) /\ StillDisjoint(c))'
    BY <2>1 DEF ReviewsInv, HoldsTheLock, StillDisjoint, Brought, Local, Remote, Agreed
  <2> QED BY <2>2, <2>3 DEF ReviewsInv
<1>2. ASSUME NEW c \in CopyNames,
             \/ BeginRun(c) \/ CompareHead(c) \/ AtBase(c) \/ TakeReviewLock(c) \/ ReadElsewhere(c)
             \/ WriteReview(c) \/ PrepareNoReview(c) \/ WriteFolder(c) \/ ContinueReview(c)
             \/ HandBack(c) \/ Send(c) \/ Killed(c) \/ DiscardReview(c)
      PROVE  ReviewsInv'
  <2>1. CASE BeginRun(c) \/ CompareHead(c) \/ AtBase(c)
    BY <2>1, KeepsBeginRun, KeepsCompareHead, KeepsAtBase
  <2>2. CASE TakeReviewLock(c) \/ ReadElsewhere(c) \/ WriteReview(c)
    BY <2>2, KeepsTakeReviewLock, KeepsReadElsewhere, KeepsWriteReview
  <2>3. CASE PrepareNoReview(c) \/ WriteFolder(c) \/ ContinueReview(c)
    BY <2>3, KeepsPrepareNoReview, KeepsWriteFolder, KeepsContinueReview
  <2>4. CASE HandBack(c) \/ Send(c) \/ Killed(c) \/ DiscardReview(c)
    BY <2>4, KeepsHandBack, KeepsSend, KeepsKilled, KeepsDiscardReview
  <2> QED BY <1>2, <2>1, <2>2, <2>3, <2>4
<1> QED BY <1>1, <1>2, KeepsPersonEdits, KeepsOthersMove DEF ReviewsNext

(* What every copy's record and pass hold, and that every commit they name  *)
(* is one the holder has (`resolution_elsewhere`, `publish_reviewed`).      *)
THEOREM ReviewsKeepTheirTypes == ReviewsSpec => [](ReviewsTyped /\ CommitsAreTheHolders)
<1>1. ReviewsInit => ReviewsInv
  BY ReviewsFirst
<1>2. ReviewsInv /\ [ReviewsNext]_reviewsVars => ReviewsInv'
  BY ReviewsStep, ReviewsAssumption
<1>3. ReviewsInv => ReviewsTyped /\ CommitsAreTheHolders
  BY DEF ReviewsInv
<1> QED BY <1>1, <1>2, <1>3, PTL DEF ReviewsSpec

(* No two copies over the same files ever hold a review prepared over one   *)
(* path (`review_lock` held from `resolution_elsewhere` to `save`).         *)
THEOREM ReviewsStandApart == ReviewsSpec => []OneReviewPerPath
<1>1. ReviewsInit => ReviewsInv
  BY ReviewsFirst
<1>2. ReviewsInv /\ [ReviewsNext]_reviewsVars => ReviewsInv'
  BY ReviewsStep, ReviewsAssumption
<1>3. ReviewsInv => OneReviewPerPath
  BY DEF ReviewsInv
<1> QED BY <1>1, <1>2, <1>3, PTL DEF ReviewsSpec

-----------------------------------------------------------------------------
(* Sharing.                                                                 *)

NamesOrNone == Names \cup {None}
Markers == [as : NamesOrNone, text : Nat]
Recordings == SUBSET Markers
HolderType == [versions : Seq(Markers), identity : NamesOrNone, shared : BOOLEAN, marked : BOOLEAN]
FolderType == [setting : {"alone", "checkout"}, marker : Markers, texts : Nat, edits : Nat]
BaseType == [at : Nat, marker : Markers, time : Nat]
VerbType ==
    [at : {"idle", "lookup", "send", "held", "again", "remove", "after", "carry", "newest",
           "compare", "ready", "replace", "lay_before", "lay_after"},
     kind : {"share", "mark", "unshare"}, name : NamesOrNone, asks : Nat, shared : BOOLEAN,
     entry : Nat, read : Markers, scope : Based, recorded : Recordings, left : Nat]
RunType == [at : {"idle", "open"}, copy : Based, left : Nat, clock : Nat]

SharingTyped ==
    /\ holder \in HolderType /\ Len(holder.versions) > 0
    /\ folder \in FolderType /\ entries \in [Based -> BaseType]
    /\ verb \in VerbType /\ run \in RunType

(* What a settling or a run may replace: the file of a version, or none.    *)
Held == {holder.versions[i] : i \in 1 .. Len(holder.versions)} \cup {NoText}
BasesHold(of) == \A c \in Based : of[c].marker \in Held
VerbHolds ==
    /\ verb.recorded \subseteq Held
    /\ verb.at \in {"compare", "ready", "replace", "lay_before", "lay_after"} =>
           verb.entry \in 1 .. Len(holder.versions)
SharingInv == SharingTyped /\ BasesHold(entries) /\ VerbHolds

LEMMA NoTextTyped == NoText \in Markers /\ NoText.as = None
  BY DEF NoText, Markers, NamesOrNone

(* The holder's versions are only added to.                                 *)
VersionsGrow ==
    /\ holder' \in HolderType /\ Len(holder'.versions) >= Len(holder.versions)
    /\ \A i \in 1 .. Len(holder.versions) : holder'.versions[i] = holder.versions[i]

LEMMA HeldGrows ==
  ASSUME SharingTyped, VersionsGrow
  PROVE  Held \subseteq Held' /\ Len(holder.versions) \in Nat /\ Len(holder'.versions) \in Nat
<1>1. Len(holder.versions) \in Nat
  BY DEF SharingTyped, HolderType
<1>2. Len(holder'.versions) \in Nat
  BY DEF VersionsGrow, HolderType
<1>3. \A i \in 1 .. Len(holder.versions) : i \in 1 .. Len(holder'.versions)
  BY <1>1, <1>2 DEF VersionsGrow
<1> QED BY <1>1, <1>2, <1>3 DEF VersionsGrow, Held

LEMMA SharingKept ==
  ASSUME SharingInv, VersionsGrow, folder' \in FolderType, entries' \in [Based -> BaseType],
         verb' \in VerbType, run' \in RunType,
         \A c \in Based : entries'[c].marker \in Held',
         verb'.recorded \subseteq Held',
         verb'.at \in {"compare", "ready", "replace", "lay_before", "lay_after"} =>
             verb'.entry \in 1 .. Len(holder'.versions)
  PROVE  SharingInv'
<1>1. Len(holder'.versions) > 0
  BY HeldGrows DEF SharingInv, SharingTyped, VersionsGrow
<1>2. SharingTyped'
  BY <1>1 DEF SharingTyped, VersionsGrow
<1>3. BasesHold(entries)' /\ VerbHolds'
  BY DEF BasesHold, VerbHolds
<1> QED BY <1>2, <1>3 DEF SharingInv

LEMMA HolderStands ==
  ASSUME SharingInv, holder' = holder
  PROVE  VersionsGrow
  BY DEF SharingInv, SharingTyped, VersionsGrow, HolderType

LEMMA TipTyped ==
  ASSUME SharingInv
  PROVE  Tip \in Markers /\ Tip \in Held
<1>1. holder.versions \in Seq(Markers) /\ Len(holder.versions) \in 1 .. Len(holder.versions)
  BY DEF SharingInv, SharingTyped, HolderType
<1> QED BY <1>1 DEF Tip, Last, Held

LEMMA VersionsSame ==
  ASSUME SharingInv, holder' \in HolderType, holder'.versions = holder.versions
  PROVE  VersionsGrow
  BY DEF SharingInv, SharingTyped, VersionsGrow, HolderType

(* What a commit of the identity file, with what else it changes, leaves.   *)
LEMMA CommitGrows ==
  ASSUME SharingInv, NEW m \in Markers, NEW h \in HolderType, holder' = h,
         h.versions = Append(holder.versions, m)
  PROVE  VersionsGrow /\ m \in Held'
<1>1. holder.versions \in Seq(Markers) /\ Len(holder.versions) \in Nat
  BY DEF SharingInv, SharingTyped, HolderType
<1>2. VersionsGrow
  BY <1>1 DEF VersionsGrow
<1>3. Len(holder'.versions) = Len(holder.versions) + 1 /\ holder'.versions[Len(holder.versions) + 1] = m
  BY <1>1
<1>4. Len(holder.versions) + 1 \in 1 .. Len(holder'.versions)
  BY <1>1, <1>3
<1>5. m \in Held'
  BY <1>3, <1>4 DEF Held
<1> QED BY <1>2, <1>5

LEMMA CommittedGrows ==
  ASSUME SharingInv, NEW m \in Markers
  PROVE  Committed(m) \in HolderType /\ Committed(m).versions = Append(holder.versions, m)
<1>1. holder \in HolderType /\ Append(holder.versions, m) \in Seq(Markers)
  BY DEF SharingInv, SharingTyped, HolderType
<1> QED BY <1>1 DEF Committed, HolderType

LEMMA MintedGrows ==
  ASSUME SharingInv, NEW name \in NamesOrNone, NEW marked \in BOOLEAN, holder' = Minted(name, marked)
  PROVE  VersionsGrow
<1> DEFINE m == [as |-> name, text |-> IF Tip = NoText THEN 1 ELSE Tip.text]
<1>1. m \in Markers
  BY TipTyped DEF Markers, NamesOrNone
<1> HIDE DEF m
<1>2. Committed(m) \in HolderType /\ Committed(m).versions = Append(holder.versions, m)
  BY <1>1, CommittedGrows
<1>3. holder' = [Committed(m) EXCEPT !.identity = name, !.shared = ~marked, !.marked = marked]
  BY DEF Minted, m
<1>4. holder' \in HolderType /\ holder'.versions = Append(holder.versions, m)
  BY <1>2, <1>3 DEF HolderType, NamesOrNone
<1> QED BY <1>1, <1>4, CommitGrows

LEMMA StoppedGrows ==
  ASSUME SharingInv, holder' = Stopped
  PROVE  VersionsGrow
<1>1. CASE holder.marked
  <2>1. holder \in HolderType /\ holder' = [holder EXCEPT !.shared = FALSE]
    BY <1>1 DEF Stopped, SharingInv, SharingTyped
  <2>2. holder' \in HolderType /\ holder'.versions = holder.versions
    BY <2>1 DEF HolderType
  <2> QED BY <2>2, VersionsSame
<1>2. CASE ~holder.marked
  <2> DEFINE m == [Tip EXCEPT !.as = None]
  <2>1. m \in Markers
    BY TipTyped DEF Markers, NamesOrNone
  <2> HIDE DEF m
  <2>2. Committed(m) \in HolderType /\ Committed(m).versions = Append(holder.versions, m)
    BY <2>1, CommittedGrows
  <2>3. holder' = [Committed(m) EXCEPT !.identity = None, !.shared = FALSE, !.marked = FALSE]
    BY <1>2 DEF Stopped, Retired, m
  <2>4. holder' \in HolderType /\ holder'.versions = Append(holder.versions, m)
    BY <2>2, <2>3 DEF HolderType, NamesOrNone
  <2> QED BY <2>1, <2>4, CommitGrows
<1> QED BY <1>1, <1>2

LEMMA MarkingGrows ==
  ASSUME SharingInv,
         \/ holder' = [holder EXCEPT !.marked = TRUE]
         \/ holder' = [holder EXCEPT !.shared = TRUE]
  PROVE  VersionsGrow
<1>1. holder \in HolderType
  BY DEF SharingInv, SharingTyped
<1>2. holder' \in HolderType /\ holder'.versions = holder.versions
  BY <1>1 DEF HolderType
<1> QED BY <1>2, VersionsSame

(* A step of a verb that reads no version: what it recorded of the bases is *)
(* kept or dropped.                                                         *)
VerbPlain ==
    /\ verb' \in VerbType /\ verb'.recorded \in {verb.recorded, {}}
    /\ verb'.at \notin {"compare", "ready", "replace", "lay_before", "lay_after"}

LEMMA KeepsPlain ==
  ASSUME SharingInv, VersionsGrow, VerbPlain, folder' \in FolderType,
         entries' = entries, run' = run
  PROVE  SharingInv'
<1>1. entries' \in [Based -> BaseType] /\ run' \in RunType
  BY DEF SharingInv, SharingTyped
<1>2. Held \subseteq Held'
  BY HeldGrows DEF SharingInv
<1>3. \A c \in Based : entries'[c].marker \in Held'
  BY <1>2 DEF SharingInv, BasesHold
<1>4. verb'.recorded \subseteq Held'
  BY <1>2 DEF SharingInv, VerbHolds, VerbPlain
<1> QED BY <1>1, <1>3, <1>4, SharingKept DEF VerbPlain

LEMMA VerbOver ==
  ASSUME SharingInv
  PROVE  Over \in VerbType /\ Over.at = "idle" /\ Over.recorded = {}
<1>1. verb.left \in Nat
  BY DEF SharingInv, SharingTyped, VerbType
<1>2. {} \in Recordings /\ None \in NamesOrNone /\ "holder" \in Based
  BY DEF Recordings, NamesOrNone, Based
<1> QED BY <1>1, <1>2, NoTextTyped DEF Over, NoVerb, VerbType

LEMMA VerbSettles ==
  ASSUME SharingInv, NEW name \in NamesOrNone, NEW shared \in BOOLEAN
  PROVE  /\ Settles(name, shared) \in VerbType /\ Settles(name, shared).at = "newest"
         /\ Settles(name, shared).recorded = verb.recorded
  BY DEF SharingInv, SharingTyped, VerbType, Settles

LEMMA VerbGoes ==
  ASSUME SharingInv, NEW at \in {"held", "after", "carry"}
  PROVE  /\ [verb EXCEPT !.at = at] \in VerbType /\ [verb EXCEPT !.at = at].at = at
         /\ [verb EXCEPT !.at = at].recorded = verb.recorded
  BY DEF SharingInv, SharingTyped, VerbType

LEMMA VerbNames ==
  ASSUME SharingInv, NEW at \in {"send", "again", "remove"}, NEW name \in NamesOrNone
  PROVE  /\ [verb EXCEPT !.at = at, !.name = name] \in VerbType
         /\ [verb EXCEPT !.at = at, !.name = name].at = at
         /\ [verb EXCEPT !.at = at, !.name = name].recorded = verb.recorded
  BY DEF SharingInv, SharingTyped, VerbType

LEMMA AnotherPlain == SharingInv /\ Another => VerbPlain
<1> SUFFICES ASSUME SharingInv, NEW name \in Names, verb.asks > 0,
                    verb' = [verb EXCEPT !.at = "send", !.name = name, !.asks = @ - 1]
             PROVE  VerbPlain
  BY DEF Another
<1>1. verb \in VerbType /\ verb.asks - 1 \in Nat /\ name \in NamesOrNone
  BY DEF SharingInv, SharingTyped, VerbType, NamesOrNone
<1> QED BY <1>1 DEF VerbType, VerbPlain

LEMMA FolderStands ==
  ASSUME SharingInv
  PROVE  folder \in FolderType /\ verb \in VerbType /\ run \in RunType
         /\ entries \in [Based -> BaseType] /\ holder \in HolderType
  BY DEF SharingInv, SharingTyped

LEMMA KeepsSomebody == SharingInv /\ Somebody => SharingInv'
<1> SUFFICES ASSUME SharingInv, Somebody
             PROVE  SharingInv'
  OBVIOUS
<1>2. folder' \in FolderType
  <2>1. folder \in FolderType /\ folder.edits + 1 \in Nat /\ folder.texts + 1 \in Nat
    BY FolderStands DEF FolderType
  <2>2. \/ folder' = [folder EXCEPT !.edits = @ + 1, !.texts = @ + 1]
        \/ folder' = [folder EXCEPT !.edits = @ + 1]
    BY DEF Somebody
  <2> QED BY <2>1, <2>2 DEF FolderType
<1>3. VersionsGrow
  <2>1. CASE Tip # NoText /\ holder' = Committed([Tip EXCEPT !.text = folder.texts + 1])
    <3>1. [Tip EXCEPT !.text = folder.texts + 1] \in Markers
      BY TipTyped, FolderStands DEF Markers, FolderType
    <3> QED BY <2>1, <3>1, CommittedGrows, CommitGrows
  <2>2. CASE holder' = Stopped
    BY <2>2, StoppedGrows
  <2>3. CASE holder' \in {[holder EXCEPT !.shared = TRUE], [holder EXCEPT !.marked = TRUE]}
    BY <2>3, MarkingGrows
  <2>4. ASSUME NEW name \in Names, NEW marked \in BOOLEAN, holder' = Minted(name, marked)
        PROVE  VersionsGrow
    <3>1. name \in NamesOrNone
      BY DEF NamesOrNone
    <3> QED BY <2>4, <3>1, MintedGrows
  <2> QED BY <2>1, <2>2, <2>3, <2>4 DEF Somebody
<1>4. /\ entries' = entries /\ run' = run /\ verb' = verb
  BY DEF Somebody
<1>5. Held \subseteq Held'
  BY <1>3, HeldGrows DEF SharingInv
<1>6. \A c \in Based : entries'[c].marker \in Held'
  BY <1>4, <1>5 DEF SharingInv, BasesHold
<1>7. verb'.recorded \subseteq Held'
  BY <1>4, <1>5 DEF SharingInv, VerbHolds
<1>8. verb'.at \in {"compare", "ready", "replace", "lay_before", "lay_after"} =>
          verb'.entry \in 1 .. Len(holder'.versions)
  <2>1. Len(holder.versions) \in Nat /\ Len(holder'.versions) \in Nat
    BY <1>3, HeldGrows DEF SharingInv
  <2> QED BY <1>3, <1>4, <2>1 DEF SharingInv, VerbHolds, VersionsGrow
<1> QED BY <1>2, <1>3, <1>4, <1>6, <1>7, <1>8, FolderStands, SharingKept

LEMMA KeepsEditMarker == SharingInv /\ EditMarker => SharingInv'
<1> SUFFICES ASSUME SharingInv, EditMarker
             PROVE  SharingInv'
  OBVIOUS
<1>1. folder' \in FolderType
  <2>1. folder \in FolderType
    BY FolderStands
  <2> DEFINE m == [folder.marker EXCEPT !.text = folder.texts + 1]
  <2>2. m \in Markers /\ folder.edits + 1 \in Nat /\ folder.texts + 1 \in Nat
    BY <2>1 DEF FolderType, Markers
  <2>3. folder' = [folder EXCEPT !.edits = @ + 1, !.texts = @ + 1, !.marker = m]
    BY <2>1 DEF EditMarker, FolderType
  <2> HIDE DEF m
  <2> QED BY <2>1, <2>2, <2>3 DEF FolderType
<1>2. holder' = holder /\ entries' = entries /\ verb' = verb /\ run' = run
  BY DEF EditMarker
<1>3. VersionsGrow
  BY <1>2, HolderStands
<1>4. Held' = Held
  BY <1>2 DEF Held
<1>5. /\ \A c \in Based : entries'[c].marker \in Held'
      /\ verb'.recorded \subseteq Held'
      /\ verb'.at \in {"compare", "ready", "replace", "lay_before", "lay_after"} =>
             verb'.entry \in 1 .. Len(holder'.versions)
  BY <1>2, <1>4 DEF SharingInv, BasesHold, VerbHolds
<1> QED BY <1>1, <1>2, <1>3, <1>5, FolderStands, SharingKept

LEMMA KeepsBeginVerb == SharingInv /\ BeginVerb => SharingInv'
<1> SUFFICES ASSUME SharingInv, SharingAssumption, BeginVerb
             PROVE  SharingInv'
  BY SharingAssumption
<1>1. verb \in VerbType /\ verb.left - 1 \in Nat /\ MaxAsks \in Nat
  <2>1. verb \in VerbType /\ verb.left > 0
    BY FolderStands DEF BeginVerb
  <2>2. verb.left \in Nat
    BY <2>1 DEF VerbType
  <2>3. MaxAsks \in Nat
    BY DEF SharingAssumption
  <2> QED BY <2>1, <2>2, <2>3
<1>2. VerbPlain
  <2>1. CASE verb' = [verb EXCEPT !.left = @ - 1, !.asks = MaxAsks, !.kind = "share", !.at = "lookup"]
    BY <1>1, <2>1 DEF VerbType, VerbPlain
  <2>2. ASSUME NEW name \in Names \cup {None},
               verb' = [verb EXCEPT !.left = @ - 1, !.asks = MaxAsks, !.kind = "mark", !.at = "send", !.name = name]
        PROVE  VerbPlain
    BY <1>1, <2>2 DEF VerbType, VerbPlain, NamesOrNone
  <2>3. CASE verb' = [verb EXCEPT !.left = @ - 1, !.kind = "unshare", !.at = "lookup"]
    BY <1>1, <2>3 DEF VerbType, VerbPlain
  <2> QED BY <2>1, <2>2, <2>3 DEF BeginVerb
<1> QED BY <1>2, FolderStands, HolderStands, KeepsPlain DEF BeginVerb

LEMMA KeepsVerbRefused == SharingInv /\ VerbRefused => SharingInv'
<1> SUFFICES ASSUME SharingInv, VerbRefused
             PROVE  SharingInv'
  OBVIOUS
<1>1. VerbPlain
  BY VerbOver DEF VerbRefused, VerbPlain
<1> QED BY <1>1, FolderStands, HolderStands, KeepsPlain DEF VerbRefused

LEMMA IdentityTyped == SharingInv => holder.identity \in NamesOrNone /\ verb.name \in NamesOrNone
  BY FolderStands DEF HolderType, VerbType

LEMMA KeepsShare == SharingInv /\ (ShareLookup \/ ShareSend \/ ShareHeld) => SharingInv'
<1> SUFFICES ASSUME SharingInv
             PROVE  ShareLookup \/ ShareSend \/ ShareHeld => SharingInv'
  OBVIOUS
<1>1. Names \subseteq NamesOrNone /\ NamesOrNone = Names \cup {None}
  BY DEF NamesOrNone
<1>2. ASSUME ShareLookup
      PROVE  SharingInv'
  <2>1. VerbPlain
    <3>1. CASE StandingFile
      BY <1>2, <3>1, VerbSettles, IdentityTyped DEF ShareLookup, VerbPlain
    <3>2. CASE ~StandingFile
      <4>1. PICK name \in Names : verb' = [verb EXCEPT !.at = "send", !.name = name]
        BY <1>2, <3>2 DEF ShareLookup
      <4> QED BY <1>1, <4>1, VerbNames DEF VerbPlain
    <3> QED BY <3>1, <3>2
  <2> QED BY <1>2, <2>1, FolderStands, HolderStands, KeepsPlain DEF ShareLookup
<1>3. ASSUME ShareSend
      PROVE  SharingInv'
  <2>1. CASE StandingFile \/ verb.name \in HeldNames
    <3>1. VerbPlain /\ holder' = holder
      BY <1>3, <2>1, VerbGoes DEF ShareSend, VerbPlain
    <3> QED BY <1>3, <3>1, FolderStands, HolderStands, KeepsPlain DEF ShareSend
  <2>2. CASE ~(StandingFile \/ verb.name \in HeldNames)
    <3>1. VerbPlain /\ holder' = Minted(verb.name, FALSE)
      BY <1>1, <1>3, <2>2, VerbSettles, VerbOver, IdentityTyped DEF ShareSend, VerbPlain
    <3> QED BY <1>3, <3>1, FolderStands, IdentityTyped, MintedGrows, KeepsPlain DEF ShareSend
  <2> QED BY <2>1, <2>2
<1>4. ASSUME ShareHeld
      PROVE  SharingInv'
  <2>1. VerbPlain
    BY <1>1, <1>4, AnotherPlain, VerbSettles, VerbOver, IdentityTyped DEF ShareHeld, VerbPlain
  <2> QED BY <1>4, <2>1, FolderStands, HolderStands, KeepsPlain DEF ShareHeld
<1> QED BY <1>2, <1>3, <1>4

LEMMA KeepsMark == SharingInv /\ (MarkSend \/ MarkHeld) => SharingInv'
<1> SUFFICES ASSUME SharingInv
             PROVE  MarkSend \/ MarkHeld => SharingInv'
  OBVIOUS
<1>1. Names \subseteq NamesOrNone /\ NamesOrNone = Names \cup {None}
  BY DEF NamesOrNone
<1>2. ASSUME MarkSend
      PROVE  SharingInv'
  <2> DEFINE minted == IF verb.name = None THEN Offered ELSE verb.name
  <2>1. minted \in NamesOrNone
    BY <1>1, IdentityTyped, SharingAssumption DEF SharingAssumption
  <2>2. folder' = folder /\ entries' = entries /\ run' = run
    BY <1>2 DEF MarkSend
  <2>3. CASE /\ StandingFile /\ verb.name = None
             /\ holder' = [holder EXCEPT !.marked = TRUE]
             /\ verb' \in {Settles(holder.identity, TRUE), Over}
    <3>1. VerbPlain
      BY <2>3, VerbSettles, VerbOver, IdentityTyped DEF VerbPlain
    <3> QED BY <2>2, <2>3, <3>1, FolderStands, MarkingGrows, KeepsPlain
  <2>4. CASE /\ ~StandingFile /\ minted \notin HeldNames
             /\ holder' = Minted(minted, TRUE)
             /\ verb' \in {Settles(minted, TRUE), Over}
    <3> HIDE DEF minted
    <3>1. VerbPlain
      BY <2>1, <2>4, VerbSettles, VerbOver DEF VerbPlain
    <3> QED BY <2>1, <2>2, <2>4, <3>1, FolderStands, MintedGrows, KeepsPlain
  <2>5. CASE /\ verb' = IF verb.at = "again" THEN Over ELSE [verb EXCEPT !.at = "held"]
             /\ UNCHANGED holder
    <3>1. VerbPlain
      BY <2>5, VerbGoes, VerbOver DEF VerbPlain
    <3> QED BY <2>2, <2>5, <3>1, FolderStands, HolderStands, KeepsPlain
  <2> QED BY <1>2, <2>3, <2>4, <2>5 DEF MarkSend
<1>3. ASSUME MarkHeld
      PROVE  SharingInv'
  <2>1. VerbPlain
    <3>1. CASE StandingFile
      <4>1. verb' = [verb EXCEPT !.at = "again", !.name = None] /\ None \in NamesOrNone
        BY <1>1, <1>3, <3>1 DEF MarkHeld
      <4>2. verb' \in VerbType /\ verb'.at = "again" /\ verb'.recorded = verb.recorded
        BY <4>1, VerbNames
      <4> QED BY <4>2 DEF VerbPlain
    <3>2. CASE ~StandingFile
      BY <1>3, <3>2, AnotherPlain, VerbOver DEF MarkHeld, VerbPlain
    <3> QED BY <3>1, <3>2
  <2> QED BY <1>3, <2>1, FolderStands, HolderStands, KeepsPlain DEF MarkHeld
<1> QED BY <1>2, <1>3

LEMMA KeepsUnshare == SharingInv /\ (UnshareLookup \/ UnshareRemove \/ UnshareAfter) => SharingInv'
<1> SUFFICES ASSUME SharingInv
             PROVE  UnshareLookup \/ UnshareRemove \/ UnshareAfter => SharingInv'
  OBVIOUS
<1>1. ASSUME UnshareLookup
      PROVE  SharingInv'
  <2>1. VerbPlain
    BY <1>1, VerbNames, VerbOver, IdentityTyped DEF UnshareLookup, VerbPlain
  <2> QED BY <1>1, <2>1, FolderStands, HolderStands, KeepsPlain DEF UnshareLookup
<1>2. ASSUME UnshareRemove
      PROVE  SharingInv'
  <2>1. VerbPlain
    BY <1>2, VerbGoes, VerbOver DEF UnshareRemove, VerbPlain
  <2>2. VersionsGrow
    BY <1>2, StoppedGrows, HolderStands DEF UnshareRemove
  <2> QED BY <1>2, <2>1, <2>2, FolderStands, KeepsPlain DEF UnshareRemove
<1>3. ASSUME UnshareAfter
      PROVE  SharingInv'
  <2>1. VerbPlain
    BY <1>3, VerbGoes, VerbOver DEF UnshareAfter, VerbPlain
  <2> QED BY <1>3, <2>1, FolderStands, HolderStands, KeepsPlain DEF UnshareAfter
<1> QED BY <1>1, <1>2, <1>3

(* The bases: one carried from copy to copy, and one a version is laid on.  *)
LEMMA CarriedHolds ==
  ASSUME SharingInv, NEW from \in Based, NEW to \in Based
  PROVE  Carried(from, to) \in [Based -> BaseType] /\ BasesHold(Carried(from, to))
<1>1. entries \in [Based -> BaseType] /\ BasesHold(entries)
  BY DEF SharingInv, SharingTyped
<1> QED BY <1>1 DEF Carried, BasesHold

LEMMA ScopeBased == SharingInv => Scope \in Based
<1> SUFFICES ASSUME SharingInv
             PROVE  Scope \in Based
  OBVIOUS
<1>1. folder.marker.as \in NamesOrNone
  BY FolderStands DEF FolderType, Markers
<1> QED BY <1>1 DEF Scope, Based, NamesOrNone

LEMMA EntryHeld ==
  ASSUME SharingInv, verb.at \in {"compare", "ready", "replace", "lay_before", "lay_after"}
  PROVE  Entry \in Markers /\ Entry \in Held /\ verb.entry \in 1 .. Len(holder.versions)
         /\ Prior \in Held
<1>1. verb.entry \in 1 .. Len(holder.versions) /\ holder.versions \in Seq(Markers)
  BY FolderStands DEF SharingInv, VerbHolds, HolderType
<1>2. Entry \in Markers /\ Entry \in Held
  BY <1>1 DEF Entry, Held
<1>3. CASE verb.entry = 1
  BY <1>1, <1>2, <1>3 DEF Prior, Held
<1>4. CASE verb.entry # 1
  <2>1. verb.entry - 1 \in 1 .. Len(holder.versions)
    BY <1>1, <1>4
  <2> QED BY <1>1, <1>2, <1>4, <2>1 DEF Prior, Held
<1> QED BY <1>1, <1>2, <1>3, <1>4

LEMMA LaidHolds ==
  ASSUME SharingInv, verb.at \in {"lay_before", "lay_after"}, NEW c \in Based
  PROVE  /\ [entries EXCEPT ![c] = LaidOn(@)] \in [Based -> BaseType]
         /\ BasesHold([entries EXCEPT ![c] = LaidOn(@)])
<1>1. entries \in [Based -> BaseType] /\ BasesHold(entries)
  BY DEF SharingInv, SharingTyped
<1>2. LaidOn(entries[c]) \in BaseType /\ LaidOn(entries[c]).marker \in Held
  <2>1. Entry \in Markers /\ Entry \in Held /\ verb.entry \in Nat
    BY EntryHeld, FolderStands DEF VerbType
  <2>2. entries[c] \in BaseType /\ entries[c].marker \in Held
    BY <1>1 DEF BasesHold
  <2>3. CASE entries[c] = NoEntry
    BY <2>2, <2>3 DEF LaidOn
  <2>4. CASE entries[c] # NoEntry
    BY <2>1, <2>2, <2>4 DEF LaidOn, BaseType
  <2> QED BY <2>3, <2>4
<1> HIDE DEF LaidOn
<1> QED BY <1>1, <1>2 DEF BasesHold

(* A step that changes the bases, of a verb or of a run.                    *)
LEMMA KeepsBases ==
  ASSUME SharingInv, holder' = holder, folder' = folder, run' \in RunType,
         entries' \in [Based -> BaseType], BasesHold(entries'),
         VerbPlain \/ verb' = verb
         \/ (/\ verb' \in VerbType /\ verb'.recorded = verb.recorded /\ verb'.entry = verb.entry
             /\ verb.at \in {"compare", "ready", "replace", "lay_before", "lay_after"})
  PROVE  SharingInv'
<1>1. VersionsGrow
  BY HolderStands
<1>2. Held' = Held
  BY DEF Held
<1>3. \A c \in Based : entries'[c].marker \in Held'
  BY <1>2 DEF BasesHold
<1>4. verb' \in VerbType /\ verb'.recorded \subseteq Held'
  BY <1>2, FolderStands DEF VerbPlain, SharingInv, VerbHolds
<1>5. verb'.at \in {"compare", "ready", "replace", "lay_before", "lay_after"} =>
          verb'.entry \in 1 .. Len(holder'.versions)
  BY DEF VerbPlain, SharingInv, VerbHolds
<1> QED BY <1>1, <1>3, <1>4, <1>5, FolderStands, SharingKept

LEMMA KeepsUnshareCarry == SharingInv /\ UnshareCarry => SharingInv'
<1> SUFFICES ASSUME SharingInv, UnshareCarry
             PROVE  SharingInv'
  OBVIOUS
<1>1. VerbPlain
  BY VerbSettles, IdentityTyped DEF UnshareCarry, VerbPlain
<1>2. entries' \in [Based -> BaseType] /\ BasesHold(entries')
  <2>1. CASE Scope = verb.name
    <3>1. verb.name \in Based /\ "holder" \in Based
      BY <2>1, ScopeBased DEF Based
    <3> QED BY <2>1, <3>1, CarriedHolds DEF UnshareCarry
  <2>2. CASE Scope # verb.name
    BY <2>2, FolderStands DEF UnshareCarry, SharingInv
  <2> QED BY <2>1, <2>2
<1>3. holder' = holder /\ folder' = folder /\ run' = run
  BY DEF UnshareCarry
<1> QED BY <1>1, <1>2, <1>3, FolderStands, KeepsBases

LEMMA KeepsNewestVersion == SharingInv /\ NewestVersion => SharingInv'
<1> SUFFICES ASSUME SharingInv, NewestVersion
             PROVE  SharingInv'
  OBVIOUS
<1>1. holder' = holder /\ folder' = folder /\ entries' = entries /\ run' = run
  BY DEF NewestVersion
<1>2. CASE verb' = Over
  BY <1>1, <1>2, VerbOver, FolderStands, HolderStands, KeepsPlain DEF VerbPlain
<1>3. ASSUME NEW v \in 1 .. Len(holder.versions), verb' = [verb EXCEPT !.at = "compare", !.entry = v]
      PROVE  SharingInv'
  <2>1. verb' \in VerbType /\ verb'.recorded = verb.recorded /\ verb'.entry = v
    <3>1. v \in Nat
      BY HeldGrows, HolderStands, <1>1 DEF SharingInv
    <3> QED BY <1>3, <3>1, FolderStands DEF VerbType
  <2>2. Held' = Held
    BY <1>1 DEF Held
  <2>3. /\ \A c \in Based : entries'[c].marker \in Held'
        /\ verb'.recorded \subseteq Held'
    BY <1>1, <2>1, <2>2 DEF SharingInv, BasesHold, VerbHolds
  <2> QED BY <1>1, <1>3, <2>1, <2>3, FolderStands, HolderStands, SharingKept
<1>4. \/ verb' = Over
      \/ \E v \in 1 .. Len(holder.versions) : verb' = [verb EXCEPT !.at = "compare", !.entry = v]
  BY DEF NewestVersion, Changing
<1> QED BY <1>2, <1>3, <1>4

LEMMA KeepsSettling == SharingInv /\ (CompareStanding \/ ReadBefore \/ Replace \/ LayBefore \/ LayAfter) => SharingInv'
<1> SUFFICES ASSUME SharingInv
             PROVE  CompareStanding \/ ReadBefore \/ Replace \/ LayBefore \/ LayAfter => SharingInv'
  OBVIOUS
<1>0. /\ verb \in VerbType /\ folder \in FolderType /\ folder.marker \in Markers
      /\ entries \in [Based -> BaseType] /\ BasesHold(entries)
  BY FolderStands DEF FolderType, SharingInv
<1>1. ASSUME CompareStanding
      PROVE  SharingInv'
  <2>1. holder' = holder /\ folder' = folder /\ entries' = entries /\ run' = run
    BY <1>1 DEF CompareStanding
  <2>2. CASE verb' = Over
    BY <2>1, <2>2, VerbOver, FolderStands, HolderStands, KeepsPlain DEF VerbPlain
  <2>3. CASE verb' = [verb EXCEPT !.at = "lay_after"]
    <3>1. verb' \in VerbType /\ verb'.recorded = verb.recorded /\ verb'.entry = verb.entry
      BY <1>0, <2>3 DEF VerbType
    <3> QED BY <1>0, <1>1, <2>1, <3>1, FolderStands, KeepsBases DEF CompareStanding
  <2>4. CASE verb' = [verb EXCEPT !.at = "ready", !.read = folder.marker]
    <3>1. verb' \in VerbType /\ verb'.recorded = verb.recorded /\ verb'.entry = verb.entry
      BY <1>0, <2>4 DEF VerbType
    <3> QED BY <1>0, <1>1, <2>1, <3>1, FolderStands, KeepsBases DEF CompareStanding
  <2> QED BY <1>1, <2>2, <2>3, <2>4 DEF CompareStanding
<1>2. ASSUME ReadBefore
      PROVE  SharingInv'
  <2>1. holder' = holder /\ folder' = folder /\ entries' = entries /\ run' = run /\ verb.at = "ready"
    BY <1>2 DEF ReadBefore
  <2> DEFINE marks == {entries[Scope].marker} \ {NoText}
  <2>2. Scope \in Based /\ marks \in Recordings /\ marks \subseteq Held
    BY <1>0, ScopeBased DEF Recordings, BasesHold, BaseType
  <2>3. verb' = [verb EXCEPT !.at = "replace", !.scope = Scope, !.recorded = marks]
    BY <1>2 DEF ReadBefore
  <2> HIDE DEF marks
  <2>4. verb' \in VerbType /\ verb'.recorded = marks /\ verb'.entry = verb.entry
    BY <1>0, <2>2, <2>3 DEF VerbType
  <2>5. Held' = Held
    BY <2>1 DEF Held
  <2>7. \A c \in Based : entries'[c].marker \in Held'
    BY <1>0, <2>1, <2>5 DEF BasesHold
  <2>8. verb'.recorded \subseteq Held' /\ verb'.entry \in 1 .. Len(holder'.versions)
    BY <2>1, <2>2, <2>4, <2>5, EntryHeld
  <2> QED BY <2>1, <2>4, <2>7, <2>8, FolderStands, HolderStands, SharingKept
<1>3. ASSUME Replace
      PROVE  SharingInv'
  <2>1. holder' = holder /\ entries' = entries /\ run' = run /\ verb.at = "replace"
    BY <1>3 DEF Replace
  <2>2. CASE verb' = Over /\ folder' = folder
    BY <2>1, <2>2, VerbOver, FolderStands, HolderStands, KeepsPlain DEF VerbPlain
  <2>3. CASE folder' = [folder EXCEPT !.marker = Entry] /\ verb' = [verb EXCEPT !.at = "lay_before"]
    <3>1. verb' \in VerbType /\ verb'.recorded = verb.recorded /\ verb'.entry = verb.entry
      BY <1>0, <2>3 DEF VerbType
    <3>2. folder' \in FolderType
      BY <1>0, <2>1, <2>3, EntryHeld DEF FolderType
    <3>3. Held' = Held
      BY <2>1 DEF Held
    <3>4. \A c \in Based : entries'[c].marker \in Held'
      BY <1>0, <2>1, <3>3 DEF BasesHold
    <3>5. verb'.recorded \subseteq Held' /\ verb'.entry \in 1 .. Len(holder'.versions)
      BY <2>1, <3>1, <3>3, EntryHeld DEF SharingInv, VerbHolds
    <3> QED BY <2>1, <3>1, <3>2, <3>4, <3>5, FolderStands, HolderStands, SharingKept
  <2> QED BY <1>3, <2>2, <2>3 DEF Replace
<1>4. ASSUME LayBefore
      PROVE  SharingInv'
  <2>1. holder' = holder /\ folder' = folder /\ run' = run /\ verb.at = "lay_before"
    BY <1>4 DEF LayBefore
  <2>2. verb.scope \in Based
    BY <1>0 DEF VerbType
  <2>3. verb' \in VerbType /\ verb'.recorded = verb.recorded /\ verb'.entry = verb.entry
    BY <1>0, <1>4 DEF VerbType, LayBefore
  <2>4. entries' \in [Based -> BaseType] /\ BasesHold(entries')
    BY <1>4, <2>1, <2>2, LaidHolds DEF LayBefore
  <2> QED BY <2>1, <2>3, <2>4, FolderStands, KeepsBases
<1>5. ASSUME LayAfter
      PROVE  SharingInv'
  <2>1. holder' = holder /\ folder' = folder /\ run' = run /\ verb.at = "lay_after" /\ VerbPlain
    BY <1>5, VerbOver DEF LayAfter, VerbPlain
  <2>2. entries' \in [Based -> BaseType] /\ BasesHold(entries')
    BY <1>5, <2>1, ScopeBased, LaidHolds DEF LayAfter
  <2> QED BY <2>1, <2>2, FolderStands, KeepsBases
<1> QED BY <1>1, <1>2, <1>3, <1>4, <1>5

LEMMA KeepsOpenRun == SharingInv /\ OpenRun => SharingInv'
<1> SUFFICES ASSUME SharingInv, OpenRun
             PROVE  SharingInv'
  OBVIOUS
<1>1. holder' = holder /\ folder' = folder /\ verb' = verb
  BY DEF OpenRun
<1>2. run' \in RunType
  <2>1. run \in RunType /\ run.left > 0 /\ run' = [run EXCEPT !.at = "open", !.copy = Scope, !.left = @ - 1]
    BY FolderStands DEF OpenRun
  <2>2. run.left - 1 \in Nat
    BY <2>1 DEF RunType
  <2> QED BY <2>1, <2>2, ScopeBased DEF RunType
<1>3. entries' \in [Based -> BaseType] /\ BasesHold(entries')
  <2>1. CASE Scope \in Names
    <3>1. Scope \in Based /\ "holder" \in Based
      BY ScopeBased DEF Based
    <3> QED BY <2>1, <3>1, CarriedHolds DEF OpenRun
  <2>2. CASE Scope \notin Names
    BY <2>2, FolderStands DEF OpenRun, SharingInv
  <2> QED BY <2>1, <2>2
<1> QED BY <1>1, <1>2, <1>3, KeepsBases

LEMMA KeepsReturnToHolder == SharingInv /\ ReturnToHolder => SharingInv'
<1> SUFFICES ASSUME SharingInv, ReturnToHolder
             PROVE  SharingInv'
  OBVIOUS
<1>1. holder' = holder /\ folder' = folder /\ verb' = verb
  BY DEF ReturnToHolder
<1>2. run.copy \in Based /\ "holder" \in Based
  BY FolderStands DEF RunType, Based
<1>3. run' \in RunType
  BY <1>2, FolderStands DEF ReturnToHolder, RunType
<1>4. entries' \in [Based -> BaseType] /\ BasesHold(entries')
  BY <1>2, CarriedHolds, FolderStands DEF ReturnToHolder, SharingInv
<1> QED BY <1>1, <1>3, <1>4, KeepsBases

(* The base a run records is of a version the holder then has.              *)
LEMMA RecordedHolds ==
  ASSUME SharingInv, VersionsGrow, NEW m \in Markers, m \in Held', NEW at \in Nat, Recorded(m, at)
  PROVE  /\ entries' \in [Based -> BaseType] /\ run' \in RunType
         /\ \A c \in Based : entries'[c].marker \in Held'
<1>1. entries \in [Based -> BaseType] /\ run \in RunType /\ \A c \in Based : entries[c].marker \in Held'
  BY HeldGrows, FolderStands DEF SharingInv, BasesHold
<1>2. run.copy \in Based /\ run.clock + 1 \in Nat
  BY <1>1 DEF RunType
<1>3. CASE run' = [run EXCEPT !.at = "idle"] /\ UNCHANGED entries
  BY <1>1, <1>3 DEF RunType
<1>4. CASE /\ entries' = [entries EXCEPT ![run.copy] = [at |-> at, marker |-> m, time |-> run.clock + 1]]
           /\ run' = [run EXCEPT !.at = "idle", !.clock = @ + 1]
  <2> DEFINE b == [at |-> at, marker |-> m, time |-> run.clock + 1]
  <2>1. b \in BaseType /\ b.marker = m
    BY <1>2 DEF BaseType
  <2> HIDE DEF b
  <2>2. entries' = [entries EXCEPT ![run.copy] = b]
    BY <1>4 DEF b
  <2>3. entries' \in [Based -> BaseType] /\ \A c \in Based : entries'[c].marker \in Held'
    BY <1>1, <1>2, <2>1, <2>2
  <2>4. run' \in RunType
    BY <1>1, <1>2, <1>4 DEF RunType
  <2> QED BY <2>3, <2>4
<1> QED BY <1>3, <1>4 DEF Recorded

LEMMA KeepsEndRun == SharingInv /\ EndRun => SharingInv'
<1> SUFFICES ASSUME SharingInv, EndRun
             PROVE  SharingInv'
  OBVIOUS
<1>0. /\ verb' = verb /\ folder \in FolderType /\ folder.marker \in Markers
      /\ verb \in VerbType /\ run \in RunType /\ entries \in [Based -> BaseType] /\ BasesHold(entries)
  BY FolderStands DEF EndRun, FolderType, SharingInv
<1>1. CASE run' = [run EXCEPT !.at = "idle"] /\ UNCHANGED <<holder, folder, entries>>
  <2>1. run' \in RunType
    BY <1>0, <1>1 DEF RunType
  <2> QED BY <1>0, <1>1, <2>1, KeepsBases
<1>2. CASE /\ folder' = [folder EXCEPT !.marker = Tip] /\ Recorded(Tip, Len(holder.versions)) /\ UNCHANGED holder
  <2>1. VersionsGrow /\ Held' = Held /\ Len(holder.versions) \in Nat
    BY <1>2, HolderStands, HeldGrows DEF Held, SharingInv
  <2>2. folder' \in FolderType
    BY <1>0, <1>2, TipTyped DEF FolderType
  <2>3. /\ entries' \in [Based -> BaseType] /\ run' \in RunType
        /\ \A c \in Based : entries'[c].marker \in Held'
    BY <1>2, <2>1, TipTyped, RecordedHolds
  <2>4. /\ verb'.recorded \subseteq Held'
        /\ verb'.at \in {"compare", "ready", "replace", "lay_before", "lay_after"} =>
               verb'.entry \in 1 .. Len(holder'.versions)
    BY <1>0, <1>2, <2>1 DEF SharingInv, VerbHolds
  <2> QED BY <1>0, <2>1, <2>2, <2>3, <2>4, SharingKept
<1>3. CASE /\ holder' = IF folder.marker = Tip THEN holder ELSE Committed(folder.marker)
           /\ Recorded(folder.marker, Len(holder'.versions)) /\ UNCHANGED folder
  <2>1. VersionsGrow /\ folder.marker \in Held'
    <3>1. CASE folder.marker = Tip
      BY <1>3, <3>1, HolderStands, TipTyped DEF Held
    <3>2. CASE folder.marker # Tip
      BY <1>0, <1>3, <3>2, CommittedGrows, CommitGrows
    <3> QED BY <3>1, <3>2
  <2>2. Held \subseteq Held' /\ Len(holder'.versions) \in Nat /\ Len(holder.versions) \in Nat
    BY <2>1, HeldGrows DEF SharingInv
  <2>3. /\ entries' \in [Based -> BaseType] /\ run' \in RunType
        /\ \A c \in Based : entries'[c].marker \in Held'
    BY <1>0, <1>3, <2>1, <2>2, RecordedHolds
  <2>4. verb'.recorded \subseteq Held'
    BY <1>0, <2>2 DEF SharingInv, VerbHolds
  <2>5. verb'.at \in {"compare", "ready", "replace", "lay_before", "lay_after"} =>
            verb'.entry \in 1 .. Len(holder'.versions)
    BY <1>0, <2>1, <2>2 DEF SharingInv, VerbHolds, VersionsGrow
  <2> QED BY <1>0, <1>3, <2>1, <2>3, <2>4, <2>5, SharingKept
<1> QED BY <1>1, <1>2, <1>3 DEF EndRun

LEMMA SharingFirst == SharingInit => SharingInv
<1> SUFFICES ASSUME NEW setting \in {"alone", "checkout"}, NEW text \in {0, 1}, SharingStart(setting, text)
             PROVE  SharingInv
  BY DEF SharingInit
<1> DEFINE first == [as |-> None, text |-> text]
           base == [at |-> 1, marker |-> first, time |-> 1]
           bound == IF setting = "alone" THEN "holder" ELSE "checkout"
<1>1. first \in Markers /\ None \in NamesOrNone
  BY DEF Markers, NamesOrNone
<1> HIDE DEF first
<1>2. /\ holder = [versions |-> <<first>>, identity |-> None, shared |-> FALSE, marked |-> FALSE]
      /\ folder = [setting |-> setting, marker |-> first, texts |-> 1, edits |-> 0]
      /\ entries = [c \in Based |-> IF c = bound THEN base ELSE NoEntry]
      /\ verb = NoVerb(MaxVerbs)
      /\ run = [at |-> "idle", copy |-> "holder", left |-> MaxRuns, clock |-> 1]
  BY DEF SharingStart, first
<1>3. holder \in HolderType /\ holder.versions = <<first>> /\ Len(holder.versions) = 1
  BY <1>1, <1>2 DEF HolderType
<1>4. Held = {first, NoText}
  BY <1>3 DEF Held
<1>5. MaxVerbs \in Nat /\ MaxRuns \in Nat
  BY SharingAssumption DEF SharingAssumption
<1>6. base \in BaseType /\ NoEntry \in BaseType /\ base.marker = first /\ NoEntry.marker = NoText
  BY <1>1, NoTextTyped DEF BaseType, NoEntry
<1> HIDE DEF base, bound
<1>7. entries \in [Based -> BaseType] /\ BasesHold(entries)
  BY <1>2, <1>4, <1>6 DEF BasesHold
<1>8. {} \in Recordings /\ "holder" \in Based
  BY DEF Recordings, Based
<1>9. verb \in VerbType /\ verb.recorded = {} /\ verb.at = "idle"
  BY <1>1, <1>2, <1>5, <1>8, NoTextTyped DEF NoVerb, VerbType
<1>10. folder \in FolderType /\ run \in RunType
  BY <1>1, <1>2, <1>5, <1>8 DEF FolderType, RunType
<1>11. VerbHolds
  BY <1>9 DEF VerbHolds
<1> QED BY <1>3, <1>7, <1>9, <1>10, <1>11 DEF SharingInv, SharingTyped

LEMMA SharingStep == SharingInv /\ [SharingNext]_sharingVars => SharingInv'
<1> SUFFICES ASSUME SharingInv, [SharingNext]_sharingVars
             PROVE  SharingInv'
  OBVIOUS
<1>1. CASE UNCHANGED sharingVars
  <2>1. holder' = holder /\ folder' = folder /\ entries' = entries /\ verb' = verb /\ run' = run
    BY <1>1 DEF sharingVars
  <2> QED BY <2>1, FolderStands, KeepsBases DEF SharingInv
<1> QED BY <1>1, KeepsSomebody, KeepsEditMarker, KeepsBeginVerb, KeepsVerbRefused, KeepsShare, KeepsMark,
           KeepsUnshare, KeepsUnshareCarry, KeepsNewestVersion, KeepsSettling, KeepsOpenRun,
           KeepsReturnToHolder, KeepsEndRun DEF SharingNext

(* Only a settling and a run replace the identity file.                     *)
LEMMA ReplacesOnlyHeld ==
  ASSUME SharingInv, SharingNext, folder'.marker # folder.marker, folder'.edits = folder.edits
  PROVE  folder.marker \in Held
<1>1. folder \in FolderType /\ entries \in [Based -> BaseType] /\ run \in RunType
  BY FolderStands
<1>2. ~Somebody /\ ~EditMarker
  <2>1. folder.edits \in Nat
    BY <1>1 DEF FolderType
  <2>2. Somebody \/ EditMarker => folder'.edits = folder.edits + 1
    <3>1. CASE Somebody
      BY <1>1, <3>1 DEF Somebody, FolderType
    <3>2. CASE EditMarker
      BY <1>1, <3>2 DEF EditMarker, FolderType
    <3> QED BY <3>1, <3>2
  <2> QED BY <2>1, <2>2
<1>3. folder' # folder
  OBVIOUS
<1>4. Replace \/ EndRun
  BY <1>2, <1>3 DEF SharingNext, BeginVerb, VerbRefused, ShareLookup, ShareSend, ShareHeld, MarkSend, MarkHeld,
     UnshareLookup, UnshareRemove, UnshareAfter, UnshareCarry, NewestVersion, CompareStanding, ReadBefore,
     LayBefore, LayAfter, OpenRun, ReturnToHolder
<1>5. CASE Replace
  BY <1>3, <1>5, EntryHeld DEF Replace, Reread, SharingInv, VerbHolds
<1>6. CASE EndRun
  <2>1. folder.marker = entries[run.copy].marker /\ run.copy \in Based
    BY <1>1, <1>3, <1>6 DEF EndRun, RunType
  <2> QED BY <2>1 DEF SharingInv, BasesHold
<1> QED BY <1>4, <1>5, <1>6

(* The types of a folder's identity file, its versions and what its copies  *)
(* record of it; every base is of a version of the holder.                  *)
THEOREM SharingKeepsItsTypes == SharingSpec => [](SharingTyped /\ BasesHold(entries))
<1>1. SharingInv => SharingTyped /\ BasesHold(entries)
  BY DEF SharingInv
<1> QED BY <1>1, SharingFirst, SharingStep, PTL DEF SharingSpec

(* The identity file is replaced only where what stands there is held by a  *)
(* version of the holder, however the verbs, the runs, the person's edits   *)
(* and those of others interleave (`settle_identity_file`).                 *)
THEOREM EditsLeftStanding == SharingSpec => EditLeftStanding
<1>1. SharingInv /\ [SharingNext]_sharingVars =>
          [folder'.marker # folder.marker /\ folder'.edits = folder.edits
             => folder.marker \in ToSet(holder.versions) \cup {NoText}]_sharingVars
  <2> SUFFICES ASSUME SharingInv, SharingNext, folder'.marker # folder.marker, folder'.edits = folder.edits
               PROVE  folder.marker \in ToSet(holder.versions) \cup {NoText}
    OBVIOUS
  <2>1. folder.marker \in Held
    BY ReplacesOnlyHeld
  <2>2. holder.versions \in Seq(Markers)
    BY FolderStands DEF HolderType
  <2> QED BY <2>1, <2>2 DEF Held, ToSet
<1> QED BY <1>1, SharingFirst, SharingStep, PTL DEF SharingSpec, EditLeftStanding

-----------------------------------------------------------------------------
(* Collection.                                                              *)

FileSets == SUBSET FolderFiles
FileType == [content : FileContents, mtime : Nat, ctime : Nat, inode : Inodes]
StatType == [content : {NoFile}, mtime : Nat, ctime : Nat, inode : Inodes]
FilesType == [FolderFiles -> FileType \cup {NoFile}]
EntriesType == UNION {[S -> FileType] : S \in SUBSET FolderFiles}
KeptType == UNION {[S -> FileContents] : S \in SUBSET FolderFiles}
RecordType == [stamp : Nat, entries : EntriesType]
DiskType ==
    [files : FilesType, dir : BOOLEAN, rule : [FolderFiles -> Rulings],
     clock : {"coarse", "fine", "any"}, now : Nat, lastRead : Nat, edited : FileSets,
     edits : Nat, ticks : Nat, collections : Nat]
Before == StatType \cup {NoFile}
Found == FileContents \cup {NoFile}
WalkType ==
    [at : {"idle", "walk", "read", "stat", "attribute", "collected"}, allDirs : BOOLEAN,
     locked : BOOLEAN, todo : FileSets, listed : FileSets, dirs : BOOLEAN, before : Before,
     found : Found, on : FileSets, record : RecordType, kept : KeptType, spared : FileSets,
     left : FileSets, gone : FileSets, goneDir : BOOLEAN, skipped : FileSets]

CollectionTyped ==
    /\ disk \in DiskType /\ record \in RecordType /\ walk \in WalkType
    /\ walk.at \in {"read", "stat"} => walk.before \in StatType
    /\ walk.at = "stat" => walk.found \in FileContents
    /\ \A p, q \in walk.on : p = q
    /\ walk.at = "idle" => walk = NoWalk

(* No time on disk, in a record or in a walk is later than the clock.       *)
TimesPassed ==
    /\ disk.lastRead <= disk.now /\ record.stamp <= disk.now /\ walk.record.stamp <= disk.now
    /\ \A p \in FolderFiles : Stands(p) => disk.files[p].ctime <= disk.now
    /\ walk.at \in {"read", "stat"} => walk.before.ctime <= disk.now

(* An entry that names the file as it stands, one that does where its last  *)
(* change came before a time.                                               *)
Same(e, p) == Stands(p) /\ StatOf(e) = StatOf(disk.files[p]) => e.content = disk.files[p].content
Sure(e, p, time) == e.ctime < time => Same(e, p)

(* Under a fine clock, no change falls in the tick of a read or before it.  *)
FineRecord(r) == \A p \in DOMAIN r.entries : r.entries[p].ctime <= disk.lastRead /\ Same(r.entries[p], p)
FineWalk ==
    disk.clock = "fine" =>
        /\ FineRecord(record) /\ FineRecord(walk.record)
        /\ walk.at = "stat" => \A p \in walk.on :
              /\ walk.before.ctime <= disk.lastRead
              /\ Stands(p) /\ walk.before = StatOf(disk.files[p]) => walk.found = disk.files[p].content

(* Under a coarse one, a change is no earlier than the collection's tick.   *)
SureRecord(r) == \A p \in DOMAIN r.entries : Sure(r.entries[p], p, r.stamp)
CoarseWalk ==
    disk.clock = "coarse" =>
        /\ SureRecord(record) /\ SureRecord(walk.record)
        /\ \A p \in DOMAIN walk.record.entries \cap DOMAIN walk.kept :
              Sure(walk.record.entries[p], p, disk.now)
        /\ walk.at = "stat" => \A p \in walk.on :
              Stands(p) /\ disk.files[p].ctime < disk.now => walk.found = disk.files[p].content

ReachedOnly == walk.at \in {"attribute", "collected"} => DOMAIN walk.record.entries \subseteq DOMAIN walk.kept
SpareInv == TimesPassed /\ FineWalk /\ CoarseWalk /\ ReachedOnly /\ disk.clock # "any"

(* What a walk has listed, kept, left and met.                              *)
LeftInv ==
    /\ \A p \in walk.listed : Keeps(p) => p \in walk.todo \cup DOMAIN walk.kept \cup walk.gone
    /\ walk.at \in {"attribute", "collected"} =>
          \A p \in walk.listed : Keeps(p) => p \in DOMAIN walk.kept \cup walk.gone
    /\ \A p \in DOMAIN walk.kept \cup walk.on : Keeps(p)
    /\ \A p \in walk.left : ~Keeps(p)
    /\ \A p \in walk.skipped : p \notin DOMAIN walk.kept /\ ~NotMet(p)
    /\ walk.at \in {"walk", "read", "stat"} => walk.skipped = {}

CollectionInv == CollectionTyped /\ SpareInv /\ LeftInv

LEMMA NoWalkTyped == NoRecord \in RecordType /\ NoWalk \in WalkType
<1>1. <<>> \in EntriesType /\ <<>> \in KeptType
  BY DEF EntriesType, KeptType
<1>2. NoRecord \in RecordType
  BY <1>1 DEF NoRecord, RecordType
<1>3. {} \in FileSets /\ NoFile \in Before /\ NoFile \in Found
  BY DEF FileSets, Before, Found
<1> QED BY <1>1, <1>2, <1>3 DEF NoWalk, WalkType

LEMMA StatTyped ==
  ASSUME NEW f \in FileType
  PROVE  StatOf(f) \in StatType /\ StatOf(f).ctime = f.ctime /\ StatOf(f).mtime = f.mtime
  BY DEF StatOf, StatType, FileType

LEMMA EntryOfStat ==
  ASSUME NEW s \in StatType, NEW x \in FileContents
  PROVE  /\ [s EXCEPT !.content = x] \in FileType /\ [s EXCEPT !.content = x].content = x
         /\ [s EXCEPT !.content = x].ctime = s.ctime /\ StatOf([s EXCEPT !.content = x]) = s
<1> DEFINE e == [s EXCEPT !.content = x]
<1>1. e \in FileType /\ e.content = x /\ e.ctime = s.ctime
  BY DEF StatType, FileType
<1>2. StatOf(e) = s
  BY DEF StatOf, StatType
<1> QED BY <1>1, <1>2

LEMMA WithEntry ==
  ASSUME NEW f \in EntriesType, NEW p \in FolderFiles, NEW e \in FileType
  PROVE  /\ With(f, p, e) \in EntriesType /\ DOMAIN With(f, p, e) = DOMAIN f \cup {p}
         /\ With(f, p, e)[p] = e /\ \A q \in DOMAIN f \ {p} : With(f, p, e)[q] = f[q]
<1>1. DOMAIN f \in SUBSET FolderFiles /\ \A q \in DOMAIN f : f[q] \in FileType
  BY DEF EntriesType
<1>2. With(f, p, e) \in [DOMAIN f \cup {p} -> FileType]
  BY <1>1 DEF With
<1>3. DOMAIN f \cup {p} \in SUBSET FolderFiles
  BY <1>1
<1>4. With(f, p, e) \in EntriesType
  BY <1>2, <1>3 DEF EntriesType
<1> QED BY <1>4 DEF With

LEMMA WithKept ==
  ASSUME NEW f \in KeptType, NEW p \in FolderFiles, NEW e \in FileContents
  PROVE  /\ With(f, p, e) \in KeptType /\ DOMAIN With(f, p, e) = DOMAIN f \cup {p}
         /\ With(f, p, e)[p] = e
<1>1. DOMAIN f \in SUBSET FolderFiles /\ \A q \in DOMAIN f : f[q] \in FileContents
  BY DEF KeptType
<1>2. With(f, p, e) \in [DOMAIN f \cup {p} -> FileContents]
  BY <1>1 DEF With
<1>3. DOMAIN f \cup {p} \in SUBSET FolderFiles
  BY <1>1
<1>4. With(f, p, e) \in KeptType
  BY <1>2, <1>3 DEF KeptType
<1> QED BY <1>4 DEF With

LEMMA RestrictedEntries ==
  ASSUME NEW f \in EntriesType, NEW S, S \subseteq DOMAIN f
  PROVE  /\ Restrict(f, S) \in EntriesType /\ DOMAIN Restrict(f, S) = S
         /\ \A q \in S : Restrict(f, S)[q] = f[q]
<1>1. DOMAIN f \in SUBSET FolderFiles /\ \A q \in DOMAIN f : f[q] \in FileType
  BY DEF EntriesType
<1>2. Restrict(f, S) \in [S -> FileType] /\ S \in SUBSET FolderFiles
  BY <1>1 DEF Restrict
<1> QED BY <1>2 DEF EntriesType, Restrict

LEMMA EntryTyped ==
  ASSUME NEW r \in RecordType
  PROVE  /\ r.entries \in EntriesType /\ r.stamp \in Nat
         /\ DOMAIN r.entries \in SUBSET FolderFiles /\ \A p \in DOMAIN r.entries : r.entries[p] \in FileType
  BY DEF RecordType, EntriesType

LEMMA CollectionParts ==
  ASSUME CollectionInv
  PROVE  /\ disk \in DiskType /\ record \in RecordType /\ walk \in WalkType /\ walk.record \in RecordType
         /\ disk.files \in FilesType /\ disk.now \in Nat /\ disk.lastRead \in Nat /\ walk.kept \in KeptType
         /\ DOMAIN walk.kept \in SUBSET FolderFiles
         /\ \A p \in FolderFiles : Stands(p) => disk.files[p] \in FileType
<1>1. disk \in DiskType /\ record \in RecordType /\ walk \in WalkType
  BY DEF CollectionInv, CollectionTyped
<1>2. walk.record \in RecordType /\ disk.files \in FilesType /\ disk.now \in Nat /\ disk.lastRead \in Nat
      /\ walk.kept \in KeptType
  BY <1>1 DEF WalkType, DiskType
<1>3. DOMAIN walk.kept \in SUBSET FolderFiles
  BY <1>2 DEF KeptType
<1>4. \A p \in FolderFiles : Stands(p) => disk.files[p] \in FileType
  BY <1>2 DEF FilesType, Stands
<1> QED BY <1>1, <1>2, <1>3, <1>4

(* A step over the files as they stand that leaves the walk's record and    *)
(* what it kept.                                                            *)
LEMMA SpareQuiet ==
  ASSUME CollectionInv, disk'.files = disk.files, disk'.now = disk.now, disk'.clock = disk.clock,
         disk'.lastRead = disk.lastRead, record' = record,
         walk'.at \notin {"read", "stat"}, walk'.record = walk.record, walk'.kept = walk.kept,
         walk'.at \in {"attribute", "collected"} => walk.at = "attribute"
  PROVE  SpareInv'
<1>1. TimesPassed'
  BY DEF CollectionInv, SpareInv, TimesPassed, Stands
<1>2. FineWalk'
  BY DEF CollectionInv, SpareInv, FineWalk, FineRecord, Same, Stands
<1>3. CoarseWalk'
  BY DEF CollectionInv, SpareInv, CoarseWalk, SureRecord, Sure, Same, Stands
<1>4. ReachedOnly' /\ disk'.clock # "any"
  BY DEF CollectionInv, SpareInv, ReachedOnly
<1> QED BY <1>1, <1>2, <1>3, <1>4 DEF SpareInv

(* A step that keeps the rules and the walk's.                              *)
KeepsRules == disk'.rule = disk.rule /\ walk'.allDirs = walk.allDirs
LEMMA RulesKept ==
  ASSUME KeepsRules, NEW p
  PROVE  Keeps(p)' = Keeps(p)
  BY DEF KeepsRules, Keeps

LEMMA KeepsBeginCollection == CollectionInv /\ BeginCollection => CollectionInv'
<1> SUFFICES ASSUME CollectionInv, BeginCollection
             PROVE  CollectionInv'
  OBVIOUS
<1>1. PICK locked \in BOOLEAN, allDirs \in BOOLEAN :
         walk' = [NoWalk EXCEPT !.at = "walk", !.locked = locked, !.allDirs = allDirs,
                    !.todo = Listed(TopFiles), !.listed = Listed(TopFiles), !.dirs = disk.dir,
                    !.record = record]
  BY DEF BeginCollection
<1>2. disk \in DiskType /\ record \in RecordType /\ Listed(TopFiles) \in FileSets /\ disk.dir \in BOOLEAN
      /\ disk.collections - 1 \in Nat
  BY CollectionParts DEF Listed, FileSets, FolderFiles, DiskType, BeginCollection
<1>3. /\ disk' = [disk EXCEPT !.collections = @ - 1] /\ record' = record
  BY DEF BeginCollection
<1>4. /\ disk' \in DiskType /\ disk'.files = disk.files /\ disk'.now = disk.now /\ disk'.clock = disk.clock
      /\ disk'.lastRead = disk.lastRead
  BY <1>2, <1>3 DEF DiskType
<1>5. walk' \in WalkType
  BY <1>1, <1>2, NoWalkTyped DEF WalkType
<1>6. /\ walk'.at = "walk" /\ walk'.record = record /\ walk'.kept = <<>> /\ walk'.todo = walk'.listed
      /\ walk'.left = {} /\ walk'.skipped = {} /\ walk'.on = {}
  BY <1>1 DEF NoWalk
<1>7. CollectionTyped'
  BY <1>2, <1>3, <1>4, <1>5, <1>6 DEF CollectionTyped
<1>8. SpareInv'
  <2>1. TimesPassed'
    BY <1>3, <1>4, <1>6 DEF CollectionInv, SpareInv, TimesPassed, Stands
  <2>2. FineWalk'
    BY <1>3, <1>4, <1>6 DEF CollectionInv, SpareInv, FineWalk, FineRecord, Same, Stands
  <2>3. CoarseWalk'
    BY <1>3, <1>4, <1>6 DEF CollectionInv, SpareInv, CoarseWalk, SureRecord, Sure, Same, Stands
  <2> QED BY <1>4, <1>6, <2>1, <2>2, <2>3 DEF CollectionInv, SpareInv, ReachedOnly
<1>9. LeftInv'
  BY <1>6 DEF LeftInv
<1> QED BY <1>7, <1>8, <1>9 DEF CollectionInv

LEMMA KeepsReadDirectory == CollectionInv /\ ReadDirectory => CollectionInv'
<1> SUFFICES ASSUME CollectionInv, ReadDirectory
             PROVE  CollectionInv'
  OBVIOUS
<1>1. disk' = disk /\ record' = record /\ walk.at = "walk" /\ walk \in WalkType
  BY CollectionParts DEF ReadDirectory
<1>2. CASE walk' = [walk EXCEPT !.dirs = FALSE, !.todo = @ \cup Listed(DirFiles), !.listed = @ \cup Listed(DirFiles)]
  <2>1. /\ walk.todo \cup Listed(DirFiles) \in FileSets /\ walk.listed \cup Listed(DirFiles) \in FileSets
    BY <1>1 DEF WalkType, FileSets, Listed, FolderFiles
  <2>2. walk' \in WalkType
    BY <1>1, <1>2, <2>1 DEF WalkType
  <2>3. /\ walk'.at = walk.at /\ walk'.record = walk.record /\ walk'.kept = walk.kept /\ walk'.on = walk.on
        /\ walk'.left = walk.left /\ walk'.skipped = walk.skipped /\ walk'.gone = walk.gone
        /\ walk'.todo = walk.todo \cup Listed(DirFiles) /\ walk'.listed = walk.listed \cup Listed(DirFiles)
        /\ walk'.allDirs = walk.allDirs /\ walk'.goneDir = walk.goneDir
    BY <1>1, <1>2 DEF WalkType
  <2>4. CollectionTyped'
    BY <1>1, <2>2, <2>3 DEF CollectionInv, CollectionTyped
  <2>5. SpareInv'
    BY <1>1, <2>3, SpareQuiet
  <2>6. LeftInv'
    BY <1>1, <2>3 DEF CollectionInv, LeftInv, Keeps, NotMet
  <2> QED BY <2>4, <2>5, <2>6 DEF CollectionInv
<1>3. CASE walk' = [walk EXCEPT !.dirs = FALSE, !.goneDir = TRUE]
  <2>2. walk' \in WalkType
    BY <1>1, <1>3 DEF WalkType
  <2>3. /\ walk'.at = walk.at /\ walk'.record = walk.record /\ walk'.kept = walk.kept /\ walk'.on = walk.on
        /\ walk'.left = walk.left /\ walk'.skipped = walk.skipped /\ walk'.gone = walk.gone
        /\ walk'.todo = walk.todo /\ walk'.listed = walk.listed
        /\ walk'.allDirs = walk.allDirs
    BY <1>1, <1>3 DEF WalkType
  <2>4. CollectionTyped'
    BY <1>1, <2>2, <2>3 DEF CollectionInv, CollectionTyped
  <2>5. SpareInv'
    BY <1>1, <2>3, SpareQuiet
  <2>6. LeftInv'
    BY <1>1, <2>3 DEF CollectionInv, LeftInv, Keeps
  <2> QED BY <2>4, <2>5, <2>6 DEF CollectionInv
<1> QED BY <1>2, <1>3 DEF ReadDirectory

LEMMA KeepsLeaveOut ==
  ASSUME CollectionInv, NEW p \in FolderFiles, LeaveOut(p)
  PROVE  CollectionInv'
<1> DEFINE left == IF disk.rule[p] \in {"too_large", "pipe", "machine_name"} THEN walk.left \cup {p} ELSE walk.left
<1>1. disk' = disk /\ record' = record /\ walk.at = "walk" /\ ~Keeps(p) /\ walk \in WalkType
      /\ walk' = [walk EXCEPT !.todo = @ \ {p}, !.left = left]
  BY CollectionParts DEF LeaveOut
<1>2. walk.todo \ {p} \in FileSets /\ left \in FileSets /\ left \subseteq walk.left \cup {p}
  BY <1>1 DEF WalkType, FileSets
<1> HIDE DEF left
<1>3. walk' \in WalkType
  BY <1>1, <1>2 DEF WalkType
<1>4. /\ walk'.at = walk.at /\ walk'.record = walk.record /\ walk'.kept = walk.kept /\ walk'.on = walk.on
      /\ walk'.left = left /\ walk'.skipped = walk.skipped /\ walk'.gone = walk.gone
      /\ walk'.todo = walk.todo \ {p} /\ walk'.listed = walk.listed
      /\ walk'.allDirs = walk.allDirs /\ walk'.goneDir = walk.goneDir
  BY <1>1 DEF WalkType
<1>5. CollectionTyped'
  BY <1>1, <1>3, <1>4 DEF CollectionInv, CollectionTyped
<1>6. SpareInv'
  BY <1>1, <1>4, SpareQuiet
<1>7. LeftInv'
  BY <1>1, <1>2, <1>4 DEF CollectionInv, LeftInv, Keeps, NotMet
<1> QED BY <1>5, <1>6, <1>7 DEF CollectionInv

(* A file gone where the walk came to it.                                   *)
LEMMA KeepsGone ==
  ASSUME CollectionInv, NEW p \in FolderFiles, walk.at \in {"walk", "read"}, walk' = GoneAt(p),
         disk' = disk, record' = record
  PROVE  CollectionInv'
<1>1. walk \in WalkType
  BY CollectionParts
<1>2. walk.todo \ {p} \in FileSets /\ {} \in FileSets /\ walk.gone \cup {p} \in FileSets
  BY <1>1 DEF WalkType, FileSets
<1>3. walk' \in WalkType
  BY <1>1, <1>2 DEF GoneAt, WalkType
<1>4. /\ walk'.at = "walk" /\ walk'.record = walk.record /\ walk'.kept = walk.kept /\ walk'.on = {}
      /\ walk'.left = walk.left /\ walk'.skipped = walk.skipped /\ walk'.gone = walk.gone \cup {p}
      /\ walk'.todo = walk.todo \ {p} /\ walk'.listed = walk.listed
      /\ walk'.allDirs = walk.allDirs /\ walk'.goneDir = walk.goneDir
  BY <1>1 DEF GoneAt, WalkType
<1>5. CollectionTyped'
  BY <1>3, <1>4 DEF CollectionInv, CollectionTyped
<1>6. SpareInv'
  BY <1>4, SpareQuiet
<1>7. LeftInv'
  BY <1>4 DEF CollectionInv, LeftInv, Keeps
<1> QED BY <1>5, <1>6, <1>7 DEF CollectionInv

(* The read an entry spares answers the file as it stands.                  *)
LEMMA TrustedStands ==
  ASSUME CollectionInv, NEW p \in FolderFiles, Stands(p), Trusted(walk.record, p, StatOf(disk.files[p]))
  PROVE  /\ p \in DOMAIN walk.record.entries /\ walk.record.entries[p] \in FileType
         /\ walk.record.entries[p].content = disk.files[p].content
<1> DEFINE e == walk.record.entries[p]
<1>1. /\ walk.record \in RecordType /\ p \in DOMAIN walk.record.entries /\ e \in FileType
      /\ disk.files[p] \in FileType /\ disk.clock \in {"coarse", "fine"}
  BY CollectionParts, EntryTyped DEF Trusted, CollectionInv, SpareInv, DiskType
<1>2. StatOf(e) = StatOf(disk.files[p])
  BY DEF Trusted
<1>3. e.ctime < walk.record.stamp
  <2>1. e.ctime = disk.files[p].ctime
    BY <1>1, <1>2, StatTyped
  <2>2. disk.files[p].ctime < walk.record.stamp
    BY <1>1, StatTyped DEF Trusted
  <2> QED BY <2>1, <2>2
<1>4. Same(e, p)
  <2>1. CASE disk.clock = "fine"
    BY <1>1, <2>1 DEF CollectionInv, SpareInv, FineWalk, FineRecord
  <2>2. CASE disk.clock = "coarse"
    BY <1>1, <1>3, <2>2 DEF CollectionInv, SpareInv, CoarseWalk, SureRecord, Sure
  <2> QED BY <1>1, <2>1, <2>2
<1> QED BY <1>1, <1>2, <1>4 DEF Same

LEMMA KeepsSpared ==
  ASSUME CollectionInv, NEW p \in FolderFiles, walk.at = "walk", p \in walk.todo, Keeps(p), Stands(p),
         Trusted(walk.record, p, StatOf(disk.files[p])), disk' = disk, record' = record,
         walk' = [walk EXCEPT !.todo = @ \ {p}, !.spared = @ \cup {p},
                    !.kept = With(@, p, walk.record.entries[p].content)]
  PROVE  CollectionInv'
<1> DEFINE e == walk.record.entries[p]
           kept == With(walk.kept, p, e.content)
<1>1. walk \in WalkType /\ walk.kept \in KeptType
  BY CollectionParts
<1>2. p \in DOMAIN walk.record.entries /\ e \in FileType /\ e.content = disk.files[p].content
  BY TrustedStands
<1>3. kept \in KeptType /\ DOMAIN kept = DOMAIN walk.kept \cup {p}
  BY <1>1, <1>2, WithKept DEF FileType
<1>4. walk.todo \ {p} \in FileSets /\ walk.spared \cup {p} \in FileSets
  BY <1>1 DEF WalkType, FileSets
<1>5. walk' = [walk EXCEPT !.todo = @ \ {p}, !.spared = @ \cup {p}, !.kept = kept]
  OBVIOUS
<1> HIDE DEF kept
<1>6. walk' \in WalkType
  BY <1>1, <1>3, <1>4, <1>5 DEF WalkType
<1>7. /\ walk'.at = "walk" /\ walk'.record = walk.record /\ walk'.kept = kept /\ walk'.on = walk.on
      /\ walk'.left = walk.left /\ walk'.skipped = walk.skipped /\ walk'.gone = walk.gone
      /\ walk'.todo = walk.todo \ {p} /\ walk'.listed = walk.listed
      /\ walk'.allDirs = walk.allDirs /\ walk'.goneDir = walk.goneDir
  BY <1>1, <1>5 DEF WalkType
<1>8. CollectionTyped'
  BY <1>6, <1>7 DEF CollectionInv, CollectionTyped
<1>9. SpareInv'
  <2>1. TimesPassed'
    BY <1>7 DEF CollectionInv, SpareInv, TimesPassed, Stands
  <2>2. FineWalk'
    BY <1>7 DEF CollectionInv, SpareInv, FineWalk, FineRecord, Same, Stands
  <2>3. CoarseWalk'
    <3>1. SUFFICES ASSUME disk.clock = "coarse"
                   PROVE  CoarseWalk'
      BY DEF CoarseWalk
    <3>2. SureRecord(record)' /\ SureRecord(walk.record)'
      BY <1>7, <3>1 DEF CollectionInv, SpareInv, CoarseWalk, SureRecord, Sure, Same, Stands
    <3>3. \A q \in DOMAIN walk.record.entries \cap DOMAIN kept : Sure(walk.record.entries[q], q, disk.now)
      BY <1>2, <1>3, <3>1 DEF CollectionInv, SpareInv, CoarseWalk, Sure, Same
    <3>4. (\A q \in DOMAIN walk.record.entries \cap DOMAIN walk.kept : Sure(walk.record.entries[q], q, disk.now))'
      BY <1>7, <3>3 DEF Sure, Same, Stands
    <3> QED BY <1>7, <3>2, <3>4 DEF CoarseWalk
  <2> QED BY <1>7, <2>1, <2>2, <2>3 DEF CollectionInv, SpareInv, ReachedOnly
<1>10. LeftInv'
  BY <1>3, <1>7 DEF CollectionInv, LeftInv, Keeps
<1> QED BY <1>8, <1>9, <1>10 DEF CollectionInv

LEMMA KeepsUntrusted ==
  ASSUME CollectionInv, NEW p \in FolderFiles, walk.at = "walk", Keeps(p), Stands(p), disk' = disk, record' = record,
         walk' = [walk EXCEPT !.at = "read", !.on = {p}, !.before = StatOf(disk.files[p])]
  PROVE  CollectionInv'
<1> DEFINE s == StatOf(disk.files[p])
<1>1. walk \in WalkType /\ disk.files[p] \in FileType
  BY CollectionParts
<1>2. s \in StatType /\ s.ctime = disk.files[p].ctime /\ s \in Before /\ {p} \in FileSets
  BY <1>1, StatTyped DEF Before, FileSets
<1>3. walk' = [walk EXCEPT !.at = "read", !.on = {p}, !.before = s]
  OBVIOUS
<1> HIDE DEF s
<1>4. walk' \in WalkType
  BY <1>1, <1>2, <1>3 DEF WalkType
<1>5. /\ walk'.at = "read" /\ walk'.record = walk.record /\ walk'.kept = walk.kept /\ walk'.on = {p}
      /\ walk'.left = walk.left /\ walk'.skipped = walk.skipped /\ walk'.gone = walk.gone
      /\ walk'.todo = walk.todo /\ walk'.listed = walk.listed /\ walk'.before = s
      /\ walk'.allDirs = walk.allDirs /\ walk'.goneDir = walk.goneDir
  BY <1>1, <1>3 DEF WalkType
<1>6. CollectionTyped'
  BY <1>2, <1>4, <1>5 DEF CollectionInv, CollectionTyped
<1>7. SpareInv'
  <2>1. TimesPassed'
    BY <1>2, <1>5 DEF CollectionInv, SpareInv, TimesPassed, Stands
  <2>2. FineWalk'
    BY <1>5 DEF CollectionInv, SpareInv, FineWalk, FineRecord, Same, Stands
  <2>3. CoarseWalk'
    BY <1>5 DEF CollectionInv, SpareInv, CoarseWalk, SureRecord, Sure, Same, Stands
  <2> QED BY <1>5, <2>1, <2>2, <2>3 DEF CollectionInv, SpareInv, ReachedOnly
<1>8. LeftInv'
  BY <1>5 DEF CollectionInv, LeftInv, Keeps, NotMet
<1> QED BY <1>6, <1>7, <1>8 DEF CollectionInv

LEMMA KeepsStatBefore ==
  ASSUME CollectionInv, NEW p \in FolderFiles, StatBefore(p)
  PROVE  CollectionInv'
<1>1. CASE ~Stands(p) /\ walk' = GoneAt(p)
  BY <1>1, KeepsGone DEF StatBefore
<1>2. CASE /\ Stands(p) /\ Trusted(walk.record, p, StatOf(disk.files[p]))
           /\ walk' = [walk EXCEPT !.todo = @ \ {p}, !.spared = @ \cup {p},
                         !.kept = With(@, p, walk.record.entries[p].content)]
  BY <1>2, KeepsSpared DEF StatBefore
<1>3. CASE Stands(p) /\ walk' = [walk EXCEPT !.at = "read", !.on = {p}, !.before = StatOf(disk.files[p])]
  BY <1>3, KeepsUntrusted DEF StatBefore
<1> QED BY <1>1, <1>2, <1>3 DEF StatBefore

LEMMA KeepsRead ==
  ASSUME CollectionInv, NEW p \in FolderFiles, Read(p)
  PROVE  CollectionInv'
<1>0. walk.at = "read" /\ p \in walk.on /\ record' = record /\ walk \in WalkType /\ disk \in DiskType
      /\ walk.on = {p}
  BY CollectionParts DEF Read, CollectionInv, CollectionTyped
<1>1. CASE ~Stands(p)
  BY <1>0, <1>1, KeepsGone DEF Read
<1>2. CASE Stands(p)
  <2> DEFINE x == disk.files[p].content
  <2>1. /\ walk' = [walk EXCEPT !.at = "stat", !.found = x] /\ disk' = [disk EXCEPT !.lastRead = disk.now]
        /\ x \in FileContents /\ x \in Found
    BY <1>2, CollectionParts DEF Read, FileType, Found
  <2>2. /\ disk' \in DiskType /\ disk'.files = disk.files /\ disk'.now = disk.now /\ disk'.clock = disk.clock
        /\ disk'.lastRead = disk.now /\ disk'.rule = disk.rule
    BY <1>0, <2>1 DEF DiskType
  <2>3. walk' \in WalkType
    BY <1>0, <2>1 DEF WalkType
  <2>4. /\ walk'.at = "stat" /\ walk'.record = walk.record /\ walk'.kept = walk.kept /\ walk'.on = walk.on
        /\ walk'.left = walk.left /\ walk'.skipped = walk.skipped /\ walk'.gone = walk.gone
        /\ walk'.todo = walk.todo /\ walk'.listed = walk.listed /\ walk'.before = walk.before
        /\ walk'.allDirs = walk.allDirs /\ walk'.goneDir = walk.goneDir /\ walk'.found = x
    BY <1>0, <2>1 DEF WalkType
  <2>5. CollectionTyped'
    BY <1>0, <2>1, <2>2, <2>3, <2>4 DEF CollectionInv, CollectionTyped
  <2>6. disk.now \in Nat /\ disk.lastRead \in Nat /\ disk.lastRead <= disk.now
    BY CollectionParts DEF CollectionInv, SpareInv, TimesPassed
  <2>7. TimesPassed'
    BY <1>0, <2>2, <2>4, <2>6 DEF CollectionInv, SpareInv, TimesPassed, Stands
  <2>8. FineWalk'
    <3>1. SUFFICES ASSUME disk.clock = "fine"
                   PROVE  FineWalk'
      BY <2>2 DEF FineWalk
    <3>2. FineRecord(record)'
      <4>1. \A q \in DOMAIN record.entries : record.entries[q].ctime \in Nat
        BY CollectionParts, EntryTyped DEF FileType
      <4>2. FineRecord(record)
        BY <3>1 DEF CollectionInv, SpareInv, FineWalk
      <4> QED BY <1>0, <2>2, <2>6, <4>1, <4>2 DEF FineRecord, Same, Stands
    <3>3. FineRecord(walk.record)'
      <4>1. \A q \in DOMAIN walk.record.entries : walk.record.entries[q].ctime \in Nat
        BY CollectionParts, EntryTyped DEF FileType
      <4>2. FineRecord(walk.record)
        BY <3>1 DEF CollectionInv, SpareInv, FineWalk
      <4> QED BY <2>2, <2>4, <2>6, <4>1, <4>2 DEF FineRecord, Same, Stands
    <3>4. walk'.before.ctime <= disk'.lastRead
      BY <1>0, <2>2, <2>4 DEF CollectionInv, SpareInv, TimesPassed
    <3> QED BY <1>0, <2>2, <2>4, <3>2, <3>3, <3>4 DEF FineWalk
  <2>9. CoarseWalk'
    BY <1>0, <2>2, <2>4 DEF CollectionInv, SpareInv, CoarseWalk, SureRecord, Sure, Same, Stands
  <2>10. SpareInv'
    BY <2>2, <2>4, <2>7, <2>8, <2>9 DEF CollectionInv, SpareInv, ReachedOnly
  <2>11. LeftInv'
    BY <1>0, <2>2, <2>4 DEF CollectionInv, LeftInv, Keeps, NotMet
  <2> QED BY <2>5, <2>10, <2>11 DEF CollectionInv
<1> QED BY <1>1, <1>2

(* What the stat after a read leaves in the walk's record.                  *)
LEMMA ObservedTyped ==
  ASSUME CollectionInv, NEW p \in FolderFiles, walk.at = "stat"
  PROVE  LET r == Observed(walk.record, p, walk.before, walk.found)
             e == [walk.before EXCEPT !.content = walk.found]
         IN /\ r \in RecordType /\ r.stamp = walk.record.stamp
            /\ \A q \in DOMAIN r.entries \ {p} :
                  q \in DOMAIN walk.record.entries /\ r.entries[q] = walk.record.entries[q]
            /\ p \in DOMAIN r.entries =>
                  \/ ~Stands(p) /\ p \in DOMAIN walk.record.entries /\ r.entries[p] = walk.record.entries[p]
                  \/ Stands(p) /\ walk.before = StatOf(disk.files[p]) /\ r.entries[p] = e
<1> DEFINE R == walk.record
           e == [walk.before EXCEPT !.content = walk.found]
           laid == With(R.entries, p, e)
           cut == Restrict(R.entries, DOMAIN R.entries \ {p})
           r == Observed(R, p, walk.before, walk.found)
<1>1. R \in RecordType /\ R.entries \in EntriesType
  BY CollectionParts, EntryTyped
<1>2. walk.before \in StatType /\ walk.found \in FileContents
  BY DEF CollectionInv, CollectionTyped
<1>3. e \in FileType
  BY <1>2, EntryOfStat
<1> HIDE DEF e
<1>4. /\ laid \in EntriesType /\ DOMAIN laid = DOMAIN R.entries \cup {p} /\ laid[p] = e
      /\ \A q \in DOMAIN R.entries \ {p} : laid[q] = R.entries[q]
  BY <1>1, <1>3, WithEntry
<1>5. /\ cut \in EntriesType /\ DOMAIN cut = DOMAIN R.entries \ {p}
      /\ \A q \in DOMAIN R.entries \ {p} : cut[q] = R.entries[q]
  BY <1>1, RestrictedEntries
<1>6. r = IF ~Stands(p) THEN R
          ELSE IF walk.before = StatOf(disk.files[p]) THEN [R EXCEPT !.entries = laid] ELSE [R EXCEPT !.entries = cut]
  BY DEF Observed, e
<1> HIDE DEF r, laid, cut
<1>7. CASE ~Stands(p)
  BY <1>1, <1>6, <1>7 DEF r, e
<1>8. CASE Stands(p) /\ walk.before = StatOf(disk.files[p])
  <2>1. r \in RecordType /\ r.stamp = R.stamp /\ r.entries = laid
    BY <1>1, <1>4, <1>6, <1>8 DEF RecordType
  <2> QED BY <1>4, <1>8, <2>1 DEF r, e
<1>9. CASE Stands(p) /\ walk.before # StatOf(disk.files[p])
  <2>1. r \in RecordType /\ r.stamp = R.stamp /\ r.entries = cut
    BY <1>1, <1>5, <1>6, <1>9 DEF RecordType
  <2> QED BY <1>5, <1>9, <2>1 DEF r, e
<1> QED BY <1>7, <1>8, <1>9

LEMMA KeepsStatAfter ==
  ASSUME CollectionInv, NEW p \in FolderFiles, StatAfter(p)
  PROVE  CollectionInv'
<1> DEFINE r == Observed(walk.record, p, walk.before, walk.found)
           e == [walk.before EXCEPT !.content = walk.found]
           kept == With(walk.kept, p, walk.found)
<1>0. /\ walk.at = "stat" /\ p \in walk.on /\ disk' = disk /\ record' = record /\ walk \in WalkType
      /\ walk.kept \in KeptType /\ walk.before \in StatType /\ walk.found \in FileContents
      /\ disk.clock \in {"coarse", "fine"} /\ disk.now \in Nat
  BY CollectionParts DEF StatAfter, CollectionInv, CollectionTyped, SpareInv, DiskType
<1>1. /\ r \in RecordType /\ r.stamp = walk.record.stamp
      /\ \A q \in DOMAIN r.entries \ {p} :
            q \in DOMAIN walk.record.entries /\ r.entries[q] = walk.record.entries[q]
      /\ p \in DOMAIN r.entries =>
            \/ ~Stands(p) /\ p \in DOMAIN walk.record.entries /\ r.entries[p] = walk.record.entries[p]
            \/ Stands(p) /\ walk.before = StatOf(disk.files[p]) /\ r.entries[p] = e
  BY <1>0, ObservedTyped
<1>2. kept \in KeptType /\ DOMAIN kept = DOMAIN walk.kept \cup {p}
  <2>1. \A f \in KeptType, x \in FileContents :
           With(f, p, x) \in KeptType /\ DOMAIN With(f, p, x) = DOMAIN f \cup {p}
    BY WithKept
  <2> QED BY <1>0, <2>1
<1>3. walk.todo \ {p} \in FileSets /\ {} \in FileSets
  BY <1>0 DEF WalkType, FileSets
<1>4. walk' = [walk EXCEPT !.at = "walk", !.todo = @ \ {p}, !.on = {}, !.kept = kept, !.record = r]
  BY <1>0 DEF StatAfter
<1>5. e.ctime = walk.before.ctime /\ e.content = walk.found /\ StatOf(e) = walk.before
  BY <1>0, EntryOfStat
<1> HIDE DEF r, kept, e
<1>6. walk' \in WalkType
  BY <1>0, <1>1, <1>2, <1>3, <1>4 DEF WalkType
<1>7. /\ walk'.at = "walk" /\ walk'.record = r /\ walk'.kept = kept /\ walk'.on = {}
      /\ walk'.left = walk.left /\ walk'.skipped = walk.skipped /\ walk'.gone = walk.gone
      /\ walk'.todo = walk.todo \ {p} /\ walk'.listed = walk.listed
      /\ walk'.allDirs = walk.allDirs /\ walk'.goneDir = walk.goneDir
  BY <1>0, <1>4 DEF WalkType
<1>8. CollectionTyped'
  BY <1>0, <1>6, <1>7 DEF CollectionInv, CollectionTyped
<1>9. TimesPassed'
  BY <1>0, <1>1, <1>7 DEF CollectionInv, SpareInv, TimesPassed, Stands
<1>10. FineWalk'
  <2>1. SUFFICES ASSUME disk.clock = "fine"
                 PROVE  FineWalk'
    BY <1>0 DEF FineWalk
  <2>2. FineRecord(record) /\ FineRecord(walk.record)
    BY <2>1 DEF CollectionInv, SpareInv, FineWalk
  <2>3. walk.before.ctime <= disk.lastRead
        /\ (Stands(p) /\ walk.before = StatOf(disk.files[p]) => walk.found = disk.files[p].content)
    BY <1>0, <2>1 DEF CollectionInv, SpareInv, FineWalk
  <2>4. FineRecord(r)
    BY <1>1, <1>5, <2>2, <2>3 DEF FineRecord, Same
  <2>5. FineRecord(record)' /\ FineRecord(walk.record)'
    BY <1>0, <1>7, <2>2, <2>4 DEF FineRecord, Same, Stands
  <2> QED BY <1>7, <2>5 DEF FineWalk
<1>11. CoarseWalk'
  <2>1. SUFFICES ASSUME disk.clock = "coarse"
                 PROVE  CoarseWalk'
    BY <1>0 DEF CoarseWalk
  <2>2. /\ SureRecord(record) /\ SureRecord(walk.record)
        /\ \A q \in DOMAIN walk.record.entries \cap DOMAIN walk.kept : Sure(walk.record.entries[q], q, disk.now)
        /\ Stands(p) /\ disk.files[p].ctime < disk.now => walk.found = disk.files[p].content
    BY <1>0, <2>1 DEF CollectionInv, SpareInv, CoarseWalk
  <2>3. p \in DOMAIN r.entries => Sure(r.entries[p], p, disk.now)
    <3>1. CASE ~Stands(p)
      BY <3>1 DEF Sure, Same
    <3>2. ASSUME Stands(p), walk.before = StatOf(disk.files[p]), r.entries[p] = e, e.ctime < disk.now
          PROVE  Same(r.entries[p], p)
      <4>1. disk.files[p].ctime = e.ctime
        BY <1>5, <3>2, CollectionParts, StatTyped
      <4> QED BY <1>5, <2>2, <3>2, <4>1 DEF Same
    <3> QED BY <1>1, <3>1, <3>2 DEF Sure
  <2>4. r.stamp <= disk.now /\ r.stamp \in Nat
    BY <1>1, EntryTyped DEF CollectionInv, SpareInv, TimesPassed
  <2>5. SureRecord(r)
    <3>1. \A q \in DOMAIN r.entries \ {p} : Sure(r.entries[q], q, r.stamp)
      BY <1>1, <2>2 DEF SureRecord
    <3>2. p \in DOMAIN r.entries => Sure(r.entries[p], p, r.stamp)
      <4>1. p \in DOMAIN r.entries => r.entries[p].ctime \in Nat
        BY <1>1, EntryTyped DEF FileType
      <4> QED BY <1>0, <2>3, <2>4, <4>1 DEF Sure
    <3> QED BY <3>1, <3>2 DEF SureRecord
  <2>6. \A q \in DOMAIN r.entries \cap DOMAIN kept : Sure(r.entries[q], q, disk.now)
    BY <1>1, <1>2, <2>2, <2>3
  <2>7. SureRecord(record)' /\ SureRecord(walk.record)'
    BY <1>0, <1>7, <2>2, <2>5 DEF SureRecord, Sure, Same, Stands
  <2>8. (\A q \in DOMAIN walk.record.entries \cap DOMAIN walk.kept : Sure(walk.record.entries[q], q, disk.now))'
    BY <1>0, <1>7, <2>6 DEF Sure, Same, Stands
  <2> QED BY <1>7, <2>7, <2>8 DEF CoarseWalk
<1>12. SpareInv'
  BY <1>0, <1>7, <1>9, <1>10, <1>11 DEF CollectionInv, SpareInv, ReachedOnly
<1>13. LeftInv'
  <2>1. Keeps(p)
    BY <1>0 DEF CollectionInv, LeftInv
  <2> QED BY <1>0, <1>2, <1>7, <2>1 DEF CollectionInv, LeftInv, Keeps, NotMet
<1> QED BY <1>8, <1>12, <1>13 DEF CollectionInv

LEMMA KeepsEndKeptWalk == CollectionInv /\ EndKeptWalk => CollectionInv'
<1> SUFFICES ASSUME CollectionInv, EndKeptWalk
             PROVE  CollectionInv'
  OBVIOUS
<1> DEFINE R == walk.record
           both == DOMAIN R.entries \cap DOMAIN walk.kept
           cut == Restrict(R.entries, both)
           r == Reached(R)
<1>0. /\ walk.at = "walk" /\ walk.todo = {} /\ disk' = disk /\ record' = record /\ walk \in WalkType
      /\ R \in RecordType /\ R.entries \in EntriesType
      /\ walk' = [walk EXCEPT !.at = "attribute", !.todo = FolderFiles, !.record = r]
  BY CollectionParts, EntryTyped DEF EndKeptWalk
<1>1. /\ cut \in EntriesType /\ DOMAIN cut = both /\ \A q \in both : cut[q] = R.entries[q]
  <2>1. both \subseteq DOMAIN R.entries
    OBVIOUS
  <2> HIDE DEF both
  <2> QED BY <1>0, <2>1, RestrictedEntries
<1>2. r = [R EXCEPT !.entries = cut]
  BY DEF Reached
<1> HIDE DEF cut, r
<1>3. r \in RecordType /\ r.stamp = R.stamp /\ r.entries = cut /\ FolderFiles \in FileSets
  BY <1>0, <1>1, <1>2 DEF RecordType, FileSets
<1>4. walk' \in WalkType
  BY <1>0, <1>3 DEF WalkType
<1>5. /\ walk'.at = "attribute" /\ walk'.record = r /\ walk'.kept = walk.kept /\ walk'.on = walk.on
      /\ walk'.left = walk.left /\ walk'.skipped = walk.skipped /\ walk'.gone = walk.gone
      /\ walk'.todo = FolderFiles /\ walk'.listed = walk.listed
      /\ walk'.allDirs = walk.allDirs /\ walk'.goneDir = walk.goneDir
  BY <1>0 DEF WalkType
<1>6. CollectionTyped'
  BY <1>0, <1>4, <1>5 DEF CollectionInv, CollectionTyped
<1>7. TimesPassed'
  BY <1>0, <1>3, <1>5 DEF CollectionInv, SpareInv, TimesPassed, Stands
<1>8. FineWalk'
  <2>1. SUFFICES ASSUME disk.clock = "fine"
                 PROVE  FineWalk'
    BY <1>0 DEF FineWalk
  <2>2. FineRecord(record) /\ FineRecord(R)
    BY <2>1 DEF CollectionInv, SpareInv, FineWalk
  <2>3. FineRecord(r)
    BY <1>1, <1>3, <2>2 DEF FineRecord
  <2>4. FineRecord(record)' /\ FineRecord(walk.record)'
    BY <1>0, <1>5, <2>2, <2>3 DEF FineRecord, Same, Stands
  <2> QED BY <1>5, <2>4 DEF FineWalk
<1>9. CoarseWalk'
  <2>1. SUFFICES ASSUME disk.clock = "coarse"
                 PROVE  CoarseWalk'
    BY <1>0 DEF CoarseWalk
  <2>2. /\ SureRecord(record) /\ SureRecord(R)
        /\ \A q \in both : Sure(R.entries[q], q, disk.now)
    BY <2>1 DEF CollectionInv, SpareInv, CoarseWalk
  <2>3. SureRecord(r) /\ \A q \in DOMAIN r.entries \cap DOMAIN walk.kept : Sure(r.entries[q], q, disk.now)
    BY <1>1, <1>3, <2>2 DEF SureRecord
  <2>4. SureRecord(record)' /\ SureRecord(walk.record)'
    BY <1>0, <1>5, <2>2, <2>3 DEF SureRecord, Sure, Same, Stands
  <2>5. (\A q \in DOMAIN walk.record.entries \cap DOMAIN walk.kept : Sure(walk.record.entries[q], q, disk.now))'
    BY <1>0, <1>5, <2>3 DEF Sure, Same, Stands
  <2> QED BY <1>5, <2>4, <2>5 DEF CoarseWalk
<1>10. SpareInv'
  BY <1>0, <1>1, <1>3, <1>5, <1>7, <1>8, <1>9 DEF CollectionInv, SpareInv, ReachedOnly
<1>11. LeftInv'
  BY <1>0, <1>5 DEF CollectionInv, LeftInv, Keeps, NotMet
<1> QED BY <1>6, <1>10, <1>11 DEF CollectionInv

LEMMA KeepsAttribute ==
  ASSUME CollectionInv, NEW p \in FolderFiles, Attribute(p)
  PROVE  CollectionInv'
<1> DEFINE left == Stands(p) /\ ~NotMet(p) /\ p \notin DOMAIN walk.kept
           skipped == IF left THEN walk.skipped \cup {p} ELSE walk.skipped
<1>1. disk' = disk /\ record' = record /\ walk.at = "attribute" /\ walk \in WalkType
      /\ walk' = [walk EXCEPT !.todo = @ \ {p}, !.skipped = skipped]
  BY CollectionParts DEF Attribute
<1>2. walk.todo \ {p} \in FileSets /\ skipped \in FileSets
  BY <1>1 DEF WalkType, FileSets
<1>3. \A q \in skipped : q \in walk.skipped \/ (q \notin DOMAIN walk.kept /\ ~NotMet(q))
  OBVIOUS
<1> HIDE DEF skipped
<1>4. walk' \in WalkType
  BY <1>1, <1>2 DEF WalkType
<1>5. /\ walk'.at = walk.at /\ walk'.record = walk.record /\ walk'.kept = walk.kept /\ walk'.on = walk.on
      /\ walk'.left = walk.left /\ walk'.skipped = skipped /\ walk'.gone = walk.gone
      /\ walk'.todo = walk.todo \ {p} /\ walk'.listed = walk.listed
      /\ walk'.allDirs = walk.allDirs /\ walk'.goneDir = walk.goneDir
  BY <1>1 DEF WalkType
<1>6. CollectionTyped'
  BY <1>1, <1>4, <1>5 DEF CollectionInv, CollectionTyped
<1>7. SpareInv'
  BY <1>1, <1>5, SpareQuiet
<1>8. LeftInv'
  BY <1>1, <1>3, <1>5 DEF CollectionInv, LeftInv, Keeps, NotMet
<1> QED BY <1>6, <1>7, <1>8 DEF CollectionInv

LEMMA KeepsRestamp == CollectionInv /\ Restamp => CollectionInv'
<1> SUFFICES ASSUME CollectionInv, Restamp
             PROVE  CollectionInv'
  OBVIOUS
<1> DEFINE R == walk.record
<1>1. /\ disk' = disk /\ walk.at = "attribute" /\ walk.todo = {} /\ walk \in WalkType /\ R \in RecordType
      /\ walk' = [walk EXCEPT !.at = "collected"] /\ disk.now \in Nat /\ record \in RecordType
  BY CollectionParts DEF Restamp
<1>2. \/ record' = [R EXCEPT !.stamp = disk.now]
      \/ record' = [R EXCEPT !.stamp = 0]
      \/ record' = record
  BY DEF Restamp
<1>3. record' \in RecordType
  BY <1>1, <1>2 DEF RecordType
<1>4. walk' \in WalkType
  BY <1>1 DEF WalkType
<1>5. /\ walk'.at = "collected" /\ walk'.record = R /\ walk'.kept = walk.kept /\ walk'.on = walk.on
      /\ walk'.left = walk.left /\ walk'.skipped = walk.skipped /\ walk'.gone = walk.gone
      /\ walk'.todo = walk.todo /\ walk'.listed = walk.listed
      /\ walk'.allDirs = walk.allDirs /\ walk'.goneDir = walk.goneDir
  BY <1>1 DEF WalkType
<1>6. CollectionTyped'
  BY <1>1, <1>3, <1>4, <1>5 DEF CollectionInv, CollectionTyped
<1>7. \/ record'.entries = R.entries /\ record'.stamp \in {disk.now, 0}
      \/ record' = record
  BY <1>1, <1>2 DEF RecordType
<1>8. TimesPassed'
  BY <1>1, <1>5, <1>7 DEF CollectionInv, SpareInv, TimesPassed, Stands
<1>9. FineWalk'
  <2>1. SUFFICES ASSUME disk.clock = "fine"
                 PROVE  FineWalk'
    BY <1>1 DEF FineWalk
  <2>2. FineRecord(record) /\ FineRecord(R)
    BY <2>1 DEF CollectionInv, SpareInv, FineWalk
  <2>3. FineRecord(record)' /\ FineRecord(walk.record)'
    BY <1>1, <1>5, <1>7, <2>2 DEF FineRecord, Same, Stands
  <2> QED BY <1>5, <2>3 DEF FineWalk
<1>10. CoarseWalk'
  <2>1. SUFFICES ASSUME disk.clock = "coarse"
                 PROVE  CoarseWalk'
    BY <1>1 DEF CoarseWalk
  <2>2. /\ SureRecord(record) /\ SureRecord(R)
        /\ \A q \in DOMAIN R.entries \cap DOMAIN walk.kept : Sure(R.entries[q], q, disk.now)
    BY <2>1 DEF CollectionInv, SpareInv, CoarseWalk
  <2>3. \A q \in DOMAIN R.entries : Sure(R.entries[q], q, disk.now)
    BY <1>1, <2>2 DEF CollectionInv, SpareInv, ReachedOnly
  <2>4. \A q \in DOMAIN R.entries : Sure(R.entries[q], q, 0)
    BY <1>1, EntryTyped DEF Sure, FileType
  <2>5. SureRecord(record)'
    <3>1. CASE record'.entries = R.entries /\ record'.stamp \in {disk.now, 0}
      BY <1>1, <2>3, <2>4, <3>1 DEF SureRecord, Sure, Same, Stands
    <3>2. CASE record' = record
      BY <1>1, <2>2, <3>2 DEF SureRecord, Sure, Same, Stands
    <3> QED BY <1>7, <3>1, <3>2
  <2>6. SureRecord(walk.record)'
    BY <1>1, <1>5, <2>2 DEF SureRecord, Sure, Same, Stands
  <2>7. (\A q \in DOMAIN walk.record.entries \cap DOMAIN walk.kept : Sure(walk.record.entries[q], q, disk.now))'
    BY <1>1, <1>5, <2>2 DEF Sure, Same, Stands
  <2> QED BY <1>5, <2>5, <2>6, <2>7 DEF CoarseWalk
<1>11. SpareInv'
  BY <1>1, <1>5, <1>8, <1>9, <1>10 DEF CollectionInv, SpareInv, ReachedOnly
<1>12. LeftInv'
  BY <1>1, <1>5 DEF CollectionInv, LeftInv, Keeps, NotMet
<1> QED BY <1>6, <1>11, <1>12 DEF CollectionInv

LEMMA KeepsEndCollection == CollectionInv /\ EndCollection => CollectionInv'
<1> SUFFICES ASSUME CollectionInv, EndCollection
             PROVE  CollectionInv'
  OBVIOUS
<1>1. disk' = disk /\ record' = record /\ walk' = NoWalk
  BY DEF EndCollection
<1>2. /\ walk'.at = "idle" /\ walk'.record.stamp = 0 /\ walk'.record.entries = <<>> /\ walk'.kept = <<>>
      /\ walk'.on = {} /\ walk'.listed = {} /\ walk'.left = {} /\ walk'.skipped = {}
  BY <1>1 DEF NoWalk, NoRecord
<1>3. CollectionTyped'
  BY <1>1, <1>2, NoWalkTyped DEF CollectionInv, CollectionTyped
<1>4. SpareInv'
  <2>1. disk.now \in Nat
    BY CollectionParts
  <2>2. TimesPassed'
    BY <1>1, <1>2, <2>1 DEF CollectionInv, SpareInv, TimesPassed, Stands
  <2>3. FineWalk'
    BY <1>1, <1>2 DEF CollectionInv, SpareInv, FineWalk, FineRecord, Same, Stands
  <2>4. CoarseWalk'
    BY <1>1, <1>2 DEF CollectionInv, SpareInv, CoarseWalk, SureRecord, Sure, Same, Stands
  <2> QED BY <1>1, <1>2, <2>2, <2>3, <2>4 DEF CollectionInv, SpareInv, ReachedOnly
<1>5. LeftInv'
  BY <1>2 DEF LeftInv
<1> QED BY <1>3, <1>4, <1>5 DEF CollectionInv

LEMMA KeepsTick == CollectionInv /\ Tick => CollectionInv'
<1> SUFFICES ASSUME CollectionInv, Tick
             PROVE  CollectionInv'
  OBVIOUS
<1>1. disk \in DiskType /\ disk.now \in Nat /\ disk.lastRead \in Nat /\ disk.ticks - 1 \in Nat /\ disk.now + 1 \in Nat
  BY CollectionParts DEF Tick, DiskType
<1>2. /\ disk' = [disk EXCEPT !.now = @ + 1, !.ticks = @ - 1] /\ record' = record /\ walk' = walk
      /\ (disk.clock = "coarse" => walk.at = "idle")
  BY DEF Tick, Walking
<1>3. /\ disk' \in DiskType /\ disk'.files = disk.files /\ disk'.now = disk.now + 1 /\ disk'.clock = disk.clock
      /\ disk'.lastRead = disk.lastRead /\ disk'.rule = disk.rule
  <2> DEFINE later == disk.now + 1
             fewer == disk.ticks - 1
  <2>1. later \in Nat /\ fewer \in Nat /\ disk' = [disk EXCEPT !.now = later, !.ticks = fewer]
    BY <1>1, <1>2
  <2> HIDE DEF later, fewer
  <2>2. /\ disk' \in DiskType /\ disk'.files = disk.files /\ disk'.now = later /\ disk'.clock = disk.clock
        /\ disk'.lastRead = disk.lastRead /\ disk'.rule = disk.rule
    BY <1>1, <2>1 DEF DiskType
  <2> QED BY <2>2 DEF later
<1>4. CollectionTyped'
  BY <1>2, <1>3 DEF CollectionInv, CollectionTyped
<1>5. TimesPassed'
  <2>1. record.stamp \in Nat /\ walk.record.stamp \in Nat
    BY CollectionParts, EntryTyped
  <2>2. walk.at \in {"read", "stat"} => walk.before.ctime \in Nat
    BY DEF CollectionInv, CollectionTyped, StatType
  <2>3. \A p \in FolderFiles : Stands(p) => disk.files[p].ctime \in Nat
    BY CollectionParts DEF FileType
  <2> QED BY <1>1, <1>2, <1>3, <2>1, <2>2, <2>3 DEF CollectionInv, SpareInv, TimesPassed, Stands
<1>6. FineWalk'
  BY <1>2, <1>3 DEF CollectionInv, SpareInv, FineWalk, FineRecord, Same, Stands
<1>7. CoarseWalk'
  <2>1. SUFFICES ASSUME disk.clock = "coarse"
                 PROVE  CoarseWalk'
    BY <1>3 DEF CoarseWalk
  <2>2. walk.kept = <<>> /\ walk.at = "idle"
    BY <1>2, <2>1 DEF CollectionInv, CollectionTyped, NoWalk
  <2>3. SureRecord(record)' /\ SureRecord(walk.record)'
    BY <1>2, <1>3, <2>1 DEF CollectionInv, SpareInv, CoarseWalk, SureRecord, Sure, Same, Stands
  <2> QED BY <1>2, <2>2, <2>3 DEF CoarseWalk
<1>8. SpareInv'
  BY <1>2, <1>3, <1>5, <1>6, <1>7 DEF CollectionInv, SpareInv, ReachedOnly
<1>9. LeftInv'
  BY <1>2, <1>3 DEF CollectionInv, LeftInv, Keeps, NotMet
<1> QED BY <1>4, <1>8, <1>9 DEF CollectionInv

(* An edit: each file stands as it did, or is gone, or was changed now.     *)
LEMMA KeepsEdit ==
  ASSUME CollectionInv, MayEdit, disk' \in DiskType, disk'.now = disk.now, disk'.clock = disk.clock,
         disk'.lastRead = disk.lastRead, disk'.rule = disk.rule, record' = record, walk' = walk,
         \A p \in FolderFiles : \/ disk'.files[p] \in {disk.files[p], NoFile}
                                \/ disk'.files[p] \in FileType /\ disk'.files[p].ctime = disk.now
  PROVE  CollectionInv'
<1>1. CollectionTyped'
  BY DEF CollectionInv, CollectionTyped
<1>2. TimesPassed'
  <2>1. disk.now \in Nat
    BY CollectionParts
  <2> QED BY <2>1 DEF CollectionInv, SpareInv, TimesPassed, Stands
<1>3. \A p \in FolderFiles : Stands(p)' =>
         \/ disk'.files[p] = disk.files[p] /\ Stands(p)
         \/ disk'.files[p] \in FileType /\ StatOf(disk'.files[p]).ctime = disk.now /\ disk'.files[p].ctime = disk.now
  BY StatTyped DEF Stands
(* What names the file before a change made now names none after it. *)
<1>4. ASSUME NEW e \in FileType, NEW p \in FolderFiles, Same(e, p), e.ctime < disk.now
      PROVE  Same(e, p)'
  <2>1. StatOf(e).ctime = e.ctime
    BY StatTyped
  <2>2. e.ctime # disk.now
    BY <1>4, CollectionParts DEF FileType
  <2> QED BY <1>3, <1>4, <2>1, <2>2 DEF Same
<1>5. FineWalk'
  <2>1. SUFFICES ASSUME disk.clock = "fine"
                 PROVE  FineWalk'
    BY DEF FineWalk
  <2>2. disk.lastRead < disk.now /\ disk.lastRead \in Nat /\ disk.now \in Nat
    BY <2>1, CollectionParts DEF MayEdit
  <2>3. ASSUME NEW r \in RecordType, FineRecord(r)
        PROVE  \A p \in DOMAIN r.entries : r.entries[p].ctime <= disk.lastRead /\ Same(r.entries[p], p)'
    <3>1. TAKE p \in DOMAIN r.entries
    <3>2. r.entries[p] \in FileType /\ p \in FolderFiles /\ r.entries[p].ctime \in Nat
      BY <2>3, EntryTyped DEF FileType
    <3>3. r.entries[p].ctime <= disk.lastRead /\ Same(r.entries[p], p)
      BY <2>3 DEF FineRecord
    <3> QED BY <1>4, <2>2, <3>2, <3>3
  <2>4. FineRecord(record) /\ FineRecord(walk.record) /\ record \in RecordType /\ walk.record \in RecordType
    BY <2>1, CollectionParts DEF CollectionInv, SpareInv, FineWalk
  <2>5. FineRecord(record)' /\ FineRecord(walk.record)'
    BY <2>3, <2>4 DEF FineRecord
  <2>6. ASSUME walk.at = "stat", NEW p \in walk.on
        PROVE  /\ walk.before.ctime <= disk.lastRead
               /\ (Stands(p) /\ walk.before = StatOf(disk.files[p]) => walk.found = disk.files[p].content)'
    <3>1. walk.before \in StatType /\ walk.before.ctime \in Nat /\ p \in FolderFiles
      BY <2>6, CollectionParts DEF CollectionInv, CollectionTyped, StatType, WalkType, FileSets
    <3>2. walk.before.ctime <= disk.lastRead
          /\ (Stands(p) /\ walk.before = StatOf(disk.files[p]) => walk.found = disk.files[p].content)
      BY <2>1, <2>6 DEF CollectionInv, SpareInv, FineWalk
    <3> QED BY <1>3, <2>2, <3>1, <3>2
  <2> QED BY <2>5, <2>6 DEF FineWalk
<1>6. CoarseWalk'
  <2>1. SUFFICES ASSUME disk.clock = "coarse"
                 PROVE  CoarseWalk'
    BY DEF CoarseWalk
  <2>2. /\ SureRecord(record) /\ SureRecord(walk.record)
        /\ \A q \in DOMAIN walk.record.entries \cap DOMAIN walk.kept : Sure(walk.record.entries[q], q, disk.now)
        /\ walk.at = "stat" => \A p \in walk.on :
              Stands(p) /\ disk.files[p].ctime < disk.now => walk.found = disk.files[p].content
    BY <2>1 DEF CollectionInv, SpareInv, CoarseWalk
  <2>3. ASSUME NEW r \in RecordType, NEW p \in DOMAIN r.entries, NEW time \in Nat, time <= disk.now,
               Sure(r.entries[p], p, time)
        PROVE  Sure(r.entries[p], p, time)'
    <3>1. r.entries[p] \in FileType /\ p \in FolderFiles /\ r.entries[p].ctime \in Nat /\ disk.now \in Nat
      BY <2>3, EntryTyped, CollectionParts DEF FileType
    <3> QED BY <1>4, <2>3, <3>1 DEF Sure
  <2>4. /\ record \in RecordType /\ walk.record \in RecordType /\ disk.now \in Nat
        /\ record.stamp \in Nat /\ record.stamp <= disk.now
        /\ walk.record.stamp \in Nat /\ walk.record.stamp <= disk.now
    BY CollectionParts, EntryTyped DEF CollectionInv, SpareInv, TimesPassed
  <2>5. SureRecord(record)' /\ SureRecord(walk.record)'
    BY <2>2, <2>3, <2>4 DEF SureRecord
  <2>6. (\A q \in DOMAIN walk.record.entries \cap DOMAIN walk.kept : Sure(walk.record.entries[q], q, disk.now))'
    BY <2>2, <2>3, <2>4
  <2>7. ASSUME walk.at = "stat", NEW p \in walk.on
        PROVE  (Stands(p) /\ disk.files[p].ctime < disk.now => walk.found = disk.files[p].content)'
    <3>1. p \in FolderFiles /\ disk.now \in Nat
      BY CollectionParts DEF WalkType, FileSets
    <3> QED BY <1>3, <2>2, <2>7, <3>1
  <2> QED BY <2>5, <2>6, <2>7 DEF CoarseWalk
<1>7. SpareInv'
  BY <1>2, <1>5, <1>6 DEF CollectionInv, SpareInv, ReachedOnly
<1>8. LeftInv'
  BY DEF CollectionInv, LeftInv, Keeps, NotMet
<1> QED BY <1>1, <1>7, <1>8 DEF CollectionInv

LEMMA EditedFile ==
  ASSUME CollectionInv, MayEdit, NEW p \in FolderFiles, NEW file \in FileType \cup {NoFile},
         file # NoFile => file.ctime = disk.now, disk' = Edited(p, file), record' = record, walk' = walk
  PROVE  CollectionInv'
<1> DEFINE files == With(disk.files, p, file)
           dir == disk.dir \/ p \in DirFiles
           fewer == disk.edits - 1
<1>1. disk \in DiskType /\ disk.files \in FilesType /\ fewer \in Nat /\ dir \in BOOLEAN
  BY CollectionParts DEF MayEdit, DiskType
<1>2. files \in FilesType /\ \A q \in FolderFiles : files[q] = IF q = p THEN file ELSE disk.files[q]
  BY <1>1 DEF With, FilesType
<1>3. disk' = [disk EXCEPT !.files = files, !.edits = fewer, !.dir = dir]
  BY DEF Edited
<1> HIDE DEF files, fewer, dir
<1>4. /\ disk' \in DiskType /\ disk'.files = files /\ disk'.now = disk.now /\ disk'.clock = disk.clock
      /\ disk'.lastRead = disk.lastRead /\ disk'.rule = disk.rule
  BY <1>1, <1>2, <1>3 DEF DiskType
<1> QED BY <1>2, <1>4, KeepsEdit

LEMMA KeepsRewrite ==
  ASSUME CollectionInv, NEW p \in FolderFiles, NEW x \in FileContents, Rewrite(p, x)
  PROVE  CollectionInv'
<1>1. PICK mtime \in {disk.now} \cup (IF Stands(p) THEN {disk.files[p].mtime} ELSE {}), inode \in Inodes :
        disk' = Edited(p, [content |-> x, mtime |-> mtime, ctime |-> disk.now, inode |-> inode])
  BY DEF Rewrite
<1> DEFINE file == [content |-> x, mtime |-> mtime, ctime |-> disk.now, inode |-> inode]
<1>2. file \in FileType /\ file.ctime = disk.now
  BY CollectionParts DEF FileType
<1>3. disk' = Edited(p, file)
  BY <1>1
<1> HIDE DEF file
<1> QED BY <1>2, <1>3, EditedFile DEF Rewrite

LEMMA KeepsRemoveFile ==
  ASSUME CollectionInv, NEW p \in FolderFiles, RemoveFile(p)
  PROVE  CollectionInv'
  BY EditedFile DEF RemoveFile

LEMMA KeepsRemoveDirectory == CollectionInv /\ RemoveDirectory => CollectionInv'
<1> SUFFICES ASSUME CollectionInv, RemoveDirectory
             PROVE  CollectionInv'
  OBVIOUS
<1> DEFINE files == [p \in FolderFiles |-> IF p \in DirFiles THEN NoFile ELSE disk.files[p]]
           fewer == disk.edits - 1
<1>1. disk \in DiskType /\ disk.files \in FilesType /\ fewer \in Nat /\ MayEdit /\ record' = record /\ walk' = walk
  BY CollectionParts DEF RemoveDirectory, MayEdit, DiskType
<1>2. files \in FilesType /\ \A q \in FolderFiles : files[q] \in {disk.files[q], NoFile}
  BY <1>1 DEF FilesType
<1>3. disk' = [disk EXCEPT !.dir = FALSE, !.edits = fewer, !.files = files]
  BY DEF RemoveDirectory
<1> HIDE DEF files, fewer
<1>4. /\ disk' \in DiskType /\ disk'.files = files /\ disk'.now = disk.now /\ disk'.clock = disk.clock
      /\ disk'.lastRead = disk.lastRead /\ disk'.rule = disk.rule
  BY <1>1, <1>2, <1>3 DEF DiskType
<1> QED BY <1>1, <1>2, <1>4, KeepsEdit

(* The clocks a collection is sure under: no tick passes while a folder is  *)
(* collected, or no change falls in the tick of a read before it.           *)
SureClocks == \A scene \in Scenes : scene.clock # "any"

LEMMA CollectionFirst == SureClocks /\ CollectionInit => CollectionInv
<1> SUFFICES ASSUME SureClocks, NEW scene \in Scenes, NEW first \in FileContents, CollectionStart(scene, first)
             PROVE  CollectionInv
  BY DEF CollectionInit
<1> DEFINE inode == CHOOSE i \in Inodes : TRUE
           file == [content |-> first, mtime |-> 1, ctime |-> 1, inode |-> inode]
           files == [p \in FolderFiles |-> IF p \in scene.standing THEN file ELSE NoFile]
           dir == scene.standing \cap DirFiles # {}
<1>1. scene \in Scene /\ inode \in Inodes /\ scene.clock \in {"coarse", "fine"}
  BY CollectionAssumption DEF CollectionAssumption, SureClocks, Scene
<1>2. file \in FileType /\ file.ctime = 1
  BY <1>1 DEF FileType
<1>3. record = NoRecord /\ walk = NoWalk
      /\ disk = [files |-> files, dir |-> dir, rule |-> scene.rule, clock |-> scene.clock,
                 now |-> 1, lastRead |-> 0, edited |-> scene.edited, edits |-> scene.edits,
                 ticks |-> scene.ticks, collections |-> scene.collections]
  BY DEF CollectionStart
<1> HIDE DEF inode, file
<1>4. files \in FilesType /\ \A p \in FolderFiles : files[p] \in {file, NoFile}
  BY <1>2 DEF FilesType
<1>5. dir \in BOOLEAN
  OBVIOUS
<1> HIDE DEF files, dir
<1>6. /\ disk \in DiskType /\ disk.files = files /\ disk.now = 1 /\ disk.lastRead = 0
      /\ disk.clock = scene.clock
  BY <1>1, <1>3, <1>4, <1>5 DEF DiskType, Scene, FileSets
<1>7. /\ walk.at = "idle" /\ walk.record = NoRecord /\ walk.kept = <<>> /\ walk.on = {} /\ walk.listed = {}
      /\ walk.left = {} /\ walk.skipped = {} /\ NoRecord.stamp = 0 /\ NoRecord.entries = <<>>
  BY <1>3 DEF NoWalk, NoRecord
<1>8. CollectionTyped
  BY <1>3, <1>6, <1>7, NoWalkTyped DEF CollectionTyped
<1>9. TimesPassed
  BY <1>2, <1>3, <1>4, <1>6, <1>7 DEF TimesPassed, Stands
<1>10. FineWalk /\ CoarseWalk /\ ReachedOnly /\ disk.clock # "any"
  BY <1>1, <1>3, <1>6, <1>7 DEF FineWalk, CoarseWalk, ReachedOnly, FineRecord, SureRecord
<1>11. LeftInv
  BY <1>7 DEF LeftInv
<1> QED BY <1>8, <1>9, <1>10, <1>11 DEF CollectionInv, SpareInv

LEMMA CollectionStep == CollectionInv /\ [CollectionNext]_collectionVars => CollectionInv'
<1> SUFFICES ASSUME CollectionInv, [CollectionNext]_collectionVars
             PROVE  CollectionInv'
  OBVIOUS
<1>1. CASE UNCHANGED collectionVars
  <2>1. disk' = disk /\ record' = record /\ walk' = walk
    BY <1>1 DEF collectionVars
  <2>2. CollectionTyped'
    BY <2>1 DEF CollectionInv, CollectionTyped
  <2>3. SpareInv'
    BY <2>1 DEF CollectionInv, SpareInv, TimesPassed, FineWalk, CoarseWalk, ReachedOnly, FineRecord,
                SureRecord, Sure, Same, Stands
  <2>4. LeftInv'
    BY <2>1 DEF CollectionInv, LeftInv, Keeps, NotMet
  <2> QED BY <2>2, <2>3, <2>4 DEF CollectionInv
<1>2. ASSUME NEW p \in FolderFiles,
             \/ LeaveOut(p) \/ StatBefore(p) \/ Read(p) \/ StatAfter(p) \/ Attribute(p) \/ RemoveFile(p)
             \/ \E x \in FileContents : Rewrite(p, x)
      PROVE  CollectionInv'
  BY <1>2, KeepsLeaveOut, KeepsStatBefore, KeepsRead, KeepsStatAfter, KeepsAttribute, KeepsRemoveFile, KeepsRewrite
<1> QED BY <1>1, <1>2, KeepsBeginCollection, KeepsReadDirectory, KeepsEndKeptWalk, KeepsRestamp,
           KeepsEndCollection, KeepsTick, KeepsRemoveDirectory DEF CollectionNext

(* Only the stat before a read spares one.                                  *)
LEMMA SparesOnlyAsItStands ==
  ASSUME CollectionInv, CollectionNext, NEW p \in walk'.spared \ walk.spared
  PROVE  walk'.kept[p] = disk.files[p].content
<1>1. walk \in WalkType /\ walk.kept \in KeptType
  BY CollectionParts
<1>2. walk'.spared \subseteq walk.spared \/ \E q \in FolderFiles : StatBefore(q)
  <2>1. CASE BeginCollection
    BY <2>1 DEF BeginCollection, NoWalk
  <2>2. CASE ReadDirectory \/ EndKeptWalk \/ Restamp
    BY <1>1, <2>2 DEF ReadDirectory, EndKeptWalk, Restamp, WalkType
  <2>3. CASE EndCollection
    BY <2>3 DEF EndCollection, NoWalk
  <2>4. CASE Tick \/ RemoveDirectory \/ \E q \in FolderFiles : RemoveFile(q) \/ \E x \in FileContents : Rewrite(q, x)
    BY <2>4 DEF Tick, RemoveDirectory, RemoveFile, Rewrite
  <2>5. ASSUME NEW q \in FolderFiles, LeaveOut(q) \/ Read(q) \/ StatAfter(q) \/ Attribute(q)
        PROVE  walk'.spared \subseteq walk.spared
    BY <1>1, <2>5 DEF LeaveOut, Read, GoneAt, StatAfter, Attribute, WalkType
  <2> QED BY <2>1, <2>2, <2>3, <2>4, <2>5 DEF CollectionNext
<1>3. PICK q \in FolderFiles : StatBefore(q)
  BY <1>2
<1>4. /\ q = p /\ Stands(p) /\ Trusted(walk.record, p, StatOf(disk.files[p]))
      /\ walk'.kept = With(walk.kept, p, walk.record.entries[p].content)
  <2>1. CASE walk' = GoneAt(q) \/ walk' = [walk EXCEPT !.at = "read", !.on = {q}, !.before = StatOf(disk.files[q])]
    <3>1. walk'.spared = walk.spared
      BY <1>1, <2>1 DEF GoneAt, WalkType
    <3> QED BY <3>1
  <2>2. CASE /\ Stands(q) /\ Trusted(walk.record, q, StatOf(disk.files[q]))
             /\ walk' = [walk EXCEPT !.todo = @ \ {q}, !.spared = @ \cup {q},
                           !.kept = With(@, q, walk.record.entries[q].content)]
    <3>1. walk'.spared = walk.spared \cup {q} /\ walk'.kept = With(walk.kept, q, walk.record.entries[q].content)
      BY <1>1, <2>2 DEF WalkType
    <3> QED BY <2>2, <3>1
  <2> QED BY <1>3, <2>1, <2>2 DEF StatBefore
<1>5. walk.record.entries[p] \in FileType /\ walk.record.entries[p].content = disk.files[p].content
  BY <1>3, <1>4, TrustedStands
<1>6. walk'.kept[p] = walk.record.entries[p].content
  BY <1>4 DEF With
<1> QED BY <1>5, <1>6

LEMMA LeavesOutByARule == CollectionInv => LeftOutByARule
<1> SUFFICES ASSUME CollectionInv, walk.at = "collected"
             PROVE  /\ \A p \in walk.skipped : Keeps(p) => p \notin walk.listed /\ ~(walk.goneDir /\ p \in DirFiles)
                    /\ walk.left \cap DOMAIN walk.kept = {} /\ DOMAIN walk.kept \cap walk.skipped = {}
  BY DEF LeftOutByARule
<1> QED BY DEF CollectionInv, LeftInv, NotMet

(* Types of the disk, the stat record and the walk (`StatRecord`,           *)
(* `collect_files`).                                                        *)
THEOREM CollectionKeepsItsTypes == SureClocks /\ CollectionSpec => []CollectionTyped
<1>1. CollectionInv => CollectionTyped
  BY DEF CollectionInv
<1> QED BY <1>1, CollectionFirst, CollectionStep, PTL DEF CollectionSpec

(* A collection answers the folder as it stands: a read spared by the stat  *)
(* record is of the content the file holds, and a file reported as left out *)
(* was left out by a rule (`StatRecord::trusted`, `attribute`).             *)
THEOREM CollectsAsItStands == SureClocks /\ CollectionSpec => CollectedAsItStands
<1>1. CollectionInv /\ [CollectionNext]_collectionVars =>
          [\A p \in walk'.spared \ walk.spared : walk'.kept[p] = disk.files[p].content]_collectionVars
  BY SparesOnlyAsItStands
<1> QED BY <1>1, CollectionFirst, CollectionStep, LeavesOutByARule, PTL
        DEF CollectionSpec, CollectedAsItStands, SparedAsItStands

-----------------------------------------------------------------------------
(* Placement.                                                               *)

PlaceSteps == {"idle", "send", "check", "again", "write", "base", "lay", "over"}
PlacementTyped ==
    /\ versions \in Seq(Trees)
    /\ CheckType
    /\ place \in [at : PlaceSteps, identity : BOOLEAN, head : Nat, stood : Nat, claims : Nat,
                  landed : Nat, written : SUBSET PlacedPaths, copy : Copies \cup {"none"}, own : Nat]
    /\ bases \in [Copies -> [commit : Nat, files : Trees, held : BOOLEAN]]

(* The folder at commit `a` is the folder at commit `b`.                    *)
SameFolder(a, b) == \A p \in Folder : TreeAt(a)[p] = TreeAt(b)[p]

(* What a sending claims, and what the base it advances later stands on.    *)
ClaimsHold ==
    /\ place.at \in {"idle", "send", "check", "again"} => place.landed = 0
    /\ place.at \in {"send", "check", "again"} =>
          place.claims <= HeadCommit /\ EmptyAt(place.claims)
    /\ place.at = "send" => place.stood = place.claims /\ place.head = place.claims
    /\ place.at = "check" =>
          /\ place.stood # 0 /\ place.stood <= place.claims
          /\ check.since = place.stood /\ check.number \in {0, check.since} /\ check.at # "none"
          /\ CheckSays(place.claims)
    /\ place.at = "again" /\ place.stood # 0 => 
          place.stood <= place.claims /\ (place.identity => Quiet(place.stood, place.claims))

(* The version that landed, and what it stands over.                        *)
LandedHolds ==
    /\ place.at \in {"write", "base", "lay"} \/ place.written # {} => place.landed # 0
    /\ place.landed # 0 =>
          /\ place.landed <= HeadCommit
          /\ TreeAt(place.landed) = LaidOver(TreeAt(place.landed - 1), Placed)
          /\ place.claims \in {0, place.landed - 1}
          /\ place.claims # 0 => EmptyAt(place.landed - 1)
          /\ place.identity /\ place.stood # 0 =>
                place.stood < place.landed /\ SameFolder(place.stood, place.landed - 1)

(* A commit a base may advance from lacks nothing of the one it advances to *)
(* but the placed files.                                                    *)
AdvanceHolds ==
    /\ place.at \in {"base", "lay"} => place.copy # "none" /\ (place.identity => place.copy # "checkout")
    /\ place.at = "lay" =>
          /\ place.copy # "placed"
          /\ place.own # 0 =>
                /\ place.own <= HeadCommit
                /\ \A p \in Covered(place.copy) \ PlacedPaths :
                      TreeAt(place.own)[p] = TreeAt(place.landed)[p]

(* The base of the new folder where another writer filled it meanwhile.     *)
HoldsPlacedAlone(base, copy) ==
    /\ copy = "placed" /\ place.claims = 0 /\ base.commit = place.landed
    /\ base.files = LaidOver(EmptyTree, Placed)
BaseHolds(base, copy) ==
    /\ base.commit <= HeadCommit
    /\ base.commit # 0 =>
          \/ base.files = BaseAt(copy, base.commit).files
          \/ /\ base.commit # place.landed
             /\ base.files = LaidOver(BaseAt(copy, base.commit).files, Placed)
          \/ HoldsPlacedAlone(base, copy)
PlacedBasesHold == \A copy \in Copies : BaseHolds(bases[copy], copy)

(* No file of the new folder lacks once it is a copy, or bases are laid.    *)
FilesStand ==
    /\ PlacedIdentity \in place.written => place.written = PlacedPaths
    /\ place.at \in {"base", "lay"} \/ bases["placed"].commit # 0 => place.written = PlacedPaths

PlacementInv ==
    FolderSteady /\ PlacementTyped /\ ClaimsHold /\ LandedHolds /\ AdvanceHolds /\ PlacedBasesHold

LEMMA PlacedIsCovered ==
    /\ PlacedPaths \subseteq AtPlace /\ AtPlace \subseteq Folder /\ Folder \subseteq Paths
    /\ PlacedIdentity \in PlacedPaths
    /\ Template \in Contents /\ Template # Absent
    /\ \A copy \in Copies : PlacedPaths \subseteq Covered(copy) /\ Covered(copy) \subseteq Paths
    /\ \A copy \in Copies \ {"checkout"} : Covered(copy) \subseteq Folder
BY PlacementAssumption, PathsAssumption, AbsentAssumption DEF Covered, Copies

LEMMA PlacedTyped == \A files \in Trees : LaidOver(files, Placed) \in Trees
<1>1. \A p \in DOMAIN Placed \cap Paths : Placed[p] \in Contents \cup {Absent}
  BY PlacedIsCovered DEF Placed
<1> HIDE DEF Placed
<1> QED BY <1>1, LaidOverType

LEMMA BaseAtTyped ==
    ASSUME versions \in Seq(Trees), NEW copy \in Copies, NEW n \in 0 .. HeadCommit
    PROVE  BaseAt(copy, n) \in [commit : Nat, files : Trees, held : BOOLEAN]
<1>1. TreeAt(n) \in Trees /\ n \in Nat BY TreesType, HeadIsNat
<1>2. Only(TreeAt(n), Covered(copy)) \in Trees BY <1>1 DEF Only, Trees
<1> QED BY <1>1, <1>2 DEF BaseAt

LEMMA AddressedIsCommit ==
    versions \in Seq(Trees) => AddressedHead \in 0 .. HeadCommit /\ HeadCommit \in Nat
<1> SUFFICES ASSUME versions \in Seq(Trees)
             PROVE  AddressedHead \in 0 .. HeadCommit /\ HeadCommit \in Nat
  OBVIOUS
<1>1. HeadCommit \in Nat BY HeadIsNat
<1>2. NewestChange(HeadCommit + 1) \in 0 .. HeadCommit BY <1>1, NewestIsLast
<1> QED BY <1>1, <1>2 DEF AddressedHead, IdentityHead

\* What a commit says stays said when the line grows.
LEMMA CommitsStand ==
    ASSUME versions \in Seq(Trees), Grows
    PROVE  /\ HeadCommit \in Nat /\ HeadCommit' \in {HeadCommit, HeadCommit + 1}
           /\ \A n \in 0 .. HeadCommit : TreeAt(n)' = TreeAt(n)
           /\ \A n \in 0 .. HeadCommit : EmptyAt(n) => EmptyAt(n)'
           /\ \A a, b \in 0 .. HeadCommit : SameFolder(a, b) => SameFolder(a, b)'
           /\ \A copy, n \in 0 .. HeadCommit : BaseAt(copy, n)' = BaseAt(copy, n)
<1>1. /\ HeadCommit \in Nat /\ HeadCommit' \in {HeadCommit, HeadCommit + 1}
      /\ \A n \in 0 .. HeadCommit : TreeAt(n)' = TreeAt(n)
  BY VersionsStand
<1>2. \A n \in 0 .. HeadCommit : EmptyAt(n) => EmptyAt(n)' BY <1>1 DEF EmptyAt
<1>3. \A a, b \in 0 .. HeadCommit : SameFolder(a, b) => SameFolder(a, b)' BY <1>1 DEF SameFolder
<1>4. ASSUME NEW copy, NEW n \in 0 .. HeadCommit PROVE BaseAt(copy, n)' = BaseAt(copy, n)
  BY <1>1 DEF BaseAt, Only
<1> QED BY <1>1, <1>2, <1>3, <1>4

LEMMA PlacementGrows == PlacementInv /\ Grows /\ UNCHANGED <<check, place, bases>> => PlacementInv'
<1> SUFFICES ASSUME PlacementInv, Grows, UNCHANGED <<check, place, bases>> PROVE PlacementInv'
  OBVIOUS
<1>1. /\ versions \in Seq(Trees) /\ LineInv /\ CheckType
      /\ place.claims \in Nat /\ place.stood \in Nat /\ place.landed \in Nat /\ place.own \in Nat
      /\ \A copy \in Copies : bases[copy].commit \in Nat
  BY DEF PlacementInv, PlacementTyped, LineInv
<1>2. FolderSteady' /\ versions' \in Seq(Trees) BY <1>1, LineGrows DEF LineInv
<1>3. PlacementTyped' BY <1>2 DEF PlacementInv, PlacementTyped, CheckType
<1>4. /\ HeadCommit \in Nat /\ HeadCommit' \in {HeadCommit, HeadCommit + 1}
      /\ \A n \in 0 .. HeadCommit : TreeAt(n)' = TreeAt(n)
      /\ \A n \in 0 .. HeadCommit : EmptyAt(n) => EmptyAt(n)'
      /\ \A a, b \in 0 .. HeadCommit : SameFolder(a, b) => SameFolder(a, b)'
      /\ \A copy, n \in 0 .. HeadCommit : BaseAt(copy, n)' = BaseAt(copy, n)
  BY <1>1, CommitsStand
<1>5. ClaimsHold'
  <2>1. ASSUME place.at \in {"send", "check", "again"}
        PROVE  place.claims <= HeadCommit' /\ EmptyAt(place.claims)' /\ place.claims \in 0 .. HeadCommit
    BY <1>1, <1>4, <2>1 DEF PlacementInv, ClaimsHold
  <2>2. ASSUME place.at = "check" PROVE CheckSays(place.claims)'
    <3>1. place.claims \in 0 .. HeadCommit /\ CheckSays(place.claims)
      BY <2>1, <2>2 DEF PlacementInv, ClaimsHold
    <3> QED BY <1>1, <3>1, CheckSaysStill
  <2>3. ASSUME place.at = "again", place.stood # 0, place.identity PROVE Quiet(place.stood, place.claims)'
    <3>1. Quiet(place.stood, place.claims) /\ place.claims \in 0 .. HeadCommit
      BY <2>1, <2>3 DEF PlacementInv, ClaimsHold
    <3> QED BY <1>1, <3>1, KnownStaysKnown
  <2> QED BY <2>1, <2>2, <2>3 DEF PlacementInv, ClaimsHold
<1>6. LandedHolds'
  <2>1. ASSUME place.landed # 0
        PROVE  /\ place.landed <= HeadCommit'
               /\ TreeAt(place.landed)' = LaidOver(TreeAt(place.landed - 1), Placed)'
               /\ place.claims # 0 => EmptyAt(place.landed - 1)'
               /\ place.identity /\ place.stood # 0 => SameFolder(place.stood, place.landed - 1)'
    <3>1. place.landed \in 0 .. HeadCommit /\ place.landed - 1 \in 0 .. HeadCommit
      BY <1>1, <1>4, <2>1 DEF PlacementInv, LandedHolds
    <3>2. TreeAt(place.landed)' = TreeAt(place.landed) /\ TreeAt(place.landed - 1)' = TreeAt(place.landed - 1)
      BY <1>4, <3>1
    <3>3. LaidOver(TreeAt(place.landed - 1), Placed)' = LaidOver(TreeAt(place.landed - 1), Placed)
      BY <3>2 DEF LaidOver, Placed
    <3>4. ASSUME place.identity, place.stood # 0 PROVE SameFolder(place.stood, place.landed - 1)'
      <4>1. place.stood \in 0 .. HeadCommit /\ SameFolder(place.stood, place.landed - 1)
        BY <1>1, <1>4, <2>1, <3>1, <3>4 DEF PlacementInv, LandedHolds
      <4> QED BY <1>4, <3>1, <4>1
    <3> QED BY <1>4, <2>1, <3>1, <3>2, <3>3, <3>4 DEF PlacementInv, LandedHolds
  <2> QED BY <2>1 DEF PlacementInv, LandedHolds
<1>7. AdvanceHolds'
  <2>1. ASSUME place.at = "lay", place.own # 0, NEW p \in Covered(place.copy) \ PlacedPaths
        PROVE  place.own <= HeadCommit' /\ TreeAt(place.own)'[p] = TreeAt(place.landed)'[p]
    <3>1. place.own \in 0 .. HeadCommit /\ place.landed \in 0 .. HeadCommit
      BY <1>1, <1>4, <2>1 DEF PlacementInv, AdvanceHolds, LandedHolds
    <3> QED BY <1>4, <2>1, <3>1 DEF PlacementInv, AdvanceHolds
  <2>2. Covered(place.copy)' = Covered(place.copy) BY DEF Covered
  <2> QED BY <1>1, <1>4, <2>1, <2>2 DEF PlacementInv, AdvanceHolds
<1>8. PlacedBasesHold'
  <2> SUFFICES ASSUME NEW copy \in Copies PROVE BaseHolds(bases[copy], copy)'
    BY DEF PlacedBasesHold
  <2>1. bases[copy].commit \in 0 .. HeadCommit /\ BaseHolds(bases[copy], copy)
    BY <1>1, <1>4 DEF PlacementInv, PlacedBasesHold, BaseHolds
  <2>2. BaseAt(copy, bases[copy].commit)' = BaseAt(copy, bases[copy].commit)
    <3>1. TreeAt(bases[copy].commit)' = TreeAt(bases[copy].commit) BY <1>4, <2>1
    <3> QED BY <3>1 DEF BaseAt, Only, Covered
  <2>3. LaidOver(BaseAt(copy, bases[copy].commit).files, Placed)' = LaidOver(BaseAt(copy, bases[copy].commit).files, Placed)
    BY <2>2 DEF LaidOver, Placed
  <2> QED BY <1>4, <2>1, <2>2, <2>3 DEF BaseHolds, HoldsPlacedAlone
<1> QED BY <1>2, <1>3, <1>5, <1>6, <1>7, <1>8 DEF PlacementInv

LEMMA PlacementStart0 == PlacementInit => PlacementInv
<1> SUFFICES ASSUME NEW identity \in BOOLEAN, PlacementStart(identity) PROVE PlacementInv
  BY DEF PlacementInit
<1>1. /\ versions = <<>> /\ check = NoCheck /\ bases = [copy \in Copies |-> NoBase]
      /\ place = [at |-> "idle", identity |-> identity, head |-> 0, stood |-> 0, claims |-> 0,
                  landed |-> 0, written |-> {}, copy |-> "none", own |-> 0]
  BY DEF PlacementStart
<1>2. versions \in Seq(Trees) /\ HeadCommit = 0 BY <1>1 DEF HeadCommit
<1>3. LineInv BY <1>2, FirstSteady
<1>4. PlacementTyped
  <2>1. EmptyTree \in Trees BY DEF EmptyTree, Trees
  <2>2. CheckType BY <1>1 DEF CheckType, NoCheck, CheckSteps
  <2> QED BY <1>1, <1>2, <2>1, <2>2 DEF PlacementTyped, PlaceSteps, NoBase
<1>5. ClaimsHold /\ LandedHolds /\ AdvanceHolds BY <1>1 DEF ClaimsHold, LandedHolds, AdvanceHolds
<1>6. PlacedBasesHold BY <1>1, <1>2 DEF PlacedBasesHold, BaseHolds, NoBase
<1> QED BY <1>3, <1>4, <1>5, <1>6 DEF PlacementInv, LineInv

\* Where no version is added, what is said of versions stays said.
LEMMA VersionsUnmoved ==
    ASSUME UNCHANGED versions
    PROVE  /\ HeadCommit' = HeadCommit /\ (FolderSteady => FolderSteady')
           /\ \A n : TreeAt(n)' = TreeAt(n)
           /\ \A n : EmptyAt(n)' <=> EmptyAt(n)
           /\ \A a, b : SameFolder(a, b)' <=> SameFolder(a, b)
           /\ \A a, b : Quiet(a, b)' <=> Quiet(a, b)
           /\ \A copy, n : BaseAt(copy, n)' = BaseAt(copy, n)
           /\ \A files : LaidOver(files, Placed)' = LaidOver(files, Placed)
<1>1. HeadCommit' = HeadCommit /\ \A n : TreeAt(n)' = TreeAt(n)
  BY DEF HeadCommit, TreeAt
<1>2. \A a, b : Quiet(a, b)' <=> Quiet(a, b) BY Unmoved
<1>3. FolderSteady => FolderSteady' BY <1>1, <1>2 DEF FolderSteady
<1> QED BY <1>1, <1>2, <1>3 DEF EmptyAt, SameFolder, BaseAt, Only, LaidOver, Placed

\* The bases say as much of a placement that has landed as before.
LEMMA BasesStand ==
    ASSUME PlacedBasesHold, UNCHANGED <<versions, bases>>, place'.landed = place.landed,
           place'.landed = 0 \/ place'.claims = place.claims
    PROVE  PlacedBasesHold'
<1> SUFFICES ASSUME NEW copy \in Copies PROVE BaseHolds(bases[copy], copy)' BY DEF PlacedBasesHold
<1>1. BaseHolds(bases[copy], copy) BY DEF PlacedBasesHold
<1>2. BaseAt(copy, bases[copy].commit)' = BaseAt(copy, bases[copy].commit)
  BY DEF BaseAt, Only, TreeAt, Covered
<1>3. LaidOver(BaseAt(copy, bases[copy].commit).files, Placed)' =
         LaidOver(BaseAt(copy, bases[copy].commit).files, Placed)
  BY <1>2 DEF LaidOver, Placed
<1>4. bases[copy].commit # 0 => (HoldsPlacedAlone(bases[copy], copy)' <=> HoldsPlacedAlone(bases[copy], copy))
  BY DEF HoldsPlacedAlone, LaidOver, Placed, EmptyTree
<1> QED BY <1>1, <1>2, <1>3, <1>4, VersionsUnmoved DEF BaseHolds

LEMMA LandedStands ==
    ASSUME LandedHolds, UNCHANGED versions,
           place'.landed = place.landed, place'.claims = place.claims, place'.stood = place.stood,
           place'.identity = place.identity, place'.written = place.written,
           place'.at \in {"write", "base", "lay"} => place.landed # 0
    PROVE  LandedHolds'
<1>2. TreeAt(place.landed)' = TreeAt(place.landed) /\ TreeAt(place.landed - 1)' = TreeAt(place.landed - 1)
  BY DEF TreeAt
<1>3. LaidOver(TreeAt(place.landed - 1), Placed)' = LaidOver(TreeAt(place.landed - 1), Placed)
  BY <1>2 DEF LaidOver, Placed
<1>4. EmptyAt(place.landed - 1)' <=> EmptyAt(place.landed - 1) BY <1>2 DEF EmptyAt
<1>5. SameFolder(place.stood, place.landed - 1)' <=> SameFolder(place.stood, place.landed - 1)
  <2>1. TreeAt(place.stood)' = TreeAt(place.stood) BY DEF TreeAt
  <2> QED BY <1>2, <2>1 DEF SameFolder
<1> QED BY <1>2, <1>3, <1>4, <1>5, VersionsUnmoved DEF LandedHolds

\* A run that ends leaves what it landed as it stands.
LEMMA EndsKeeps ==
    ASSUME PlacementInv, UNCHANGED <<versions, bases>>, place' = Ends, CheckType'
    PROVE  PlacementInv'
<1>1. /\ place'.at = "over" /\ place'.landed = place.landed /\ place'.claims = place.claims
      /\ place'.stood = place.stood /\ place'.identity = place.identity
      /\ place'.written = place.written
  BY DEF Ends, PlacementInv, PlacementTyped
<1>2. PlacementTyped' BY DEF Ends, PlacementInv, PlacementTyped, PlaceSteps
<1>3. ClaimsHold' /\ AdvanceHolds' BY <1>1 DEF ClaimsHold, AdvanceHolds
<1>4. LandedHolds' BY <1>1, LandedStands DEF PlacementInv
<1>5. PlacedBasesHold' BY <1>1, BasesStand DEF PlacementInv
<1> QED BY <1>2, <1>3, <1>4, <1>5, VersionsUnmoved DEF PlacementInv

LEMMA HeadKeeps == PlacementInv /\ ReadHead => PlacementInv'
<1> SUFFICES ASSUME PlacementInv, ReadHead PROVE PlacementInv' OBVIOUS
<1>1. CASE place' = Ends BY <1>1, EndsKeeps DEF ReadHead, PlacementInv, PlacementTyped, CheckType
<1>2. CASE place' # Ends
  <2> DEFINE head == AddressedHead
  <2>1. head \in 0 .. HeadCommit /\ HeadCommit \in Nat
    BY AddressedIsCommit DEF PlacementInv, PlacementTyped
  <2>2. EmptyAt(head) /\ place.at = "idle" /\ UNCHANGED <<versions, check, bases>>
    BY <1>2 DEF ReadHead, HeldAt
  <2>3. place' = [place EXCEPT !.at = "send", !.head = head, !.stood = head, !.claims = head]
    BY <1>2 DEF ReadHead
  <2> HIDE DEF head
  <2>4. /\ place'.at = "send" /\ place'.head = head /\ place'.stood = head /\ place'.claims = head
        /\ place'.landed = 0 /\ place'.landed = place.landed
        /\ place'.written = place.written
    BY <2>2, <2>3 DEF PlacementInv, PlacementTyped, ClaimsHold
  <2>5. PlacementTyped'
    <3>1. head \in Nat BY <2>1
    <3>2. place' \in [at : PlaceSteps, identity : BOOLEAN, head : Nat, stood : Nat, claims : Nat,
                  landed : Nat, written : SUBSET PlacedPaths, copy : Copies \cup {"none"}, own : Nat]
      BY <2>3, <3>1 DEF PlacementInv, PlacementTyped, PlaceSteps
    <3> QED BY <2>2, <3>2 DEF PlacementInv, PlacementTyped, CheckType
  <2>6. ClaimsHold' BY <2>1, <2>2, <2>4, VersionsUnmoved DEF ClaimsHold
  <2>7. LandedHolds' BY <2>4 DEF PlacementInv, LandedHolds
  <2>8. AdvanceHolds' BY <2>4 DEF AdvanceHolds
  <2>9. PlacedBasesHold' BY <2>2, <2>4, BasesStand DEF PlacementInv
  <2> QED BY <2>2, <2>5, <2>6, <2>7, <2>8, <2>9, VersionsUnmoved DEF PlacementInv
<1> QED BY <1>1, <1>2

\* A refusal names the head: read again there, the folder checked since.
LEMMA NamedHeadKeeps == PlacementInv /\ HeadNamed => PlacementInv'
<1> SUFFICES ASSUME PlacementInv, HeadNamed PROVE PlacementInv' OBVIOUS
<1>1. /\ place.at = "send" /\ HeadCommit # place.claims /\ UNCHANGED <<versions, bases>>
      /\ place.claims <= HeadCommit /\ place.stood = place.claims /\ place.head = place.claims
      /\ place.landed = 0 /\ HeadCommit \in Nat /\ place.claims \in Nat
  BY HeadIsNat DEF HeadNamed, PlacementInv, PlacementTyped, ClaimsHold
<1>2. CASE place' = Ends /\ UNCHANGED check
  BY <1>1, <1>2, EndsKeeps DEF PlacementInv, PlacementTyped, CheckType
<1>3. CASE /\ ~HeldAt(HeadCommit) /\ place' = [place EXCEPT !.at = "check", !.claims = HeadCommit]
           /\ check' = CheckFrom(place.head, 0, TRUE) /\ place.head # 0
  <2>1. /\ place'.at = "check" /\ place'.claims = HeadCommit /\ place'.stood = place.stood
        /\ place'.landed = 0 /\ place'.landed = place.landed /\ place'.written = place.written
    BY <1>1, <1>3 DEF PlacementInv, PlacementTyped
  <2>2. /\ check'.at = "newest" /\ check'.since = place.stood /\ check'.number = 0 /\ check'.newest = 0
    BY <1>1, <1>3 DEF CheckFrom
  <2>3. CheckType' BY <1>1, <1>3 DEF CheckType, CheckFrom, CheckSteps
  <2>4. PlacementTyped' BY <1>1, <1>3, <2>3 DEF PlacementInv, PlacementTyped, PlaceSteps
  <2>5. CheckSays(place.claims)' BY <2>2 DEF CheckSays
  <2>6. EmptyAt(place.claims)' BY <1>1, <1>3, <2>1, VersionsUnmoved DEF HeldAt
  <2>7. ClaimsHold'
    <3>0. HeadCommit' = HeadCommit BY <1>1, VersionsUnmoved
    <3>1. /\ place'.claims <= HeadCommit' /\ place'.stood # 0 /\ place'.stood <= place'.claims
          /\ check'.since = place'.stood /\ check'.number \in {0, check'.since} /\ check'.at # "none"
      <4>1. place.head # 0 BY <1>3
      <4>2. place.stood \in Nat /\ place.stood # 0 /\ place.stood <= HeadCommit BY <1>1, <4>1
      <4>3. place'.claims = HeadCommit /\ place'.stood = place.stood BY <2>1
      <4>4. place'.claims <= HeadCommit' BY <1>1, <3>0, <4>3
      <4> QED BY <2>2, <4>2, <4>3, <4>4
    <3> QED BY <2>1, <2>5, <2>6, <3>1 DEF ClaimsHold
  <2>8. LandedHolds' BY <2>1 DEF PlacementInv, LandedHolds
  <2>9. AdvanceHolds' BY <2>1 DEF AdvanceHolds
  <2>10. PlacedBasesHold' BY <1>1, <2>1, BasesStand DEF PlacementInv
  <2> QED BY <1>1, <2>4, <2>7, <2>8, <2>9, <2>10, VersionsUnmoved DEF PlacementInv
<1>4. CASE /\ ~HeldAt(HeadCommit) /\ place' = [place EXCEPT !.at = "again", !.claims = HeadCommit]
           /\ UNCHANGED check /\ ~(place.identity /\ place.head # 0)
  <2>1. /\ place'.at = "again" /\ place'.claims = HeadCommit /\ place'.stood = place.stood
        /\ place'.landed = 0 /\ place'.landed = place.landed /\ place'.written = place.written
        /\ place'.identity = place.identity
    BY <1>1, <1>4 DEF PlacementInv, PlacementTyped
  <2>4. PlacementTyped' BY <1>1, <1>4 DEF PlacementInv, PlacementTyped, PlaceSteps, CheckType
  <2>6. EmptyAt(place.claims)' BY <1>1, <1>4, <2>1, VersionsUnmoved DEF HeldAt
  <2>7. ClaimsHold' BY <1>1, <1>4, <2>1, <2>6, VersionsUnmoved DEF ClaimsHold
  <2>8. LandedHolds' BY <2>1 DEF PlacementInv, LandedHolds
  <2>9. AdvanceHolds' BY <2>1 DEF AdvanceHolds
  <2>10. PlacedBasesHold' BY <1>1, <2>1, BasesStand DEF PlacementInv
  <2> QED BY <1>1, <2>4, <2>7, <2>8, <2>9, <2>10, VersionsUnmoved DEF PlacementInv
<1> QED BY <1>2, <1>3, <1>4 DEF HeadNamed

LEMMA FolderCheckKeeps == PlacementInv /\ FolderChecked => PlacementInv'
<1> SUFFICES ASSUME PlacementInv, FolderChecked PROVE PlacementInv' OBVIOUS
<1>0. /\ versions \in Seq(Trees) /\ LineInv /\ CheckType /\ HeadCommit \in Nat
      /\ place.claims \in 0 .. HeadCommit /\ EmptyAt(place.claims) /\ CheckSays(place.claims)
      /\ place.at = "check" /\ place.stood # 0 /\ place.stood <= place.claims
      /\ check.since = place.stood /\ check.number \in {0, check.since} /\ check.at # "none"
      /\ place.landed = 0 /\ UNCHANGED <<versions, bases>>
  BY HeadIsNat DEF FolderChecked, CheckStep, PlacementInv, PlacementTyped, ClaimsHold, LineInv
<1>1. CASE CheckStep /\ UNCHANGED <<place, bases>>
  <2>1. /\ check'.since = check.since /\ check'.number \in {check.number, check.since}
        /\ check'.at # "none" /\ CheckType'
    BY <1>0, <1>1, CheckKeepsAsking
  <2>2. CheckSays(place.claims)' BY <1>0, <1>1, CheckSaysNext
  <2>3. PlacementTyped' BY <1>0, <1>1, <2>1 DEF PlacementInv, PlacementTyped
  <2>4. ClaimsHold' BY <1>0, <1>1, <2>1, <2>2, VersionsUnmoved DEF ClaimsHold
  <2>5. LandedHolds' BY <1>0, <1>1 DEF PlacementInv, LandedHolds
  <2>6. AdvanceHolds' BY <1>0, <1>1 DEF AdvanceHolds
  <2>7. PlacedBasesHold' BY <1>0, <1>1, BasesStand DEF PlacementInv
  <2> QED BY <1>0, <2>3, <2>4, <2>5, <2>6, <2>7, VersionsUnmoved DEF PlacementInv
<1>2. CASE /\ check.at \in {"moved", "unmoved", "refused"}
           /\ place' = [place EXCEPT !.at = "again", !.stood = IF check.at = "unmoved" THEN @ ELSE 0]
           /\ check' = NoCheck
  <2>1. /\ place'.at = "again" /\ place'.claims = place.claims /\ place'.landed = 0
        /\ place'.stood = (IF check.at = "unmoved" THEN place.stood ELSE 0)
        /\ place'.landed = place.landed /\ place'.written = place.written
    BY <1>0, <1>2 DEF PlacementInv, PlacementTyped
  <2>2. check.at = "unmoved" => Quiet(place.stood, place.claims) BY <1>0 DEF CheckSays
  <2>3. PlacementTyped'
    <3>1. CheckType' BY <1>2 DEF CheckType, NoCheck, CheckSteps
    <3>2. (IF check.at = "unmoved" THEN place.stood ELSE 0) \in Nat BY DEF PlacementInv, PlacementTyped
    <3> QED BY <1>0, <1>2, <3>1, <3>2 DEF PlacementInv, PlacementTyped, PlaceSteps
  <2>4. ClaimsHold'
    <3>1. EmptyAt(place.claims)' BY <1>0, <2>1, VersionsUnmoved
    <3>2. place'.stood # 0 => Quiet(place.stood, place.claims)'
      <4>1. place'.stood # 0 => place'.stood = place.stood /\ Quiet(place.stood, place.claims)
        BY <2>1, <2>2
      <4> QED BY <1>0, <2>1, <4>1, VersionsUnmoved
    <3> QED BY <1>0, <2>1, <3>1, <3>2, VersionsUnmoved DEF ClaimsHold
  <2>5. LandedHolds' BY <2>1 DEF PlacementInv, LandedHolds
  <2>6. AdvanceHolds' BY <2>1 DEF AdvanceHolds
  <2>7. PlacedBasesHold' BY <1>0, <2>1, BasesStand DEF PlacementInv
  <2> QED BY <1>0, <2>3, <2>4, <2>5, <2>6, <2>7, VersionsUnmoved DEF PlacementInv
<1> QED BY <1>0, <1>1, <1>2 DEF FolderChecked

LEMMA BodyKeeps == PlacementInv /\ BodyLands => PlacementInv'
<1> SUFFICES ASSUME PlacementInv, BodyLands PROVE PlacementInv' OBVIOUS
<1>0. PICK landed : landed = HeadCommit + 1 OBVIOUS
<1>1. /\ versions \in Seq(Trees) /\ LineInv /\ CheckType /\ HeadCommit \in Nat
      /\ place.at \in {"send", "again"} /\ place.landed = 0 /\ place.written \subseteq PlacedPaths
      /\ place.claims \in Nat /\ place.stood \in Nat /\ place.written = {}
      /\ EmptyAt(place.claims) /\ UNCHANGED <<check, bases>>
      /\ place.claims \in {0, HeadCommit}
  BY HeadIsNat DEF BodyLands, PlacementInv, PlacementTyped, ClaimsHold, LandedHolds, LineInv,
                   PassesHeadCheck, NoParent
<1>2. PICK answered \in BOOLEAN :
         place' = [place EXCEPT !.at = IF answered THEN "write" ELSE "over", !.landed = landed]
  BY <1>0 DEF BodyLands
<1>3. /\ place'.at \in {"write", "over"} /\ place'.landed = landed /\ place'.claims = place.claims
      /\ place'.stood = place.stood /\ place'.identity = place.identity /\ place'.written = {}
  BY <1>1, <1>2 DEF PlacementInv, PlacementTyped
<1>4. LaidOver(HeadTree, Placed) \in Trees /\ versions' = Append(versions, LaidOver(HeadTree, Placed))
  BY <1>1, HeadTyped, PlacedTyped DEF BodyLands
<1>5. Grows BY <1>4 DEF Grows
<1>6. /\ HeadCommit' = landed /\ landed - 1 = HeadCommit
      /\ \A n \in 0 .. HeadCommit : TreeAt(n)' = TreeAt(n)
      /\ TreeAt(landed)' = LaidOver(HeadTree, Placed)
  <2>1. HeadCommit' = landed /\ versions'[landed] = LaidOver(HeadTree, Placed) /\ landed # 0
    BY <1>0, <1>1, <1>4 DEF HeadCommit
  <2>2. TreeAt(landed)' = LaidOver(HeadTree, Placed)
    <3>1. landed \in Nat /\ landed # 0 BY <1>0, <1>1
    <3> QED BY <2>1, <3>1 DEF TreeAt
  <2> QED BY <1>0, <1>1, <1>5, <2>1, <2>2, CommitsStand
<1>7. landed \in Nat /\ landed # 0 BY <1>0, <1>1
<1>8. PlacementTyped'
  <2>1. versions' \in Seq(Trees) BY <1>1, <1>5, VersionsStand
  <2>2. (IF answered THEN "write" ELSE "over") \in PlaceSteps BY DEF PlaceSteps
  <2>3. place' \in [at : PlaceSteps, identity : BOOLEAN, head : Nat, stood : Nat, claims : Nat,
                  landed : Nat, written : SUBSET PlacedPaths, copy : Copies \cup {"none"}, own : Nat]
    BY <1>2, <1>7, <2>2 DEF PlacementInv, PlacementTyped
  <2> QED BY <1>1, <2>1, <2>3 DEF PlacementInv, PlacementTyped, CheckType
<1>9. ClaimsHold' /\ AdvanceHolds' BY <1>3 DEF ClaimsHold, AdvanceHolds
<1>10. LandedHolds'
  <2>1. TreeAt(landed)' = LaidOver(TreeAt(landed - 1), Placed)'
    <3>1. TreeAt(landed - 1)' = HeadTree
      <4>1. landed - 1 = HeadCommit /\ landed - 1 \in 0 .. HeadCommit BY <1>1, <1>6
      <4> QED BY <1>6, <4>1 DEF HeadTree
    <3> QED BY <1>6, <3>1 DEF LaidOver, Placed
  <2>2. place.claims # 0 => EmptyAt(landed - 1)'
    <3> SUFFICES ASSUME place.claims # 0 PROVE EmptyAt(landed - 1)' OBVIOUS
    <3>1. place.claims = landed - 1 /\ landed - 1 \in 0 .. HeadCommit BY <1>1, <1>6
    <3>2. EmptyAt(landed - 1) BY <1>1, <3>1
    <3>3. TreeAt(landed - 1)' = TreeAt(landed - 1) BY <1>6, <3>1
    <3> QED BY <3>2, <3>3 DEF EmptyAt
  <2>3. ASSUME place.identity, place.stood # 0
        PROVE  place.stood < landed /\ SameFolder(place.stood, landed - 1)'
    <3>1. /\ place.stood <= place.claims /\ place.claims = HeadCommit
          /\ SameFolder(place.stood, HeadCommit)
      <4>1. CASE place.at = "send"
        <5>1. place.stood = place.claims BY <4>1 DEF PlacementInv, ClaimsHold
        <5> QED BY <1>1, <2>3, <5>1 DEF SameFolder
      <4>2. CASE place.at = "again"
        <5>1. place.stood <= place.claims /\ Quiet(place.stood, place.claims)
          BY <2>3, <4>2 DEF PlacementInv, ClaimsHold
        <5>2. place.claims = HeadCommit BY <1>1, <2>3, <5>1
        <5>3. place.stood \in 0 .. HeadCommit /\ HeadCommit \in 0 .. HeadCommit BY <1>1, <5>1, <5>2
        <5> QED BY <1>1, <5>1, <5>2, <5>3 DEF LineInv, FolderSteady, SameFolder
      <4> QED BY <1>1, <4>1, <4>2
    <3>2. place.stood \in 0 .. HeadCommit /\ landed - 1 \in 0 .. HeadCommit /\ landed - 1 = HeadCommit
      BY <1>1, <1>6, <3>1
    <3>3. TreeAt(place.stood)' = TreeAt(place.stood) /\ TreeAt(landed - 1)' = TreeAt(landed - 1)
      <4>1. place'.stood = place.stood BY <1>3
      <4> QED BY <1>6, <3>2, <4>1
    <3>4. SameFolder(place.stood, landed - 1)' BY <3>1, <3>2, <3>3 DEF SameFolder
    <3> QED BY <1>0, <1>1, <3>1, <3>2, <3>4
  <2>4. /\ place'.landed <= HeadCommit' /\ place'.claims \in {0, place'.landed - 1} /\ place'.landed # 0
    BY <1>1, <1>3, <1>6, <1>7
  <2>5. place'.identity /\ place'.stood # 0 =>
           place'.stood < place'.landed /\ SameFolder(place.stood, place.landed - 1)'
    <3>1. place'.stood = place.stood /\ place'.landed = landed BY <1>3
    <3> QED BY <1>3, <2>3, <3>1
  <2> QED BY <1>3, <2>1, <2>2, <2>4, <2>5 DEF LandedHolds
<1>11. PlacedBasesHold'
  <2> SUFFICES ASSUME NEW copy \in Copies PROVE BaseHolds(bases[copy], copy)'
    BY DEF PlacedBasesHold
  <2>1. /\ bases[copy].commit \in 0 .. HeadCommit
        /\ bases[copy].commit # 0 => bases[copy].files = BaseAt(copy, bases[copy].commit).files
              \/ bases[copy].files = LaidOver(BaseAt(copy, bases[copy].commit).files, Placed)
    BY <1>1 DEF PlacementInv, PlacementTyped, PlacedBasesHold, BaseHolds, HoldsPlacedAlone
  <2>2. BaseAt(copy, bases[copy].commit)' = BaseAt(copy, bases[copy].commit)
    <3>1. TreeAt(bases[copy].commit)' = TreeAt(bases[copy].commit) BY <1>1, <1>6, <2>1
    <3> QED BY <1>1, <3>1 DEF BaseAt, Only, Covered
  <2>3. LaidOver(BaseAt(copy, bases[copy].commit).files, Placed)' =
           LaidOver(BaseAt(copy, bases[copy].commit).files, Placed)
    BY <2>2 DEF LaidOver, Placed
  <2>4. bases[copy].commit # landed BY <1>1, <1>6, <1>7, <2>1
  <2> QED BY <1>1, <1>3, <1>6, <1>7, <2>1, <2>2, <2>3, <2>4 DEF BaseHolds
<1> QED BY <1>5, <1>1, <1>8, <1>9, <1>10, <1>11, LineGrows DEF PlacementInv, LineInv

LEMMA WritesKeep ==
    ASSUME PlacementInv, AllWritten \/ \E p \in PlacedPaths : WriteFile(p)
    PROVE  PlacementInv'
<1>1. place.at = "write" /\ UNCHANGED <<versions, check, bases>> BY DEF AllWritten, WriteFile
<1>2. CASE AllWritten
  <2>1. place' = [place EXCEPT !.at = "base", !.copy = NextCopy("none")] BY <1>2 DEF AllWritten
  <2>2. NextCopy("none") \in Copies /\ (place.identity => NextCopy("none") # "checkout")
    BY DEF NextCopy, Copies
  <2>3. /\ place'.at = "base" /\ place'.copy = NextCopy("none") /\ place'.identity = place.identity
        /\ place'.landed = place.landed /\ place'.claims = place.claims /\ place'.stood = place.stood
        /\ place'.written = place.written
    BY <2>1 DEF PlacementInv, PlacementTyped
  <2>4. place' \in [at : PlaceSteps, identity : BOOLEAN, head : Nat, stood : Nat, claims : Nat,
                  landed : Nat, written : SUBSET PlacedPaths, copy : Copies \cup {"none"}, own : Nat]
    BY <2>1, <2>2 DEF PlacementInv, PlacementTyped, PlaceSteps
  <2>5. ClaimsHold' BY <2>3 DEF ClaimsHold
  <2>6. LandedHolds'
    <3>1. place.landed # 0 BY <1>1 DEF PlacementInv, LandedHolds
    <3> QED BY <1>1, <2>3, <3>1, LandedStands DEF PlacementInv
  <2>7. AdvanceHolds' BY <2>2, <2>3 DEF AdvanceHolds, Copies
  <2>8. PlacedBasesHold' BY <1>1, <2>3, BasesStand DEF PlacementInv
  <2> QED BY <1>1, <2>4, <2>5, <2>6, <2>7, <2>8, VersionsUnmoved DEF PlacementInv, PlacementTyped, CheckType
<1>3. CASE \E p \in PlacedPaths : WriteFile(p)
  <2>0. PICK p \in PlacedPaths : place' = [place EXCEPT !.written = @ \cup {p}] BY <1>3 DEF WriteFile
  <2>3. /\ place'.at = "write" /\ place'.copy = place.copy /\ place'.identity = place.identity
        /\ place'.landed = place.landed /\ place'.claims = place.claims /\ place'.stood = place.stood
    BY <1>1, <2>0 DEF PlacementInv, PlacementTyped
  <2>4. place' \in [at : PlaceSteps, identity : BOOLEAN, head : Nat, stood : Nat, claims : Nat,
                  landed : Nat, written : SUBSET PlacedPaths, copy : Copies \cup {"none"}, own : Nat]
    BY <2>0 DEF PlacementInv, PlacementTyped
  <2>5. ClaimsHold' BY <2>3 DEF ClaimsHold
  <2>6. LandedHolds'
    <3>1. place.landed # 0 /\ LandedHolds BY <1>1 DEF PlacementInv, LandedHolds
    <3>2. TreeAt(place.landed)' = TreeAt(place.landed) /\ TreeAt(place.landed - 1)' = TreeAt(place.landed - 1)
      BY <1>1, <2>3 DEF TreeAt
    <3>3. LaidOver(TreeAt(place.landed - 1), Placed)' = LaidOver(TreeAt(place.landed - 1), Placed)
      BY <3>2 DEF LaidOver, Placed
    <3>4. EmptyAt(place.landed - 1)' <=> EmptyAt(place.landed - 1) BY <3>2 DEF EmptyAt
    <3>5. SameFolder(place.stood, place.landed - 1)' <=> SameFolder(place.stood, place.landed - 1)
      <4>1. TreeAt(place.stood)' = TreeAt(place.stood) BY <1>1, <2>3 DEF TreeAt
      <4> QED BY <3>2, <4>1 DEF SameFolder
    <3> QED BY <1>1, <2>3, <3>1, <3>2, <3>3, <3>4, <3>5, VersionsUnmoved DEF LandedHolds
  <2>7. AdvanceHolds' BY <2>3 DEF AdvanceHolds
  <2>8. PlacedBasesHold' BY <1>1, <2>3, BasesStand DEF PlacementInv
  <2> QED BY <1>1, <2>4, <2>5, <2>6, <2>7, <2>8, VersionsUnmoved DEF PlacementInv, PlacementTyped, CheckType
<1> QED BY <1>2, <1>3

\* What the history, asked for the folder, says of a commit it is asked of.
LEMMA UnmovedMeansSame ==
    ASSUME LineInv, NEW own \in 1 .. HeadCommit, NEW landed \in 1 .. HeadCommit,
           UnmovedUntil(own, landed)
    PROVE  IF own < landed THEN SameFolder(own, landed - 1) ELSE SameFolder(own, landed)
<1> DEFINE earlier == {n \in 1 .. landed - 1 : HeadCommit - n < ScanBound /\ ChangesFolder(n)}
<1>0. versions \in Seq(Trees) /\ HeadCommit \in Nat /\ ScanBound \in Nat
  BY HeadIsNat, ScanAssumption DEF LineInv
<1>1. NewestChange(ScanBound) = landed /\ NewestOf(earlier) # 0 /\ NewestOf(earlier) <= own
  BY DEF UnmovedUntil
<1>2. earlier # {} BY <1>1 DEF NewestOf
<1>3. earlier \in SUBSET Nat /\ \A n \in earlier : n <= HeadCommit BY <1>0
<1>4. NewestOf(earlier) \in earlier /\ \A o \in earlier : o <= NewestOf(earlier)
  <2> HIDE DEF earlier
  <2> QED BY <1>0, <1>2, <1>3, NewestIsIn
<1>5. CASE own < landed
  <2>1. Quiet(own, landed - 1)
    <3> SUFFICES ASSUME NEW n \in 1 .. HeadCommit, own < n, n <= landed - 1, ChangesFolder(n) PROVE FALSE
      BY DEF Quiet
    <3>1. HeadCommit - NewestOf(earlier) < ScanBound /\ NewestOf(earlier) \in Nat BY <1>4
    <3>2. HeadCommit - n < ScanBound
      <4> HIDE DEF earlier
      <4> QED BY <1>0, <1>1, <3>1
    <3>3. n \in earlier BY <1>0, <3>2
    <3>4. n <= NewestOf(earlier) BY <1>4, <3>3
    <3> HIDE DEF earlier
    <3> QED BY <1>0, <1>1, <3>1, <3>4
  <2>2. own \in 0 .. HeadCommit /\ landed - 1 \in 0 .. HeadCommit /\ own <= landed - 1 BY <1>0, <1>5
  <2> QED BY <1>5, <2>1, <2>2 DEF LineInv, FolderSteady, SameFolder
<1>6. CASE ~(own < landed)
  <2>1. /\ \A n \in 1 .. HeadCommit : HeadCommit - n < ScanBound /\ landed < n => ~ChangesFolder(n)
        /\ HeadCommit - landed < ScanBound
    <3>1. PICK newest : newest = NewestChange(ScanBound) OBVIOUS
    <3>2. /\ \A n \in 1 .. HeadCommit : HeadCommit - n < ScanBound /\ newest < n => ~ChangesFolder(n)
          /\ newest # 0 => HeadCommit - newest < ScanBound
      BY <1>0, <3>1, NewestIsLast
    <3>3. newest = landed /\ landed # 0 BY <1>1, <3>1
    <3> QED BY <3>2, <3>3
  <2>2. Quiet(landed, own)
    <3> SUFFICES ASSUME NEW n \in 1 .. HeadCommit, landed < n, n <= own PROVE ~ChangesFolder(n)
      BY DEF Quiet
    <3>1. HeadCommit - n < ScanBound BY <1>0, <2>1
    <3> QED BY <2>1, <3>1
  <2>3. own \in 0 .. HeadCommit /\ landed \in 0 .. HeadCommit /\ landed <= own BY <1>0, <1>6
  <2> QED BY <1>6, <2>2, <2>3 DEF LineInv, FolderSteady, SameFolder
<1> QED BY <1>5, <1>6

\* What a base may advance from, as the run reads it.
LEMMA AdvanceKeeps == PlacementInv /\ AdvanceFrom => PlacementInv'
<1> SUFFICES ASSUME PlacementInv, AdvanceFrom PROVE PlacementInv' OBVIOUS
<1>1. /\ versions \in Seq(Trees) /\ LineInv /\ CheckType /\ HeadCommit \in Nat
      /\ place.at = "base" /\ place.copy # "placed" /\ place.copy # "none"
      /\ place.copy \in Copies /\ (place.identity => place.copy # "checkout")
      /\ place.landed # 0 /\ place.landed \in 1 .. HeadCommit
      /\ place.claims \in {0, place.landed - 1} /\ place.stood \in Nat
      /\ TreeAt(place.landed) = LaidOver(TreeAt(place.landed - 1), Placed)
      /\ (place.identity /\ place.stood # 0 =>
             place.stood < place.landed /\ SameFolder(place.stood, place.landed - 1))
      /\ UNCHANGED <<versions, check, bases>>
  BY HeadIsNat DEF AdvanceFrom, PlacementInv, PlacementTyped, LandedHolds, AdvanceHolds, LineInv
<1>2. PICK own : /\ place' = [place EXCEPT !.at = "lay", !.own = own]
                 /\ \/ own = place.stood /\ place.identity
                    \/ own = place.claims
                    \/ /\ own = bases[place.copy].commit /\ place.copy = "folder" /\ own # 0
                       /\ UnmovedUntil(own, place.landed)
  <2>1. PICK shown \in BOOLEAN :
           place' = [place EXCEPT !.at = "lay",
                        !.own = IF place.identity THEN place.stood
                                ELSE IF place.copy = "folder" /\ bases[place.copy].commit # 0
                                        /\ bases[place.copy].commit # place.claims
                                        /\ shown /\ UnmovedUntil(bases[place.copy].commit, place.landed)
                                     THEN bases[place.copy].commit ELSE place.claims]
    BY DEF AdvanceFrom
  <2>2. CASE place.identity
    <3>1. place' = [place EXCEPT !.at = "lay", !.own = place.stood] BY <2>1, <2>2
    <3> QED BY <2>2, <3>1
  <2>3. CASE ~place.identity BY <2>1, <2>3
  <2> QED BY <2>2, <2>3
<1>3. bases[place.copy].commit \in 0 .. HeadCommit
  BY <1>1 DEF PlacementInv, PlacementTyped, PlacedBasesHold, BaseHolds
<1>4. own \in 0 .. HeadCommit
  <2>1. place.stood \in 0 .. HeadCommit \/ ~place.identity BY <1>1
  <2>2. place.claims \in 0 .. HeadCommit BY <1>1
  <2> QED BY <1>2, <1>3, <2>1, <2>2
<1>5. ASSUME own # 0, NEW p \in Covered(place.copy) \ PlacedPaths
      PROVE  TreeAt(own)[p] = TreeAt(place.landed)[p]
  <2>1. p \in Paths /\ p \notin PlacedPaths /\ (place.copy # "checkout" => p \in Folder)
    BY <1>1, PlacedIsCovered
  <2>2. TreeAt(place.landed)[p] = TreeAt(place.landed - 1)[p]
    BY <1>1, <2>1 DEF LaidOver, Placed
  <2>3. CASE own = place.stood /\ place.identity
    BY <1>1, <1>5, <2>1, <2>2, <2>3 DEF SameFolder
  <2>4. CASE own = place.claims
    BY <1>1, <1>5, <2>2, <2>4
  <2>5. CASE place.copy = "folder" /\ UnmovedUntil(own, place.landed)
    <3>1. own \in 1 .. HeadCommit /\ place.landed \in 1 .. HeadCommit BY <1>1, <1>4, <1>5
    <3>2. IF own < place.landed THEN SameFolder(own, place.landed - 1) ELSE SameFolder(own, place.landed)
      BY <1>1, <2>5, <3>1, UnmovedMeansSame
    <3> QED BY <2>1, <2>2, <2>5, <3>2 DEF SameFolder
  <2> QED BY <1>2, <2>3, <2>4, <2>5
<1>6. /\ place'.at = "lay" /\ place'.own = own /\ place'.copy = place.copy
      /\ place'.identity = place.identity /\ place'.landed = place.landed
      /\ place'.claims = place.claims /\ place'.stood = place.stood /\ place'.written = place.written
  BY <1>2 DEF PlacementInv, PlacementTyped
<1>7. place' \in [at : PlaceSteps, identity : BOOLEAN, head : Nat, stood : Nat, claims : Nat,
                landed : Nat, written : SUBSET PlacedPaths, copy : Copies \cup {"none"}, own : Nat]
  <2>1. own \in Nat BY <1>1, <1>4
  <2> QED BY <1>2, <2>1 DEF PlacementInv, PlacementTyped, PlaceSteps
<1>8. ClaimsHold' BY <1>6 DEF ClaimsHold
<1>9. LandedHolds' BY <1>1, <1>6, LandedStands DEF PlacementInv
<1>10. AdvanceHolds'
  <2>1. own # 0 => own <= HeadCommit' BY <1>1, <1>4, VersionsUnmoved
  <2>2. ASSUME own # 0, NEW p \in Covered(place.copy) \ PlacedPaths
        PROVE  TreeAt(place.own)'[p] = TreeAt(place.landed)'[p]
    <3>1. TreeAt(place.own)' = TreeAt(own) /\ TreeAt(place.landed)' = TreeAt(place.landed)
      BY <1>1, <1>6 DEF TreeAt
    <3> QED BY <1>5, <2>2, <3>1
  <2>3. Covered(place.copy)' = Covered(place.copy) BY <1>6 DEF Covered
  <2> QED BY <1>1, <1>6, <2>1, <2>2, <2>3 DEF AdvanceHolds
<1>11. PlacedBasesHold' BY <1>1, <1>6, BasesStand DEF PlacementInv
<1> QED BY <1>1, <1>7, <1>8, <1>9, <1>10, <1>11, VersionsUnmoved DEF PlacementInv, PlacementTyped, CheckType

\* What `lay_files` leaves of a base, whether its commit advances or stands.
LEMMA LaidBaseHolds ==
    ASSUME PlacementInv, place.at = "lay", bases[place.copy].commit # 0
    PROVE  /\ Laid(bases[place.copy]) \in [commit : Nat, files : Trees, held : BOOLEAN]
           /\ BaseHolds(Laid(bases[place.copy]), place.copy)
<1> DEFINE base == bases[place.copy]
<1>1. /\ versions \in Seq(Trees) /\ HeadCommit \in Nat
      /\ place.copy \in Copies /\ place.copy # "placed"
      /\ base \in [commit : Nat, files : Trees, held : BOOLEAN]
      /\ BaseHolds(base, place.copy) /\ place.landed \in 1 .. HeadCommit
      /\ TreeAt(place.landed) = LaidOver(TreeAt(place.landed - 1), Placed)
      /\ (place.own # 0 => /\ place.own <= HeadCommit
                           /\ \A p \in Covered(place.copy) \ PlacedPaths :
                                TreeAt(place.own)[p] = TreeAt(place.landed)[p])
  BY HeadIsNat DEF PlacementInv, PlacementTyped, LandedHolds, AdvanceHolds, PlacedBasesHold
<1>2. /\ base.commit # 0 /\ base.commit \in 0 .. HeadCommit /\ base.files \in Trees
      /\ \/ base.files = Only(TreeAt(base.commit), Covered(place.copy))
         \/ base.files = LaidOver(Only(TreeAt(base.commit), Covered(place.copy)), Placed)
      /\ base.commit = place.landed => base.files = Only(TreeAt(base.commit), Covered(place.copy))
  BY <1>1 DEF BaseHolds, HoldsPlacedAlone, BaseAt
<1>3. PICK laid : laid = LaidOver(base.files, Placed) OBVIOUS
<1>4. laid \in Trees BY <1>2, <1>3, PlacedTyped
<1>5. laid = LaidOver(Only(TreeAt(base.commit), Covered(place.copy)), Placed)
  BY <1>2, <1>3 DEF LaidOver
<1>6. PICK next : next = IF base.commit = place.own THEN place.landed ELSE base.commit OBVIOUS
<1>7. next \in Nat /\ next <= HeadCommit BY <1>1, <1>2, <1>6
<1>8. Laid(base) = [base EXCEPT !.files = laid, !.commit = next] BY <1>3, <1>6 DEF Laid
<1> HIDE DEF base
<1>9. /\ Laid(base) \in [commit : Nat, files : Trees, held : BOOLEAN]
      /\ Laid(base).files = laid /\ Laid(base).commit = next
  BY <1>1, <1>4, <1>7, <1>8
\* The landed version itself, with the placed files laid over what it lists.
<1>10. LaidOver(Only(TreeAt(place.landed), Covered(place.copy)), Placed)
         = Only(TreeAt(place.landed), Covered(place.copy))
  BY <1>1, PlacedIsCovered DEF LaidOver, Only, Placed
<1>11. CASE base.commit = place.own
  <2>1. next = place.landed /\ place.own # 0 BY <1>2, <1>6, <1>11
  <2>2. laid = Only(TreeAt(place.landed), Covered(place.copy))
    <3>1. \A p \in Paths \ PlacedPaths :
             Only(TreeAt(base.commit), Covered(place.copy))[p] = Only(TreeAt(place.landed), Covered(place.copy))[p]
      BY <1>1, <1>11, <2>1 DEF Only
    <3>2. laid = LaidOver(Only(TreeAt(place.landed), Covered(place.copy)), Placed)
      BY <1>5, <3>1 DEF LaidOver, Placed
    <3> QED BY <1>10, <3>2
  <2> QED BY <1>7, <1>9, <2>1, <2>2 DEF BaseHolds, BaseAt, base
<1>12. CASE base.commit # place.own
  <2>1. next = base.commit BY <1>6, <1>12
  <2>2. CASE base.commit = place.landed BY <1>5, <1>7, <1>9, <1>10, <2>1, <2>2 DEF BaseHolds, BaseAt, base
  <2>3. CASE base.commit # place.landed BY <1>5, <1>7, <1>9, <2>1, <2>3 DEF BaseHolds, BaseAt, base
  <2> QED BY <2>2, <2>3
<1> QED BY <1>9, <1>11, <1>12 DEF base

LEMMA LayKeeps == PlacementInv /\ Lay => PlacementInv'
<1> SUFFICES ASSUME PlacementInv, Lay PROVE PlacementInv' OBVIOUS
<1>1. /\ versions \in Seq(Trees) /\ CheckType /\ place.at = "lay" /\ place.landed # 0
      /\ place.copy \in {"checkout", "folder"} /\ UNCHANGED <<versions, check>>
      /\ place' = [place EXCEPT !.at = "base", !.copy = NextCopy(place.copy), !.own = 0]
  BY DEF Lay, PlacementInv, PlacementTyped, LandedHolds, AdvanceHolds, Copies
<1>2. NextCopy(place.copy) \in {"folder", "placed"} BY <1>1 DEF NextCopy
<1>3. /\ place'.at = "base" /\ place'.copy \in {"folder", "placed"}
      /\ place'.identity = place.identity /\ place'.landed = place.landed
      /\ place'.claims = place.claims /\ place'.stood = place.stood /\ place'.written = place.written
  BY <1>1, <1>2 DEF PlacementInv, PlacementTyped
<1>4. place' \in [at : PlaceSteps, identity : BOOLEAN, head : Nat, stood : Nat, claims : Nat,
                landed : Nat, written : SUBSET PlacedPaths, copy : Copies \cup {"none"}, own : Nat]
  BY <1>1, <1>2 DEF PlacementInv, PlacementTyped, PlaceSteps, Copies
<1>5. ClaimsHold' BY <1>3 DEF ClaimsHold
<1>6. LandedHolds' BY <1>1, <1>3, LandedStands DEF PlacementInv
<1>7. AdvanceHolds' BY <1>3 DEF AdvanceHolds
\* Every base as it stood, or the one copy's base laid.
<1>8. /\ bases' \in [Copies -> [commit : Nat, files : Trees, held : BOOLEAN]]
      /\ \A copy \in Copies : BaseHolds(bases'[copy], copy)
  <2>1. CASE bases' = bases BY <2>1 DEF PlacementInv, PlacementTyped, PlacedBasesHold
  <2>2. CASE /\ bases' = [bases EXCEPT ![place.copy] = Laid(bases[place.copy])]
             /\ bases[place.copy].commit # 0
    <3>1. PICK next : next = Laid(bases[place.copy]) OBVIOUS
    <3>2. next \in [commit : Nat, files : Trees, held : BOOLEAN] /\ BaseHolds(next, place.copy)
      BY <1>1, <2>2, <3>1, LaidBaseHolds
    <3>3. bases' = [bases EXCEPT ![place.copy] = next] BY <2>2, <3>1
    <3> QED BY <3>2, <3>3 DEF PlacementInv, PlacementTyped, PlacedBasesHold
  <2> QED BY <2>1, <2>2 DEF Lay
<1>9. PlacedBasesHold'
  <2> SUFFICES ASSUME NEW copy \in Copies PROVE BaseHolds(bases[copy], copy)' BY DEF PlacedBasesHold
  <2>1. BaseHolds(bases'[copy], copy) BY <1>8
  <2>2. PICK base : base = bases'[copy] OBVIOUS
  <2>3. BaseAt(copy, base.commit)' = BaseAt(copy, base.commit) BY <1>1, VersionsUnmoved
  <2>4. LaidOver(BaseAt(copy, base.commit).files, Placed)' = LaidOver(BaseAt(copy, base.commit).files, Placed)
    BY <2>3 DEF LaidOver, Placed
  <2>5. HoldsPlacedAlone(base, copy)' <=> HoldsPlacedAlone(base, copy)
    BY <1>3, <2>2 DEF HoldsPlacedAlone, LaidOver, Placed, EmptyTree
  <2> QED BY <1>1, <1>3, <2>1, <2>2, <2>3, <2>4, <2>5, VersionsUnmoved DEF BaseHolds
<1> QED BY <1>1, <1>4, <1>5, <1>6, <1>7, <1>8, <1>9, VersionsUnmoved DEF PlacementInv, PlacementTyped, CheckType

\* A base a run records whole, or only marks held, says what its commit says.
LEMMA RecordedBaseHolds ==
    ASSUME PlacementInv, NEW copy \in Copies, NEW base, UNCHANGED <<versions, check>>,
           base \in [commit : Nat, files : Trees, held : BOOLEAN], BaseHolds(base, copy),
           bases' = [bases EXCEPT ![copy] = base],
           place'.landed = place.landed, place'.claims = place.claims
    PROVE  /\ bases' \in [Copies -> [commit : Nat, files : Trees, held : BOOLEAN]]
           /\ PlacedBasesHold'
<1>1. /\ bases' \in [Copies -> [commit : Nat, files : Trees, held : BOOLEAN]]
      /\ \A c \in Copies : BaseHolds(bases'[c], c)
  BY DEF PlacementInv, PlacementTyped, PlacedBasesHold
<1>2. PlacedBasesHold'
  <2> SUFFICES ASSUME NEW c \in Copies PROVE BaseHolds(bases[c], c)' BY DEF PlacedBasesHold
  <2>1. PICK b : b = bases'[c] OBVIOUS
  <2>2. BaseHolds(b, c) BY <1>1, <2>1
  <2>3. BaseAt(c, b.commit)' = BaseAt(c, b.commit) BY VersionsUnmoved
  <2>4. LaidOver(BaseAt(c, b.commit).files, Placed)' = LaidOver(BaseAt(c, b.commit).files, Placed)
    BY <2>3 DEF LaidOver, Placed
  <2>5. HoldsPlacedAlone(b, c)' <=> HoldsPlacedAlone(b, c)
    BY DEF HoldsPlacedAlone, LaidOver, Placed, EmptyTree
  <2> QED BY <2>1, <2>2, <2>3, <2>4, <2>5, VersionsUnmoved DEF BaseHolds
<1> QED BY <1>1, <1>2

\* Over a head that held nothing there, the placed files are all the folder.
LEMMA PlacedAreAll ==
    ASSUME PlacementInv, place.landed # 0, place.claims # 0
    PROVE  BaseAt("placed", place.landed).files = LaidOver(EmptyTree, Placed)
<1>1. EmptyAt(place.landed - 1) /\ TreeAt(place.landed) = LaidOver(TreeAt(place.landed - 1), Placed)
  BY DEF PlacementInv, LandedHolds
<1>2. \A p \in AtPlace : TreeAt(place.landed)[p] = IF p \in PlacedPaths THEN Template ELSE Absent
  BY <1>1, PlacedIsCovered DEF EmptyAt, LaidOver, Placed
<1>3. PlacedPaths \subseteq AtPlace BY PlacedIsCovered
<1> QED BY <1>2, <1>3 DEF BaseAt, Only, Covered, LaidOver, Placed, EmptyTree

LEMMA RecordKeeps == PlacementInv /\ RecordOwn => PlacementInv'
<1> SUFFICES ASSUME PlacementInv, RecordOwn PROVE PlacementInv' OBVIOUS
<1>1. /\ versions \in Seq(Trees) /\ CheckType /\ HeadCommit \in Nat /\ place.at = "base"
      /\ place.landed \in 0 .. HeadCommit /\ place.landed # 0
      /\ place' = Ends /\ UNCHANGED <<versions, check>>
      /\ bases' = [bases EXCEPT !["placed"] =
                     [commit |-> place.landed, files |-> LaidOver(EmptyTree, Placed),
                      held |-> bases["placed"].held]]
      /\ bases["placed"].held \in BOOLEAN /\ "placed" \in Copies
  BY HeadIsNat DEF RecordOwn, PlacementInv, PlacementTyped, LandedHolds, Copies
<1>2. /\ place'.at = "over" /\ place'.landed = place.landed /\ place'.claims = place.claims
      /\ place'.stood = place.stood /\ place'.identity = place.identity
      /\ place'.written = place.written
  BY <1>1 DEF Ends, PlacementInv, PlacementTyped
<1>3. PICK own : own = [commit |-> place.landed, files |-> LaidOver(EmptyTree, Placed),
                        held |-> bases["placed"].held]
  OBVIOUS
<1>4. /\ own \in [commit : Nat, files : Trees, held : BOOLEAN]
      /\ own.commit = place.landed /\ own.files = LaidOver(EmptyTree, Placed)
  <2>1. EmptyTree \in Trees BY DEF EmptyTree, Trees
  <2>2. LaidOver(EmptyTree, Placed) \in Trees BY <2>1, PlacedTyped
  <2> QED BY <1>1, <1>3, <2>2
<1>5. BaseHolds(own, "placed")
  <2>1. CASE place.claims = 0 BY <1>1, <1>4, <2>1 DEF BaseHolds, HoldsPlacedAlone
  <2>2. CASE place.claims # 0 BY <1>1, <1>4, <2>2, PlacedAreAll DEF BaseHolds
  <2> QED BY <2>1, <2>2
<1>6. bases' \in [Copies -> [commit : Nat, files : Trees, held : BOOLEAN]] /\ PlacedBasesHold'
  BY <1>1, <1>2, <1>3, <1>4, <1>5, RecordedBaseHolds
<1>7. place' \in [at : PlaceSteps, identity : BOOLEAN, head : Nat, stood : Nat, claims : Nat,
                landed : Nat, written : SUBSET PlacedPaths, copy : Copies \cup {"none"}, own : Nat]
  BY <1>1 DEF Ends, PlacementInv, PlacementTyped, PlaceSteps
<1>8. ClaimsHold' /\ AdvanceHolds' BY <1>2 DEF ClaimsHold, AdvanceHolds
<1>9. LandedHolds' BY <1>1, <1>2, LandedStands DEF PlacementInv
<1> QED BY <1>1, <1>6, <1>7, <1>8, <1>9, VersionsUnmoved DEF PlacementInv, PlacementTyped, CheckType

LEMMA OtherRunKeeps ==
    ASSUME PlacementInv, NEW copy \in Copies, OtherRun(copy) PROVE PlacementInv'
<1>1. /\ versions \in Seq(Trees) /\ CheckType /\ HeadCommit \in Nat
      /\ AddressedHead \in 0 .. HeadCommit /\ UNCHANGED <<versions, check, place>>
      /\ bases[copy] \in [commit : Nat, files : Trees, held : BOOLEAN]
      /\ BaseHolds(bases[copy], copy)
  BY AddressedIsCommit DEF OtherRun, PlacementInv, PlacementTyped, PlacedBasesHold
<1>2. PICK head : head = AddressedHead OBVIOUS
<1>3. PICK base :
         /\ bases' = [bases EXCEPT ![copy] = base]
         /\ base = [bases[copy] EXCEPT !.held = TRUE] \/ base = BaseAt(copy, head)
  <2>1. bases' = [bases EXCEPT ![copy] =
                    IF bases[copy].commit # 0 /\ ~bases[copy].held /\ bases[copy].commit = AddressedHead
                    THEN [bases[copy] EXCEPT !.held = TRUE] ELSE BaseAt(copy, AddressedHead)]
    BY DEF OtherRun
  <2>2. CASE bases[copy].commit # 0 /\ ~bases[copy].held /\ bases[copy].commit = AddressedHead
    <3>1. bases' = [bases EXCEPT ![copy] = [bases[copy] EXCEPT !.held = TRUE]] BY <2>1, <2>2
    <3> QED BY <3>1
  <2>3. CASE ~(bases[copy].commit # 0 /\ ~bases[copy].held /\ bases[copy].commit = AddressedHead)
    <3>1. bases' = [bases EXCEPT ![copy] = BaseAt(copy, head)] BY <1>2, <2>1, <2>3
    <3> QED BY <3>1
  <2> QED BY <2>2, <2>3
<1>4. base \in [commit : Nat, files : Trees, held : BOOLEAN] /\ BaseHolds(base, copy)
  <2>1. CASE base = [bases[copy] EXCEPT !.held = TRUE]
    <3>1. /\ base \in [commit : Nat, files : Trees, held : BOOLEAN]
          /\ base.commit = bases[copy].commit /\ base.files = bases[copy].files
      BY <1>1, <2>1
    <3> QED BY <1>1, <3>1 DEF BaseHolds, HoldsPlacedAlone
  <2>2. CASE base = BaseAt(copy, head)
    <3>1. base \in [commit : Nat, files : Trees, held : BOOLEAN] BY <1>1, <1>2, <2>2, BaseAtTyped
    <3>2. base.commit = head /\ base.files = BaseAt(copy, head).files BY <2>2 DEF BaseAt
    <3> QED BY <1>1, <1>2, <3>1, <3>2 DEF BaseHolds
  <2> QED BY <1>3, <2>1, <2>2
<1>5. bases' \in [Copies -> [commit : Nat, files : Trees, held : BOOLEAN]] /\ PlacedBasesHold'
  BY <1>1, <1>3, <1>4, RecordedBaseHolds
<1>6. ClaimsHold'
  <2>1. place.at = "check" => (CheckSays(place.claims)' <=> CheckSays(place.claims))
    <3>1. \A h : PageQuiet(h)' <=> PageQuiet(h) BY <1>1, Unmoved
    <3> QED BY <1>1, <3>1, VersionsUnmoved DEF CheckSays
  <2> QED BY <1>1, <2>1, VersionsUnmoved DEF PlacementInv, ClaimsHold
<1>7. LandedHolds' BY <1>1, LandedStands DEF PlacementInv, LandedHolds
<1>8. AdvanceHolds'
  <2>1. Covered(place.copy)' = Covered(place.copy) BY <1>1 DEF Covered
  <2>2. TreeAt(place.own)' = TreeAt(place.own) /\ TreeAt(place.landed)' = TreeAt(place.landed)
    BY <1>1 DEF TreeAt
  <2> QED BY <1>1, <2>1, <2>2, VersionsUnmoved DEF PlacementInv, AdvanceHolds
<1> QED BY <1>1, <1>5, <1>6, <1>7, <1>8, VersionsUnmoved DEF PlacementInv, PlacementTyped, CheckType

LEMMA PlacementStep == PlacementInv /\ [PlacementNext]_placementVars => PlacementInv'
<1> SUFFICES ASSUME PlacementInv, [PlacementNext]_placementVars PROVE PlacementInv' OBVIOUS
<1>0. versions \in Seq(Trees) /\ CheckType BY DEF PlacementInv, PlacementTyped
<1>1. CASE UNCHANGED placementVars BY <1>1, PlacementGrows DEF placementVars, Grows
<1>2. CASE OthersPublish BY <1>0, <1>2, OthersGrow, PlacementGrows DEF OthersPublish
<1>3. CASE SendRefused \/ WriteFails
  BY <1>0, <1>3, EndsKeeps DEF SendRefused, WriteFails, CheckType
<1>4. CASE Stop
  <2>1. CheckType' BY <1>4 DEF Stop, CheckType, NoCheck, CheckSteps
  <2> QED BY <1>4, <2>1, EndsKeeps DEF Stop
<1> QED BY <1>1, <1>2, <1>3, <1>4, HeadKeeps, NamedHeadKeeps, FolderCheckKeeps, BodyKeeps,
           WritesKeep, AdvanceKeeps, LayKeeps, RecordKeeps, OtherRunKeeps DEF PlacementNext

\* The identity file is written last, and another run takes the folder in
\* only where it stands; the run itself lays bases after all of them.
LEMMA FilesStandStep ==
    PlacementInv /\ FilesStand /\ [PlacementNext]_placementVars => FilesStand'
<1> SUFFICES ASSUME PlacementInv, FilesStand, [PlacementNext]_placementVars PROVE FilesStand' OBVIOUS
<1>1. /\ place \in [at : PlaceSteps, identity : BOOLEAN, head : Nat, stood : Nat, claims : Nat,
                  landed : Nat, written : SUBSET PlacedPaths, copy : Copies \cup {"none"}, own : Nat]
      /\ bases \in [Copies -> [commit : Nat, files : Trees, held : BOOLEAN]]
      /\ place.at = "lay" => place.copy # "placed"
      /\ PlacedIdentity \in PlacedPaths /\ "placed" \in Copies
  BY PlacedIsCovered DEF PlacementInv, PlacementTyped, AdvanceHolds, Copies
<1>2. CASE UNCHANGED <<place, bases>> BY <1>2 DEF FilesStand
<1>3. CASE \E p \in PlacedPaths : WriteFile(p)
  <2>1. PICK p \in PlacedPaths : WriteFile(p) BY <1>3
  <2>2. /\ place'.at = "write" /\ place'.written = place.written \cup {p} /\ UNCHANGED bases
        /\ p \notin place.written /\ (p = PlacedIdentity => place'.written = PlacedPaths)
    BY <1>1, <2>1 DEF WriteFile
  <2> QED BY <1>1, <2>2 DEF FilesStand
<1>4. CASE /\ UNCHANGED bases /\ place'.written = place.written
           /\ place'.at \in {"base", "lay"} => place.written = PlacedPaths
  BY <1>4 DEF FilesStand
<1>5. CASE Lay
  <2>1. place.at = "lay" /\ place'.at = "base" /\ place'.written = place.written BY <1>1, <1>5 DEF Lay
  <2> QED BY <2>1 DEF FilesStand
<1>6. CASE RecordOwn
  <2>1. place.at = "base" /\ place'.written = place.written BY <1>1, <1>6 DEF RecordOwn, Ends
  <2> QED BY <2>1 DEF FilesStand
<1>7. CASE \E copy \in Copies : OtherRun(copy)
  <2>1. PICK copy \in Copies : OtherRun(copy) BY <1>7
  <2>2. UNCHANGED place /\ (copy # "placed" => bases'["placed"] = bases["placed"])
    BY <1>1, <2>1 DEF OtherRun
  <2>3. copy = "placed" => place.written = PlacedPaths BY <2>1 DEF OtherRun, FilesStand
  <2> QED BY <2>2, <2>3 DEF FilesStand
<1>8. CASE ReadHead \/ SendRefused \/ HeadNamed \/ FolderChecked \/ WriteFails \/ Stop
  <2>1. /\ UNCHANGED bases /\ place'.written = place.written
        /\ place'.at \in {"send", "over", "check", "again"} \/ place' = place
    BY <1>1, <1>8 DEF ReadHead, SendRefused, HeadNamed, FolderChecked, WriteFails, Stop, Ends
  <2> QED BY <2>1 DEF FilesStand
<1>9. CASE BodyLands
  <2>1. UNCHANGED bases /\ place'.written = place.written /\ place'.at \in {"write", "over"}
    BY <1>1, <1>9 DEF BodyLands
  <2> QED BY <2>1, <1>4
<1>10. CASE AllWritten \/ AdvanceFrom
  <2>1. /\ UNCHANGED bases /\ place'.written = place.written
        /\ place.at = "base" \/ place.written = PlacedPaths
    BY <1>1, <1>10 DEF AllWritten, AdvanceFrom
  <2> QED BY <1>4, <2>1 DEF FilesStand
<1> QED BY <1>2, <1>3, <1>5, <1>6, <1>7, <1>8, <1>9, <1>10
        DEF PlacementNext, OthersPublish, placementVars

\* A landed version changes the placed files alone, over a head without them.
LEMMA LandedIsOne ==
    ASSUME PlacementInv, place.landed # 0, place.claims # 0 \/ place.landed = 1
    PROVE  ChangedBy(place.landed) = PlacedPaths /\ EmptyAt(place.landed - 1)
<1>1. /\ TreeAt(place.landed) = LaidOver(TreeAt(place.landed - 1), Placed)
      /\ place.claims # 0 => EmptyAt(place.landed - 1)
  BY DEF PlacementInv, LandedHolds
<1>2. EmptyAt(place.landed - 1)
  <2>1. CASE place.claims # 0 BY <1>1, <2>1
  <2>2. CASE place.landed = 1
    BY <2>2, PlacedIsCovered DEF EmptyAt, TreeAt, EmptyTree
  <2> QED BY <2>1, <2>2
<1>3. \A p \in Paths : TreeAt(place.landed)[p] =
         IF p \in PlacedPaths THEN Template ELSE TreeAt(place.landed - 1)[p]
  BY <1>1 DEF LaidOver, Placed
<1>4. \A p \in PlacedPaths : TreeAt(place.landed - 1)[p] = Absent
  BY <1>2, PlacedIsCovered DEF EmptyAt
<1> QED BY <1>2, <1>3, <1>4, PlacedIsCovered DEF ChangedBy

(***************************************************************************)
(* Whatever other writers publish and other runs converge meanwhile, a     *)
(* placement adds one version, of the placed files alone and over a head   *)
(* that held nothing there; and the base it lays into a copy names the     *)
(* files of that base's own commit, the placed ones laid over them where   *)
(* the copy stands at another commit: it is never advanced past a change   *)
(* the copy has not taken in.  The new folder's base names the placed      *)
(* files alone where a body claiming no parent landed over another         *)
(* writer's, and no base is laid nor the folder a copy before every file   *)
(* of it is written (src/commands/place.rs, and lay_files of               *)
(* src/push/working_copy.rs).                                              *)
(***************************************************************************)
THEOREM PlacesAsCommitted == PlacementSpec => []PlacedAsCommitted
<1>1. PlacementInv /\ FilesStand => PlacedAsCommitted
  <2> SUFFICES ASSUME PlacementInv, FilesStand PROVE PlacedAsCommitted OBVIOUS
  <2>1. LaidBaseIsCommitted
    <3> SUFFICES ASSUME NEW copy \in Copies, bases[copy].commit # 0
                 PROVE  \/ bases[copy].files = BaseAt(copy, bases[copy].commit).files
                        \/ /\ bases[copy].commit # place.landed
                           /\ bases[copy].files = LaidOver(BaseAt(copy, bases[copy].commit).files, Placed)
                        \/ PlacedAlone(copy, bases[copy])
      BY DEF LaidBaseIsCommitted
    <3>1. BaseHolds(bases[copy], copy) BY DEF PlacementInv, PlacedBasesHold
    <3>2. CASE HoldsPlacedAlone(bases[copy], copy)
      <4>1. place.landed # 0 BY <3>2 DEF HoldsPlacedAlone
      <4>2. TreeAt(place.landed) = LaidOver(TreeAt(place.landed - 1), Placed)
        BY <4>1 DEF PlacementInv, LandedHolds
      <4>3. Only(TreeAt(place.landed), PlacedPaths) = LaidOver(EmptyTree, Placed)
        BY <4>2, PlacedIsCovered DEF Only, LaidOver, Placed, EmptyTree
      <4> QED BY <3>2, <4>3 DEF HoldsPlacedAlone, PlacedAlone, NoParent
    <3> QED BY <3>1, <3>2 DEF BaseHolds
  <2>2. OnePlacement
    BY LandedIsOne DEF PlacementInv, LandedHolds, FilesStand, OnePlacement, NoParent
  <2> QED BY <2>1, <2>2 DEF PlacedAsCommitted
<1>2. PlacementSpec => []PlacementInv
  BY PlacementStart0, PlacementStep, PTL DEF PlacementSpec
<1>3. PlacementInit => FilesStand
  BY PlacedIsCovered DEF PlacementInit, PlacementStart, FilesStand, NoBase, Copies
<1>4. PlacementSpec => []FilesStand
  BY <1>2, <1>3, FilesStandStep, PTL DEF PlacementSpec
<1> QED BY <1>1, <1>2, <1>4, PTL

-----------------------------------------------------------------------------
(***************************************************************************)
(* The way back.  Every step that names a repository in `ran` fixes what   *)
(* the nearest file says, so most of the argument is about what the chain  *)
(* of files above a directory is read as; the rest is what a push under    *)
(* way knows of the file it wrote or found.                                *)
(***************************************************************************)
PlainForms == {NoForm} \cup {RootForm(r) : r \in Plain}
IdentitiesTypeOK ==
    /\ tree \in [Dirs -> Forms] /\ served \in [Repos -> Forms]
    /\ \A r \in Plain : served[r] \in PlainForms
    /\ served[Identity] = FolderForm(TRUE)

(* A push under way stands at a root file of its repository, bound by no    *)
(* identity; if it wrote that file, without it none would be found.         *)
PushStands ==
    push = NoPush \/
      /\ push.at = "sent" /\ push.dir \in Dirs /\ push.repo \in Plain
      /\ tree[push.dir] = RootForm(push.repo) /\ BoundAt(push.dir) = 0
      /\ ran = NothingRan
      /\ push.unlinked => push.wrote
      /\ push.wrote => ~Holds([tree EXCEPT ![push.dir] = NoForm], push.dir, push.repo)

IdentitiesInv == IdentitiesTypeOK /\ PushStands /\ RunsComeBack

-----------------------------------------------------------------------------
(* The outermost and the nearest of some directories.                       *)
LEMMA NearestOf ==
    ASSUME IdentitiesAssumption, NEW S \in SUBSET Dirs, S # {}
    PROVE  Max(S) \in S /\ \A e \in S : e <= Max(S)
<1>1. S \in SUBSET Nat /\ Depth \in Nat /\ \A e \in S : e <= Depth
  BY DEF IdentitiesAssumption, Dirs
<1>2. PICK n \in S : \A e \in S : e <= n BY <1>1, HasNewest
<1>3. \A e \in S : n >= e BY <1>1, <1>2
<1>4. Max(S) \in S /\ \A e \in S : Max(S) >= e BY <1>3 DEF Max
<1> QED BY <1>1, <1>4

LEMMA OutermostOf ==
    ASSUME IdentitiesAssumption, NEW S \in SUBSET Dirs, S # {} PROVE Min(S) \in S
<1>. DEFINE T == {Depth - e : e \in S}
<1>1. Depth \in Nat /\ \A e \in S : e \in Nat /\ e <= Depth BY DEF IdentitiesAssumption, Dirs
<1>2. T \in SUBSET Nat /\ T # {} /\ \A t \in T : t <= Depth BY <1>1
<1> HIDE DEF T
<1>3. PICK t \in T : \A u \in T : u <= t BY <1>1, <1>2, HasNewest
<1>4. PICK n \in S : t = Depth - n BY DEF T
<1>5. ASSUME NEW e \in S PROVE n <= e
  <2>1. Depth - e \in T BY DEF T
  <2>2. Depth - e <= Depth - n BY <1>3, <1>4, <2>1
  <2> QED BY <1>1, <2>2
<1> QED BY <1>5 DEF Min

LEMMA FormsDiffer ==
    /\ \A r : RootForm(r) # NoForm /\ RootForm(r).form = "root" /\ RootForm(r).repo = r
    /\ \A s : FolderForm(s) # NoForm /\ FolderForm(s).form = "folder" /\ FolderForm(s).repo = Holder
                /\ FolderForm(s).path = FolderPath /\ FolderForm(s).shared = s
    /\ NoForm.form = "none"
    /\ \A form \in Forms : \/ form = NoForm
                           \/ \E r \in Plain : form = RootForm(r)
                           \/ \E s \in BOOLEAN : form = FolderForm(s)
BY DEF RootForm, NoForm, FolderForm, Forms

-----------------------------------------------------------------------------
(* What a run standing at a directory reads.                                *)

RootStands(d, n, r) ==
    /\ tree[n] = RootForm(r) /\ n <= d
    /\ \A e \in Dirs : n < e /\ e <= d => tree[e] = NoForm
RootRead ==
    \A d \in Dirs, n \in Dirs, r \in Plain :
        RootStands(d, n, r) /\ BoundAt(d) = 0 => Nearest(d) = n /\ RepositoryOf(d) = r
LEMMA ReadsRoot == ASSUME IdentitiesAssumption PROVE RootRead
<1>1. SUFFICES ASSUME NEW d \in Dirs, NEW n \in Dirs, NEW r \in Plain,
                      RootStands(d, n, r), BoundAt(d) = 0
               PROVE  Nearest(d) = n /\ RepositoryOf(d) = r
  BY DEF RootRead
<1>2. d \in Nat /\ n \in Nat /\ Depth \in Nat /\ d <= Depth /\ n >= 1
  BY DEF IdentitiesAssumption, Dirs
<1>3. Formed(d) \in SUBSET Dirs /\ n \in Formed(d)
  BY <1>1, <1>2, FormsDiffer DEF Formed, Dirs, RootStands
<1>4. \A e \in Formed(d) : e <= n
  BY <1>1, <1>2 DEF Formed, Dirs, RootStands
<1>5. Max(Formed(d)) = n
  <2>1. Max(Formed(d)) \in Formed(d) /\ n <= Max(Formed(d)) BY <1>3, NearestOf
  <2>2. Max(Formed(d)) <= n /\ Max(Formed(d)) \in Nat BY <1>3, <1>4, <2>1 DEF Dirs
  <2> QED BY <1>2, <2>1, <2>2
<1>6. Nearest(d) = n BY <1>3, <1>5 DEF Nearest
<1>7. Addressed(d).repo = r
  BY <1>1, <1>2, <1>6, FormsDiffer DEF Addressed, RootStands
<1>8. r # Identity BY DEF IdentitiesAssumption
<1> QED BY <1>6, <1>7, <1>8 DEF RepositoryOf, Home

(* A folder form in its place is read as the holder's, bound or not.        *)
FolderRead ==
    \A d \in Dirs : tree[d] \in {FolderForm(s) : s \in BOOLEAN} /\ ~Misplaced(d, tree[d])
                      => RepositoryOf(d) = Holder
LEMMA ReadsFolder == ASSUME IdentitiesAssumption PROVE FolderRead
<1>1. SUFFICES ASSUME NEW d \in Dirs, NEW s \in BOOLEAN, tree[d] = FolderForm(s), ~Misplaced(d, tree[d])
               PROVE  RepositoryOf(d) = Holder
  BY DEF FolderRead
<1>2. d \in Nat /\ Depth \in Nat /\ d <= Depth /\ d >= 1
  BY DEF IdentitiesAssumption, Dirs
<1>3. Formed(d) \in SUBSET Dirs /\ d \in Formed(d) /\ \A e \in Formed(d) : e <= d
  BY <1>1, <1>2, FormsDiffer DEF Formed, Dirs
<1>4. Max(Formed(d)) = d
  <2>1. Max(Formed(d)) \in Formed(d) /\ d <= Max(Formed(d)) BY <1>3, NearestOf
  <2> QED BY <1>2, <1>3, <2>1 DEF Dirs
<1>5. Nearest(d) = d /\ d # 0 BY <1>2, <1>3, <1>4 DEF Nearest
<1>6. Identity # Holder BY DEF IdentitiesAssumption
<1>7. CASE BoundAt(d) # 0
  BY <1>7 DEF Addressed, RepositoryOf, Home
<1>8. CASE BoundAt(d) = 0
  <2>1. Addressed(d).repo = Holder BY <1>1, <1>5, <1>8, FormsDiffer DEF Addressed
  <2> QED BY <1>6, <2>1 DEF RepositoryOf, Home
<1> QED BY <1>7, <1>8

(* The same once a step is taken.                                           *)
LEMMA ReadsRootNext == ASSUME IdentitiesAssumption PROVE RootRead'
BY ReadsRoot, IdentitiesAssumption, PTL
LEMMA ReadsFolderNext == ASSUME IdentitiesAssumption PROVE FolderRead'
BY ReadsFolder, IdentitiesAssumption, PTL

(* No directory read as a folder's: none of the files above binds it, and   *)
(* the nearest is a root file or none stands.                               *)
LEMMA NoFolderRead ==
    ASSUME IdentitiesAssumption, IdentitiesTypeOK, NEW d \in Dirs, ~Addressed(d).folder
    PROVE  /\ BoundAt(d) = 0
           /\ \/ Nearest(d) = 0 /\ Formed(d) = {} /\ Addressed(d).repo = "none" /\ Addressed(d).dir = 0
              \/ \E r \in Plain : /\ RootStands(d, Nearest(d), r) /\ Nearest(d) \in Dirs
                                 /\ Addressed(d).repo = r /\ Addressed(d).dir = Nearest(d)
<1>1. BoundAt(d) = 0 BY DEF Addressed
<1>2. d \in Nat /\ Depth \in Nat /\ d <= Depth /\ d >= 1
  BY DEF IdentitiesAssumption, Dirs
<1>3. Formed(d) \in SUBSET Dirs BY <1>2 DEF Formed, Dirs
<1>4. CASE Formed(d) = {}
  BY <1>1, <1>4 DEF Nearest, Addressed, Nowhere
<1>5. CASE Formed(d) # {}
  <2>1. PICK n : n = Max(Formed(d)) OBVIOUS
  <2>2. n \in Formed(d) /\ n \in Dirs /\ \A e \in Formed(d) : e <= n BY <1>3, <1>5, <2>1, NearestOf
  <2>3. Nearest(d) = n /\ n # 0 BY <1>5, <2>1, <2>2 DEF Nearest, Dirs
  <2>4. tree[n].form = "root" BY <1>1, <2>3 DEF Addressed, Refused
  <2>5. tree[n] \in Forms BY <2>2 DEF IdentitiesTypeOK
  <2>6. PICK r \in Plain : tree[n] = RootForm(r) BY <2>4, <2>5, FormsDiffer
  <2>7. n <= d /\ \A e \in Dirs : n < e /\ e <= d => tree[e] = NoForm
    BY <1>2, <2>2 DEF Formed, Dirs
  <2>8. Addressed(d).repo = r /\ Addressed(d).dir = n
    BY <1>1, <2>3, <2>4, <2>6, FormsDiffer DEF Addressed
  <2> QED BY <1>1, <2>2, <2>3, <2>6, <2>7, <2>8 DEF RootStands
<1> QED BY <1>4, <1>5

LEMMA NearestRootStands ==
    ASSUME IdentitiesAssumption, NEW d \in Dirs, NEW r \in Plain, NearestNames(d, r)
    PROVE  RootStands(d, Nearest(d), r) /\ Nearest(d) \in Dirs
<1>1. d \in Nat /\ Depth \in Nat /\ d <= Depth BY DEF IdentitiesAssumption, Dirs
<1>2. Formed(d) \in SUBSET Dirs /\ Formed(d) # {} BY <1>1 DEF Formed, Dirs, NearestNames, Nearest
<1>3. PICK n : n = Max(Formed(d)) OBVIOUS
<1>4. Nearest(d) = n /\ n \in Formed(d) /\ \A e \in Formed(d) : e <= n
  BY <1>2, <1>3, NearestOf DEF Nearest
<1> QED BY <1>1, <1>2, <1>4 DEF RootStands, NearestNames, Formed, Dirs

(* A root file laid where none stood binds nothing.                         *)
LEMMA LaidUnbound ==
    ASSUME IdentitiesAssumption, IdentitiesTypeOK, NEW d \in Dirs, NEW r \in Plain,
           tree[d] = NoForm, BoundAt(d) = 0, tree' = [tree EXCEPT ![d] = RootForm(r)]
    PROVE  BoundAt(d)' = 0 /\ RootStands(d, d, r)' /\ RepositoryOf(d)' = r
<1>1. d \in Nat /\ Depth \in Nat /\ d <= Depth /\ d >= 1 BY DEF IdentitiesAssumption, Dirs
<1>2. \A e \in Dirs : tree'[e] = IF e = d THEN RootForm(r) ELSE tree[e] BY DEF IdentitiesTypeOK
<1>3. FormsFrom(d, "folder")' = FormsFrom(d, "folder")
  BY <1>1, <1>2, FormsDiffer DEF FormsFrom, Formed, Dirs
<1>4. BoundAt(d)' = 0
  <2>1. PICK outers : outers = FormsFrom(d, "folder") OBVIOUS
  <2>2. CASE outers = {} BY <1>3, <2>1, <2>2 DEF BoundAt
  <2>3. CASE outers # {}
    <3>1. outers \in SUBSET Dirs BY <1>1, <2>1 DEF FormsFrom, Formed, Dirs
    <3>2. PICK m : m = Min(outers) OBVIOUS
    <3>3. m \in outers /\ m \in Dirs BY <2>3, <3>1, <3>2, OutermostOf
    <3>4. m < d
      <4>1. m <= d /\ tree[m].form = "folder" /\ m \in Nat
        BY <1>1, <2>1, <3>3 DEF FormsFrom, Formed, Dirs
      <4>2. m # d BY <4>1, FormsDiffer
      <4> QED BY <1>1, <4>1, <4>2
    <3>5. Formed(m)' = Formed(m) /\ tree'[m] = tree[m]
      BY <1>1, <1>2, <3>3, <3>4 DEF Formed, Dirs
    <3>6. ~(Formed(m) = {m} /\ tree[m].shared)
      <4>1. BoundAt(d) = IF outers # {} /\ Formed(Min(outers)) = {Min(outers)} /\ tree[Min(outers)].shared
                         THEN Min(outers) ELSE 0
        BY <2>1 DEF BoundAt
      <4>2. m # 0 BY <3>3 DEF Dirs
      <4> QED BY <2>3, <3>2, <4>1, <4>2
    <3>7. BoundAt(d)' = IF outers # {} /\ Formed(Min(outers))' = {Min(outers)} /\ tree'[Min(outers)].shared
                        THEN Min(outers) ELSE 0
      BY <1>3, <2>1 DEF BoundAt
    <3> QED BY <2>3, <3>2, <3>5, <3>6, <3>7
  <2> QED BY <2>2, <2>3
<1>5. RootStands(d, d, r)' BY <1>1, <1>2 DEF RootStands, Dirs
<1> QED BY <1>4, <1>5, ReadsRootNext DEF RootRead

(* A bare run where the nearest file names r belongs to r, and so it does   *)
(* once such a file is laid.                                                *)
LEMMA StandsUnchanged ==
    ASSUME IdentitiesAssumption, NEW d \in Dirs, UNCHANGED tree
    PROVE  RepositoryOf(d)' = RepositoryOf(d)
BY DEF RepositoryOf, Addressed, BoundAt, FormsFrom, Formed, Nearest, Misplaced

LEMMA ComesBack ==
    ASSUME NEW d, NEW r, ran' = [dir |-> d, repo |-> r],
           served'[r].repo \in {"none", Home(r)} => RepositoryOf(d)' = Home(r)
    PROVE  RunsComeBack'
<1>1. ran'.dir = d /\ ran'.repo = r OBVIOUS
<1>2. RepositoryOf(ran.dir)' = RepositoryOf(d)'
  BY <1>1 DEF RepositoryOf, Addressed, BoundAt, FormsFrom, Formed, Nearest, Misplaced
<1> QED BY <1>1, <1>2 DEF RunsComeBack

LEMMA QuietPush == ASSUME IdentitiesInv, NotPushing, UNCHANGED push PROVE PushStands'
BY DEF IdentitiesInv, PushStands, NotPushing, NoPush

(* The retrievals.                                                          *)
LEMMA PullScopedKept ==
    ASSUME IdentitiesAssumption, IdentitiesInv, NEW d \in Dirs, NEW r \in Repos, PullScoped(d, r)
    PROVE  IdentitiesInv'
<1>1. RepositoryOf(d) = Home(r) /\ UNCHANGED <<tree, served, push>> /\ ran' = [dir |-> d, repo |-> r]
  BY DEF PullScoped, RepositoryOf, Runs
<1>2. RunsComeBack' BY <1>1, StandsUnchanged, ComesBack
<1>3. PushStands' BY <1>1, QuietPush DEF PullScoped
<1>4. IdentitiesTypeOK' BY <1>1 DEF IdentitiesInv, IdentitiesTypeOK
<1> QED BY <1>2, <1>3, <1>4 DEF IdentitiesInv

LEMMA TreeTyped ==
    ASSUME IdentitiesTypeOK, NEW d \in Dirs, NEW form \in Forms, tree' = [tree EXCEPT ![d] = form],
           UNCHANGED served
    PROVE  IdentitiesTypeOK'
BY DEF IdentitiesTypeOK

LEMMA FormsIn == NoForm \in Forms /\ (\A r \in Plain : RootForm(r) \in Forms)
                 /\ \A s \in BOOLEAN : FolderForm(s) \in Forms
BY DEF Forms

(* A named retrieval: the file found, retrieved or written names r.         *)
LEMMA PullNamedKept ==
    ASSUME IdentitiesAssumption, IdentitiesInv, NEW d \in Dirs, NEW r \in Repos, NEW explicit \in BOOLEAN,
           PullNamed(d, r, explicit)
    PROVE  IdentitiesInv'
<1>1. /\ r \in Plain /\ ~Addressed(d).folder /\ NotPushing /\ UNCHANGED <<served, push>>
      /\ (Nearest(d) # 0 => NearestNames(d, r)) /\ ran' = [dir |-> d, repo |-> r]
  BY DEF PullNamed, Runs
<1>2. PICK target : target = IF ~explicit /\ NearestNames(d, r) THEN Nearest(d) ELSE d OBVIOUS
<1>3. tree' = WithIdentity(Retrieved(tree, target, r), target, r) BY <1>2 DEF PullNamed
<1>4. IdentitiesTypeOK /\ BoundAt(d) = 0 /\ Home(r) = r /\ PushStands'
  BY <1>1, NoFolderRead, QuietPush DEF IdentitiesInv, Home, IdentitiesAssumption
<1>5. CASE NearestNames(d, r)
  <2>1. RootStands(d, Nearest(d), r) /\ Nearest(d) \in Dirs BY <1>1, <1>5, NearestRootStands
  <2>2. RepositoryOf(d) = r BY <1>1, <1>4, <2>1, ReadsRoot DEF RootRead
  <2>3. CASE target = Nearest(d) \/ tree[d] # NoForm
    <3>1. tree[target] # NoForm
      BY <1>2, <2>1, <2>3, FormsDiffer DEF RootStands
    <3>2. UNCHANGED tree BY <1>3, <3>1 DEF Retrieved, WithIdentity, Holds
    <3>3. IdentitiesTypeOK' BY <1>1, <1>4, <3>2 DEF IdentitiesTypeOK
    <3> QED BY <1>1, <1>4, <2>2, <3>2, <3>3, StandsUnchanged, ComesBack DEF IdentitiesInv
  <2>4. CASE target = d /\ tree[d] = NoForm
    <3>1. CASE r \in holding /\ served[r] # NoForm
      <4>1. PICK q \in Plain : served[r] = RootForm(q) BY <1>1, <1>4, <3>1 DEF IdentitiesTypeOK, PlainForms
      <4>2. tree' = [tree EXCEPT ![d] = RootForm(q)]
        <5>1. Retrieved(tree, d, r) = [tree EXCEPT ![d] = RootForm(q)] BY <2>4, <3>1, <4>1 DEF Retrieved
        <5>2. Retrieved(tree, d, r)[d] # NoForm BY <1>4, <5>1, FormsDiffer DEF IdentitiesTypeOK
        <5> QED BY <1>3, <2>4, <5>1, <5>2 DEF WithIdentity, Holds
      <4>3. IdentitiesTypeOK' BY <1>1, <1>4, <4>2, FormsIn, TreeTyped
      <4>4. served'[r].repo \in {"none", Home(r)} => q = r
        BY <1>1, <1>4, <4>1, FormsDiffer DEF IdentitiesAssumption
      <4>5. q = r => RepositoryOf(d)' = r BY <1>4, <2>4, <4>2, LaidUnbound
      <4> QED BY <1>1, <1>4, <4>3, <4>4, <4>5, ComesBack DEF IdentitiesInv
    <3>2. CASE ~(r \in holding /\ served[r] # NoForm)
      <4>1. Retrieved(tree, d, r) = tree
        BY <1>4, <2>4, <3>2 DEF Retrieved, IdentitiesTypeOK
      <4>2. UNCHANGED tree \/ tree' = [tree EXCEPT ![d] = RootForm(r)]
        BY <1>3, <2>4, <4>1 DEF WithIdentity
      <4>3. IdentitiesTypeOK' BY <1>1, <1>4, <4>2, FormsIn, TreeTyped DEF IdentitiesTypeOK
      <4>4. RepositoryOf(d)' = r BY <1>1, <1>4, <2>2, <2>4, <4>2, LaidUnbound, StandsUnchanged
      <4> QED BY <1>1, <1>4, <4>3, <4>4, ComesBack DEF IdentitiesInv
    <3> QED BY <3>1, <3>2
  <2> QED BY <1>2, <2>3, <2>4
<1>6. CASE ~NearestNames(d, r)
  <2>1. Nearest(d) = 0 /\ Formed(d) = {} /\ target = d
    BY <1>1, <1>2, <1>4, <1>6, NoFolderRead DEF Dirs
  <2>2. tree[d] = NoForm
    BY <2>1 DEF Formed, Dirs, IdentitiesAssumption
  <2>3. PICK files : files = Retrieved(tree, d, r) OBVIOUS
  <2>4. CASE r \in holding /\ served[r] # NoForm
    <3>1. PICK q \in Plain : served[r] = RootForm(q) BY <1>1, <1>4, <2>4 DEF IdentitiesTypeOK, PlainForms
    <3>2. tree' = [tree EXCEPT ![d] = RootForm(q)]
      <4>1. files = [tree EXCEPT ![d] = RootForm(q)] BY <2>2, <2>3, <2>4, <3>1 DEF Retrieved
      <4>2. files[d] # NoForm BY <1>4, <4>1, FormsDiffer DEF IdentitiesTypeOK
      <4> QED BY <1>3, <2>1, <2>3, <4>1, <4>2 DEF WithIdentity, Holds
    <3>3. IdentitiesTypeOK' BY <1>1, <1>4, <3>2, FormsIn, TreeTyped
    <3>4. served'[r].repo \in {"none", Home(r)} => q = r
      BY <1>1, <1>4, <3>1, FormsDiffer DEF IdentitiesAssumption
    <3>5. q = r => RepositoryOf(d)' = r BY <1>4, <2>2, <3>2, LaidUnbound
    <3> QED BY <1>1, <1>4, <3>3, <3>4, <3>5, ComesBack DEF IdentitiesInv
  <2>5. CASE ~(r \in holding /\ served[r] # NoForm)
    <3>1. files = tree BY <1>4, <2>2, <2>3, <2>5 DEF Retrieved, IdentitiesTypeOK
    <3>2. ~Holds(tree, d, r)
      <4>1. {e \in 1 .. d : tree[e] # NoForm} = {} BY <2>1 DEF Formed
      <4> QED BY <2>2, <4>1 DEF Holds
    <3>3. tree' = [tree EXCEPT ![d] = RootForm(r)] BY <1>3, <2>1, <2>3, <3>1, <3>2 DEF WithIdentity
    <3>4. IdentitiesTypeOK' BY <1>1, <1>4, <3>3, FormsIn, TreeTyped
    <3>5. RepositoryOf(d)' = r BY <1>1, <1>4, <2>2, <3>3, LaidUnbound
    <3> QED BY <1>1, <1>4, <3>4, <3>5, ComesBack DEF IdentitiesInv
  <2> QED BY <2>4, <2>5
<1> QED BY <1>5, <1>6

(* A bare retrieval: what it may lay is the found repository's own file.    *)
LEMMA PullBareKept ==
    ASSUME IdentitiesAssumption, IdentitiesInv, NEW d \in Dirs, NEW explicit \in BOOLEAN,
           PullBare(d, explicit)
    PROVE  IdentitiesInv'
<1>1. /\ Addressed(d).dir # 0 /\ ~Addressed(d).folder /\ UNCHANGED <<served, push>>
      /\ tree' = Retrieved(tree, IF explicit THEN d ELSE Addressed(d).dir, Addressed(d).repo)
      /\ ran' = [dir |-> d, repo |-> Addressed(d).repo] /\ PushStands'
  BY QuietPush DEF PullBare, Runs
<1>2. BoundAt(d) = 0 /\ IdentitiesTypeOK BY <1>1, NoFolderRead DEF IdentitiesInv
<1>3. PICK r \in Plain : /\ RootStands(d, Nearest(d), r) /\ Nearest(d) \in Dirs
                         /\ Addressed(d).repo = r /\ Addressed(d).dir = Nearest(d)
  BY <1>1, <1>2, NoFolderRead
<1>4. RepositoryOf(d) = r /\ Home(r) = r
  BY <1>2, <1>3, ReadsRoot DEF RootRead, Home, IdentitiesAssumption
<1>5. CASE UNCHANGED tree
  BY <1>1, <1>2, <1>3, <1>4, <1>5, StandsUnchanged, ComesBack DEF IdentitiesInv, IdentitiesTypeOK
<1>6. CASE tree' # tree
  <2>1. tree[Nearest(d)] # NoForm BY <1>3, FormsDiffer DEF RootStands
  <2>2. explicit /\ tree[d] = NoForm /\ tree' = [tree EXCEPT ![d] = served[r]]
    BY <1>1, <1>3, <1>6, <2>1 DEF Retrieved
  <2>3. served[r] # NoForm BY <1>2, <1>6, <2>2 DEF IdentitiesTypeOK
  <2>4. PICK q \in Plain : served[r] = RootForm(q) BY <1>2, <2>3 DEF IdentitiesTypeOK, PlainForms
  <2>5. IdentitiesTypeOK' BY <1>1, <1>2, <2>2, <2>4, FormsIn, TreeTyped
  <2>6. served'[r].repo \in {"none", Home(r)} => q = r
    BY <1>1, <1>4, <2>4, FormsDiffer DEF IdentitiesAssumption
  <2>7. q = r => RepositoryOf(d)' = r BY <1>2, <2>2, <2>4, LaidUnbound
  <2> QED BY <1>1, <1>3, <1>4, <2>5, <2>6, <2>7, ComesBack DEF IdentitiesInv
<1> QED BY <1>5, <1>6

(* An identity's marker binds the directory it is laid in.                  *)
LEMMA PullIdentityKept ==
    ASSUME IdentitiesAssumption, IdentitiesInv, NEW d \in Dirs, PullIdentity(d) PROVE IdentitiesInv'
<1>1. /\ Nearest(d) = 0 /\ UNCHANGED <<served, push>> /\ tree' = [tree EXCEPT ![d] = FolderForm(TRUE)]
      /\ ran' = [dir |-> d, repo |-> Identity] /\ PushStands' /\ IdentitiesTypeOK
  BY QuietPush DEF PullIdentity, Runs, IdentitiesInv, IdentitiesTypeOK
<1>2. d \in Nat /\ Depth \in Nat /\ d <= Depth /\ d >= 1 BY DEF IdentitiesAssumption, Dirs
<1>3. Formed(d) = {}
  <2>1. SUFFICES ASSUME Formed(d) # {} PROVE FALSE OBVIOUS
  <2>2. Formed(d) \in SUBSET Dirs BY <1>2 DEF Formed, Dirs
  <2>3. Nearest(d) \in Dirs BY <2>1, <2>2, NearestOf DEF Nearest
  <2> QED BY <1>1, <2>3 DEF Dirs
<1>4. \A e \in Dirs : tree'[e] = IF e = d THEN FolderForm(TRUE) ELSE tree[e]
  BY <1>1 DEF IdentitiesTypeOK
<1>5. Formed(d)' = {d} /\ FormsFrom(d, "folder")' = {d} /\ tree'[d].shared
  <2>1. \A e \in 1 .. d : e \in Dirs /\ (e = d \/ tree[e] = NoForm) BY <1>2, <1>3 DEF Formed, Dirs
  <2>2. tree'[d] = FolderForm(TRUE) BY <1>1, <1>4
  <2>3. tree'[d] # NoForm /\ tree'[d].form = "folder" /\ tree'[d].shared BY <2>2, FormsDiffer
  <2>4. \A e \in 1 .. d : tree'[e] # NoForm <=> e = d BY <1>4, <2>1, <2>3
  <2>5. Formed(d)' = {d} BY <1>2, <2>4 DEF Formed
  <2>6. FormsFrom(d, "folder")' = {d} BY <2>3, <2>5 DEF FormsFrom
  <2> QED BY <2>3, <2>5, <2>6
<1>6. Min({d}) = d BY <1>2 DEF Min
<1>7. BoundAt(d)' = d BY <1>5, <1>6 DEF BoundAt
<1>8. RepositoryOf(d)' = Home(Identity)
  BY <1>2, <1>7 DEF RepositoryOf, Addressed, Home
<1>9. IdentitiesTypeOK' BY <1>1, FormsIn, TreeTyped
<1> QED BY <1>1, <1>8, <1>9, ComesBack DEF IdentitiesInv

(* A folder checked out alone stands in its place or is refused.            *)
LEMMA PullFolderKept ==
    ASSUME IdentitiesAssumption, IdentitiesInv, NEW d \in Dirs, NEW shared \in BOOLEAN,
           PullFolder(d, FolderForm(shared))
    PROVE  IdentitiesInv'
<1>1. /\ UNCHANGED <<served, push>> /\ ~Misplaced(d, FolderForm(shared))
      /\ tree[d] \in {NoForm} \cup {FolderForm(s) : s \in BOOLEAN}
      /\ tree' = IF tree[d] = NoForm THEN [tree EXCEPT ![d] = FolderForm(shared)] ELSE tree
      /\ ran' = [dir |-> d, repo |-> Holder] /\ PushStands' /\ IdentitiesTypeOK
  BY QuietPush DEF PullFolder, Runs, IdentitiesInv
<1>2. d \in Nat /\ Depth \in Nat /\ d <= Depth /\ d >= 1 BY DEF IdentitiesAssumption, Dirs
<1>3. PICK s \in BOOLEAN : tree'[d] = FolderForm(s)
  BY <1>1, FormsDiffer DEF IdentitiesTypeOK
<1>4. \A e \in Dirs : e # d => tree'[e] = tree[e] BY <1>1 DEF IdentitiesTypeOK
<1>5. ~Misplaced(d, tree[d])'
  <2>1. \A form : FormsFrom(d - 1, form)' = FormsFrom(d - 1, form)
    BY <1>2, <1>4 DEF FormsFrom, Formed, Dirs
  <2>2. \A form : FormsFrom(d - 1, form) \in SUBSET Dirs /\ d \notin FormsFrom(d - 1, form)
    BY <1>2 DEF FormsFrom, Formed, Dirs
  <2>3. PICK roots \in SUBSET Dirs : roots = FormsFrom(d - 1, "root") /\ d \notin roots BY <2>2
  <2>4. PICK outers \in SUBSET Dirs : outers = FormsFrom(d - 1, "folder") /\ d \notin outers BY <2>2
  <2>5. roots # {} => tree'[Max(roots)] = tree[Max(roots)] BY <1>4, <2>3, NearestOf
  <2>6. outers # {} => tree'[Min(outers)] = tree[Min(outers)] BY <1>4, <2>4, OutermostOf
  <2>7. tree'[d].repo = FolderForm(shared).repo /\ tree'[d].path = FolderForm(shared).path
    BY <1>3, FormsDiffer
  <2>8. roots = FormsFrom(d - 1, "root")' /\ outers = FormsFrom(d - 1, "folder")' BY <2>1, <2>3, <2>4
  <2> QED BY <1>1, <2>3, <2>4, <2>5, <2>6, <2>7, <2>8 DEF Misplaced
<1>6. RepositoryOf(d)' = Holder BY <1>3, <1>5, ReadsFolderNext DEF FolderRead
<1>7. Home(Holder) = Holder BY DEF Home, IdentitiesAssumption
<1>8. IdentitiesTypeOK' BY <1>1, FormsIn, TreeTyped DEF IdentitiesTypeOK
<1> QED BY <1>1, <1>6, <1>7, <1>8, ComesBack DEF IdentitiesInv

-----------------------------------------------------------------------------
(* A push: the file it finds or writes at its directory.                    *)

LEMMA BoundBetween ==
    ASSUME IdentitiesAssumption, NEW d \in Dirs, NEW n \in Dirs, NEW r \in Plain,
           RootStands(d, n, r), BoundAt(d) = 0
    PROVE  BoundAt(n) = 0
<1>1. d \in Nat /\ n \in Nat /\ n <= d /\ Depth \in Nat /\ d <= Depth
  BY DEF IdentitiesAssumption, Dirs, RootStands
<1>2. FormsFrom(n, "folder") = FormsFrom(d, "folder")
  BY <1>1 DEF FormsFrom, Formed, Dirs, RootStands
<1> QED BY <1>2 DEF BoundAt

LEMMA BeginPushKept ==
    ASSUME IdentitiesAssumption, IdentitiesInv, NEW d \in Dirs, NEW r \in Plain, NEW named \in BOOLEAN,
           BeginPush(d, r, named)
    PROVE  IdentitiesInv'
<1>1. PICK root : root = PushRoot(d, r) OBVIOUS
<1>2. /\ ~Addressed(d).folder /\ (IF named THEN NamesNoOther(d, r) ELSE Addressed(d).repo = r)
      /\ push' = [at |-> "sent", dir |-> root, repo |-> r, unlinked |-> named /\ ~Holds(tree, root, r),
                  wrote |-> ~Holds(tree, root, r)]
      /\ tree' = WithIdentity(tree, root, r) /\ ran' = NothingRan /\ UNCHANGED served
      /\ IdentitiesTypeOK
  BY <1>1 DEF BeginPush, IdentitiesInv
<1>3. BoundAt(d) = 0 BY <1>2, NoFolderRead
<1>4. RunsComeBack' BY <1>2 DEF RunsComeBack
<1>5. CASE NearestNames(d, r)
  <2>1. root = Nearest(d) /\ root \in Dirs /\ RootStands(d, root, r)
    BY <1>1, <1>5, NearestRootStands DEF PushRoot
  <2>2. Holds(tree, root, r) BY <2>1, FormsDiffer DEF Holds, RootStands
  <2>3. UNCHANGED tree BY <1>2, <2>2 DEF WithIdentity
  <2>4. BoundAt(root)' = 0
    <3>1. BoundAt(root) = 0 BY <1>3, <2>1, BoundBetween
    <3> QED BY <2>3, <3>1 DEF BoundAt, FormsFrom, Formed
  <2>5. push' = [at |-> "sent", dir |-> root, repo |-> r, unlinked |-> FALSE, wrote |-> FALSE]
    BY <1>2, <2>2
  <2>6. BoundAt(push.dir)' = BoundAt(root)' BY <2>5 DEF BoundAt, FormsFrom, Formed
  <2>7. PushStands' BY <1>2, <2>1, <2>3, <2>4, <2>5, <2>6 DEF PushStands, RootStands
  <2> QED BY <1>2, <1>4, <2>3, <2>7 DEF IdentitiesInv, IdentitiesTypeOK
<1>6. CASE ~NearestNames(d, r)
  <2>1. root = d BY <1>1, <1>6 DEF PushRoot
  <2>2. d \in Nat /\ Depth \in Nat /\ d <= Depth /\ d >= 1 BY DEF IdentitiesAssumption, Dirs
  <2>3. Formed(d) \in SUBSET Dirs BY <2>2 DEF Formed, Dirs
  <2>4. tree[d] = NoForm
    <3>1. CASE named
      <4>1. SUFFICES ASSUME tree[d] = RootForm(r) PROVE FALSE BY <1>2, <3>1 DEF NamesNoOther
      <4>2. d \in Formed(d) BY <2>2, <4>1, FormsDiffer DEF Formed
      <4>3. PICK n : n = Max(Formed(d)) OBVIOUS
      <4>4. n \in Formed(d) /\ d <= n BY <2>3, <4>2, <4>3, NearestOf
      <4>5. n = d BY <2>2, <4>4 DEF Formed
      <4> QED BY <1>6, <2>2, <4>1, <4>2, <4>3, <4>5 DEF NearestNames, Nearest
    <3>2. CASE ~named
      <4>1. Addressed(d).repo = r /\ r # "none" BY <1>2, <3>2 DEF IdentitiesAssumption
      <4>2. RootStands(d, Nearest(d), r) /\ Nearest(d) \in Dirs BY <1>2, <4>1, NoFolderRead
      <4> QED BY <1>6, <4>2 DEF NearestNames, RootStands, Dirs
    <3> QED BY <3>1, <3>2
  <2>5. ~Holds(tree, d, r)
    <3>1. SUFFICES ASSUME Formed(d) # {}, tree[Max(Formed(d))] = RootForm(r) PROVE FALSE
      BY <2>4 DEF Holds, Formed
    <3>2. Max(Formed(d)) # 0 BY <2>3, <3>1, NearestOf DEF Dirs
    <3> QED BY <1>6, <3>1, <3>2 DEF NearestNames, Nearest
  <2>6. tree' = [tree EXCEPT ![d] = RootForm(r)] BY <1>2, <2>1, <2>5 DEF WithIdentity
  <2>7. BoundAt(d)' = 0 /\ tree'[d] = RootForm(r)
    BY <1>2, <1>3, <2>4, <2>6, LaidUnbound DEF IdentitiesTypeOK
  <2>8. [tree' EXCEPT ![d] = NoForm] = tree BY <1>2, <2>4, <2>6 DEF IdentitiesTypeOK
  <2>9. push' = [at |-> "sent", dir |-> d, repo |-> r, unlinked |-> named, wrote |-> TRUE]
    BY <1>2, <2>1, <2>5
  <2>10. BoundAt(push.dir)' = BoundAt(d)' BY <2>9 DEF BoundAt, FormsFrom, Formed
  <2>11. ~Holds([tree EXCEPT ![push.dir] = NoForm], push.dir, push.repo)'
    BY <2>5, <2>8, <2>9 DEF Holds
  <2>12. PushStands' BY <1>2, <2>7, <2>9, <2>10, <2>11 DEF PushStands
  <2>13. IdentitiesTypeOK' BY <1>2, <2>6, FormsIn, TreeTyped
  <2> QED BY <1>4, <2>12, <2>13 DEF IdentitiesInv
<1> QED BY <1>5, <1>6

LEMMA PushEnds ==
    ASSUME IdentitiesAssumption, IdentitiesInv, PushLands \/ PushFails \/ PushUnanswered
    PROVE  /\ IdentitiesInv'
           /\ push.unlinked /\ <<push.dir, push.repo>> \notin links' => ~Holds(tree', push.dir, push.repo)
<1>1. PICK d \in Dirs, r \in Plain :
         /\ push.dir = d /\ push.repo = r /\ tree[d] = RootForm(r) /\ BoundAt(d) = 0
         /\ ran = NothingRan /\ (push.unlinked => push.wrote)
         /\ (push.wrote => ~Holds([tree EXCEPT ![d] = NoForm], d, r))
  <2>1. push.at = "sent" BY DEF PushLands, PushFails, PushUnanswered
  <2>2. push # NoPush BY <2>1 DEF NoPush
  <2> QED BY <2>2 DEF IdentitiesInv, PushStands
<1>2. PushStands' BY DEF PushStands, PushLands, PushFails, PushUnanswered
<1>3. IdentitiesTypeOK BY DEF IdentitiesInv
<1>4. CASE PushLands
  <2>1. RootStands(d, d, r) BY <1>1 DEF RootStands, Dirs
  <2>2. RepositoryOf(d) = r /\ Home(r) = r
    BY <1>1, <2>1, ReadsRoot DEF RootRead, Home, IdentitiesAssumption
  <2>3. ran' = [dir |-> d, repo |-> r] /\ UNCHANGED tree BY <1>1, <1>4 DEF PushLands, Runs
  <2>4. RunsComeBack' BY <2>2, <2>3, StandsUnchanged, ComesBack
  <2>5. PICK form \in PlainForms : served' = [served EXCEPT ![r] = form]
    BY <1>1, <1>3, <1>4 DEF PushLands, IdentitiesTypeOK, PlainForms
  <2>6. IdentitiesTypeOK'
    BY <1>3, <2>3, <2>5, FormsIn DEF IdentitiesTypeOK, PlainForms, IdentitiesAssumption, Repos
  <2>7. <<push.dir, push.repo>> \in links' BY <1>4 DEF PushLands, Links
  <2> QED BY <1>2, <2>4, <2>6, <2>7 DEF IdentitiesInv
<1>5. CASE PushFails
  <2>1. tree' = (IF TakesBack THEN [tree EXCEPT ![d] = NoForm] ELSE tree) /\ UNCHANGED <<served, links, ran>>
    BY <1>1, <1>5 DEF PushFails
  <2>2. IdentitiesTypeOK' BY <1>3, <2>1, FormsIn, TreeTyped DEF IdentitiesTypeOK
  <2>3. RunsComeBack' BY <1>1, <2>1 DEF RunsComeBack
  <2>4. push.unlinked /\ <<push.dir, push.repo>> \notin links' => ~Holds(tree', push.dir, push.repo)
    BY <1>1, <2>1 DEF TakesBack, PushLinked
  <2> QED BY <1>2, <2>2, <2>3, <2>4 DEF IdentitiesInv
<1>6. CASE PushUnanswered
  <2>1. <<push.dir, push.repo>> \in links' BY <1>6 DEF PushUnanswered, Links
  <2>2. RunsComeBack' BY <1>1, <1>6 DEF PushUnanswered, RunsComeBack
  <2> QED BY <1>2, <1>3, <1>6, <2>1, <2>2 DEF IdentitiesInv, PushUnanswered, IdentitiesTypeOK
<1> QED BY <1>4, <1>5, <1>6

(* The steps that leave no run to come back.                                *)
LEMMA OthersKept ==
    ASSUME IdentitiesAssumption, IdentitiesInv, NEW d \in Dirs,
           \/ \E r \in Plain : PushForced(d, r)
           \/ \E from \in Plain, to \in Plain : Fork(d, from, to)
           \/ \E form \in Forms : Changes(d, form)
    PROVE  IdentitiesInv'
<1>1. ran' = NothingRan /\ PushStands' /\ IdentitiesTypeOK
  BY QuietPush DEF PushForced, Fork, Changes, IdentitiesInv
<1>2. RunsComeBack' BY <1>1 DEF RunsComeBack
<1>3. CASE \E r \in Plain : PushForced(d, r)
  BY <1>1, <1>2, <1>3 DEF PushForced, IdentitiesInv, IdentitiesTypeOK
<1>4. ASSUME NEW from \in Plain, NEW to \in Plain, Fork(d, from, to) PROVE IdentitiesInv'
  <2>1. PICK form \in PlainForms : served' = [served EXCEPT ![to] = form]
    BY <1>1, <1>4 DEF Fork, IdentitiesTypeOK
  <2>2. tree' \in [Dirs -> Forms] BY <1>1, <1>4, FormsIn DEF Fork, IdentitiesTypeOK
  <2>3. IdentitiesTypeOK'
    BY <1>1, <2>1, <2>2, FormsIn DEF IdentitiesTypeOK, PlainForms, IdentitiesAssumption, Repos
  <2> QED BY <1>1, <1>2, <2>3 DEF IdentitiesInv
<1>5. CASE \E form \in Forms : Changes(d, form)
  BY <1>1, <1>2, <1>5, TreeTyped DEF Changes, IdentitiesInv
<1> QED BY <1>3, <1>4, <1>5

LEMMA IdentitiesInitHolds == ASSUME IdentitiesAssumption, IdentitiesInit PROVE IdentitiesInv
<1>1. PICK own \in [Plain -> {NoForm} \cup {RootForm(r) : r \in Plain}] :
         IdentitiesStart([r \in Repos |-> IF r = Identity THEN FolderForm(TRUE) ELSE own[r]])
  BY DEF IdentitiesInit
<1>2. IdentitiesTypeOK
  <2>1. /\ tree = [d \in Dirs |-> NoForm]
        /\ served = [r \in Repos |-> IF r = Identity THEN FolderForm(TRUE) ELSE own[r]]
    BY <1>1 DEF IdentitiesStart
  <2>2. \A r \in Plain : own[r] \in PlainForms BY <1>1 DEF PlainForms
  <2>3. PlainForms \subseteq Forms /\ NoForm \in Forms /\ FolderForm(TRUE) \in Forms BY DEF PlainForms, Forms
  <2>4. tree \in [Dirs -> Forms] BY <2>1, <2>3
  <2>5. \A r \in Repos : (IF r = Identity THEN FolderForm(TRUE) ELSE own[r]) \in Forms
    BY <2>2, <2>3 DEF Repos
  <2>6. served \in [Repos -> Forms] BY <2>1, <2>5
  <2>7. Identity \in Repos /\ \A r \in Plain : r \in Repos /\ r # Identity BY DEF Repos, IdentitiesAssumption
  <2>8. (\A r \in Plain : served[r] \in PlainForms) /\ served[Identity] = FolderForm(TRUE) BY <2>1, <2>2, <2>7
  <2> QED BY <2>4, <2>6, <2>8 DEF IdentitiesTypeOK
<1> QED BY <1>1, <1>2 DEF IdentitiesStart, IdentitiesInv, PushStands, RunsComeBack

(* What a run leaves in a directory leads the next bare run there to the    *)
(* repository it served, and a refused publication leaves nothing to lead.  *)
THEOREM RunsLeadBack == IdentitiesSpec => LeadsBack
<1>1. IdentitiesInit => IdentitiesInv BY IdentitiesInitHolds, IdentitiesAssumption
<1>2. IdentitiesInv /\ [IdentitiesNext]_identitiesVars => IdentitiesInv'
  <2>1. ASSUME IdentitiesInv, UNCHANGED identitiesVars PROVE IdentitiesInv'
    <3>1. PushStands'
      BY <2>1 DEF identitiesVars, IdentitiesInv, PushStands, BoundAt, FormsFrom, Formed, Holds
    <3>2. RunsComeBack'
      <4>1. PICK d, r : d = ran.dir /\ r = ran.repo OBVIOUS
      <4>2. ran' = ran BY <2>1 DEF identitiesVars
      <4> QED
        BY <2>1 DEF identitiesVars, IdentitiesInv, RunsComeBack, RepositoryOf, Addressed, BoundAt, FormsFrom,
                    Formed, Nearest, Misplaced
    <3> QED BY <2>1, <3>1, <3>2 DEF identitiesVars, IdentitiesInv, IdentitiesTypeOK
  <2>2. ASSUME IdentitiesInv, IdentitiesNext PROVE IdentitiesInv'
    BY <2>2, IdentitiesAssumption, PullScopedKept, PullNamedKept, PullBareKept, PullIdentityKept,
       PullFolderKept, BeginPushKept, PushEnds, OthersKept DEF IdentitiesNext
  <2> QED BY <2>1, <2>2
<1>3. IdentitiesInv => RunsComeBack BY DEF IdentitiesInv
<1>4. IdentitiesInv /\ [IdentitiesNext]_identitiesVars =>
        [push.at = "sent" /\ push.unlinked /\ push'.at = "no" /\ <<push.dir, push.repo>> \notin links'
           => ~Holds(tree', push.dir, push.repo)]_identitiesVars
  <2>1. SUFFICES ASSUME IdentitiesInv, IdentitiesNext, push.at = "sent", push.unlinked, push'.at = "no",
                        <<push.dir, push.repo>> \notin links'
                 PROVE  ~Holds(tree', push.dir, push.repo)
    BY DEF identitiesVars
  <2>2. PushLands \/ PushFails \/ PushUnanswered
    BY <2>1 DEF IdentitiesNext, PullScoped, PullNamed, PullBare, PullIdentity, PullFolder, BeginPush,
                PushForced, Fork, Changes, NotPushing
  <2> QED BY <2>1, <2>2, PushEnds, IdentitiesAssumption
<1> QED BY <1>1, <1>2, <1>3, <1>4, PTL DEF IdentitiesSpec, LeadsBack, RefusedPushLeavesNothing

=============================================================================
