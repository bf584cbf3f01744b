------------------------- MODULE FolderCheckProofs --------------------------
(***************************************************************************)
(* What holds of a line of versions that only grows, and of a folder       *)
(* checked against it: lemmas for the proofs about whatever publishes to   *)
(* it.                                                                     *)
(***************************************************************************)
EXTENDS FolderCheck, FiniteSetTheorems, WellFoundedInduction, TLAPS

(***************************************************************************)
(* The line of versions.  FolderSteady stands in for an induction over the *)
(* versions between two commits: as an invariant it is carried along each  *)
(* time one more version is appended.                                      *)
(***************************************************************************)
Grows == versions' = versions \/ \E tree \in Trees : versions' = Append(versions, tree)
Quiet(a, b) == \A n \in 1 .. HeadCommit : a < n /\ n <= b => ~ChangesFolder(n)
FolderSteady ==
    \A a, b \in 0 .. HeadCommit :
       a <= b /\ Quiet(a, b) => \A p \in Folder : TreeAt(a)[p] = TreeAt(b)[p]
LineInv == versions \in Seq(Trees) /\ FolderSteady

LEMMA LaidOverType ==
    ASSUME NEW tree \in Trees, NEW laid,
           \A p \in DOMAIN laid \cap Paths : laid[p] \in Contents \cup {Absent}
    PROVE  LaidOver(tree, laid) \in Trees
BY DEF LaidOver, Trees

LEMMA TreesType ==
    ASSUME versions \in Seq(Trees), NEW n \in 0 .. HeadCommit
    PROVE  TreeAt(n) \in Trees
BY DEF TreeAt, EmptyTree, Trees, HeadCommit

LEMMA HeadIsNat == versions \in Seq(Trees) => HeadCommit \in Nat
BY DEF HeadCommit

LEMMA HeadTyped == versions \in Seq(Trees) => HeadTree \in Trees
<1> SUFFICES ASSUME versions \in Seq(Trees) PROVE HeadTree \in Trees OBVIOUS
<1>1. HeadCommit \in 0 .. HeadCommit BY HeadIsNat
<1> QED BY <1>1, TreesType DEF HeadTree

LEMMA VersionsStand ==
    ASSUME versions \in Seq(Trees), Grows
    PROVE  /\ versions' \in Seq(Trees)
           /\ HeadCommit \in Nat /\ HeadCommit' \in {HeadCommit, HeadCommit + 1}
           /\ \A n \in 0 .. HeadCommit : TreeAt(n)' = TreeAt(n)
           /\ \A n \in 1 .. HeadCommit : ChangesFolder(n)' <=> ChangesFolder(n)
<1>1. /\ versions' \in Seq(Trees) /\ HeadCommit \in Nat
      /\ HeadCommit' \in {HeadCommit, HeadCommit + 1}
  BY DEF Grows, HeadCommit
<1>2. ASSUME NEW n \in 0 .. HeadCommit PROVE TreeAt(n)' = TreeAt(n)
  BY DEF Grows, HeadCommit, TreeAt, EmptyTree
<1>3. ASSUME NEW n \in 1 .. HeadCommit PROVE ChangesFolder(n)' <=> ChangesFolder(n)
  <2>1. n \in 0 .. HeadCommit /\ n - 1 \in 0 .. HeadCommit BY <1>1
  <2> QED BY <1>2, <2>1 DEF ChangesFolder, ChangedBy
<1> QED BY <1>1, <1>2, <1>3

\* A version that leaves the folder alone holds what the one before it held.
LEMMA QuietStep ==
    ASSUME NEW n, ~ChangesFolder(n), NEW p \in Folder
    PROVE  TreeAt(n)[p] = TreeAt(n - 1)[p]
BY PathsAssumption DEF ChangesFolder, ChangedBy

\* A line of at most one version is steady.
LEMMA FirstSteady ==
    ASSUME versions \in Seq(Trees), HeadCommit \in {0, 1}
    PROVE  LineInv
<1> SUFFICES ASSUME NEW a \in 0 .. HeadCommit, NEW b \in 0 .. HeadCommit,
                    a <= b, Quiet(a, b), NEW p \in Folder
             PROVE  TreeAt(a)[p] = TreeAt(b)[p]
  BY DEF LineInv, FolderSteady
<1>1. CASE a = b BY <1>1
<1>2. CASE a # b
  <2>1. a = 0 /\ b = 1 /\ HeadCommit = 1
    <3>1. a \in Nat /\ b \in Nat /\ a <= b /\ b <= HeadCommit OBVIOUS
    <3> QED BY <1>2, <3>1
  <2>2. ~ChangesFolder(1) BY <2>1 DEF Quiet
  <2> QED BY <2>1, <2>2, QuietStep
<1> QED BY <1>1, <1>2

LEMMA LineGrows == LineInv /\ Grows => LineInv'
<1> SUFFICES ASSUME LineInv, Grows PROVE LineInv' OBVIOUS
<1>1. versions \in Seq(Trees) BY DEF LineInv
<1>2. /\ versions' \in Seq(Trees)
      /\ HeadCommit \in Nat /\ HeadCommit' \in {HeadCommit, HeadCommit + 1}
      /\ \A n \in 0 .. HeadCommit : TreeAt(n)' = TreeAt(n)
      /\ \A n \in 1 .. HeadCommit : ChangesFolder(n)' <=> ChangesFolder(n)
  BY <1>1, VersionsStand
<1>3. ASSUME NEW a \in 0 .. HeadCommit', NEW b \in 0 .. HeadCommit',
             a <= b, Quiet(a, b)', NEW p \in Folder
      PROVE  TreeAt(a)'[p] = TreeAt(b)'[p]
  <2>0. ASSUME NEW c \in 0 .. HeadCommit, a <= c, c <= b PROVE TreeAt(a)'[p] = TreeAt(c)'[p]
    <3>1. a \in 0 .. HeadCommit BY <1>2, <2>0
    <3>2. Quiet(a, c) BY <1>2, <1>3, <2>0 DEF Quiet
    <3>3. TreeAt(a)[p] = TreeAt(c)[p] BY <2>0, <3>1, <3>2 DEF LineInv, FolderSteady
    <3> QED BY <1>2, <2>0, <3>1, <3>3
  <2>1. CASE b \in 0 .. HeadCommit BY <2>0, <2>1, <1>3, <1>2
  <2>2. CASE a = b BY <2>2
  <2>3. CASE b \notin 0 .. HeadCommit /\ a # b
    <3>1. /\ b = HeadCommit + 1 /\ HeadCommit' = HeadCommit + 1
          /\ a <= HeadCommit /\ b - 1 = HeadCommit
      BY <1>2, <1>3, <2>3
    <3>2. ~ChangesFolder(b)' BY <1>2, <1>3, <3>1 DEF Quiet
    <3>3. TreeAt(b)'[p] = TreeAt(b - 1)'[p]
      BY <3>2, PathsAssumption DEF ChangesFolder, ChangedBy
    <3>4. TreeAt(a)'[p] = TreeAt(b - 1)'[p] BY <1>2, <2>0, <3>1
    <3> QED BY <3>3, <3>4
  <2> QED BY <2>1, <2>2, <2>3
<1>4. FolderSteady' BY <1>3 DEF FolderSteady
<1> QED BY <1>2, <1>4 DEF LineInv

-----------------------------------------------------------------------------
(* The newest of a set of version numbers. *)

LEMMA HasNewest ==
    ASSUME NEW numbers \in SUBSET Nat, NEW bound \in Nat, numbers # {},
           \A n \in numbers : n <= bound
    PROVE  \E n \in numbers : \A o \in numbers : o <= n
<1> DEFINE Above(n) == {o \in numbers : o > n}
           Aboves == {Above(n) : n \in numbers}
<1>1. IsFiniteSet(numbers) BY FS_BoundedSetOfNaturals
<1>2. \A s \in Aboves : s \in SUBSET numbers /\ IsFiniteSet(s)
  <2>1. \A s \in Aboves : s \in SUBSET numbers OBVIOUS
  <2> QED BY <1>1, <2>1, FS_Subset
<1>3. Aboves \subseteq FiniteSubsetsOf(numbers) /\ Aboves # {}
  <2>1. Aboves # {} OBVIOUS
  <2>2. ASSUME NEW s \in Aboves PROVE s \in FiniteSubsetsOf(numbers)
    <3> HIDE DEF Aboves
    <3> QED BY <1>2, <2>2 DEF FiniteSubsetsOf
  <2> QED BY <2>1, <2>2
<1>4. IsWellFoundedOn(StrictSubsetOrdering(numbers), FiniteSubsetsOf(numbers))
  BY FS_StrictSubsetOrderingWellFounded
<1>5. PICK least \in Aboves :
         \A s \in Aboves : ~ (<<s, least>> \in StrictSubsetOrdering(numbers))
  <2> HIDE DEF Aboves
  <2> QED BY <1>3, <1>4, WFMin
<1>6. PICK n \in numbers : least = Above(n) OBVIOUS
<1>7. ASSUME NEW o \in numbers, ~(o <= n) PROVE FALSE
  <2>1. Above(o) \subseteq Above(n) /\ o \in Above(n) /\ o \notin Above(o)
    <3>1. n \in Nat /\ o \in Nat /\ n < o BY <1>7
    <3>2. \A q \in numbers : q \in Nat OBVIOUS
    <3>3. Above(o) \subseteq Above(n)
      <4> SUFFICES ASSUME NEW q \in numbers, q > o PROVE q > n OBVIOUS
      <4> QED BY <3>1, <3>2
    <3>4. o \in Above(n) BY <3>1
    <3>5. o \notin Above(o) BY <3>1
    <3> QED BY <3>3, <3>4, <3>5
  <2>2. <<Above(o), least>> \in StrictSubsetOrdering(numbers)
    BY <1>6, <2>1 DEF StrictSubsetOrdering
  <2> QED BY <1>5, <2>2
<1> QED BY <1>7

LEMMA NewestIsIn ==
    ASSUME NEW numbers \in SUBSET Nat, NEW bound \in Nat, numbers # {},
           \A n \in numbers : n <= bound
    PROVE  NewestOf(numbers) \in numbers /\ \A o \in numbers : o <= NewestOf(numbers)
<1>1. \E n \in numbers : \A o \in numbers : o <= n BY HasNewest
<1> QED BY <1>1 DEF NewestOf

LEMMA NewestIsLast ==
    ASSUME versions \in Seq(Trees), NEW scan \in Nat
    PROVE  LET newest == NewestChange(scan) IN
           /\ newest \in 0 .. HeadCommit
           /\ \A n \in 1 .. HeadCommit :
                 HeadCommit - n < scan /\ newest < n => ~ChangesFolder(n)
           /\ newest # 0 => HeadCommit - newest < scan
<1> DEFINE found == {n \in 1 .. HeadCommit : HeadCommit - n < scan /\ ChangesFolder(n)}
<1>1. HeadCommit \in Nat BY DEF HeadCommit
<1>2. CASE found = {} BY <1>1, <1>2 DEF NewestChange, NewestOf
<1>3. CASE found # {}
  <2>1. found \in SUBSET Nat /\ \A n \in found : n <= HeadCommit BY <1>1
  <2>3. NewestOf(found) \in found /\ \A o \in found : o <= NewestOf(found)
    <3> HIDE DEF found
    <3> QED BY <1>1, <1>3, <2>1, NewestIsIn
  <2>4. NewestChange(scan) = NewestOf(found) BY DEF NewestChange
  <2>5. /\ NewestOf(found) \in 1 .. HeadCommit
        /\ HeadCommit - NewestOf(found) < scan
    BY <2>3
  <2>6. ASSUME NEW n \in 1 .. HeadCommit, HeadCommit - n < scan, NewestOf(found) < n,
               ChangesFolder(n)
        PROVE FALSE
    <3>1. n \in found BY <2>6
    <3>2. n <= NewestOf(found) BY <2>3, <3>1
    <3> QED BY <1>1, <2>5, <2>6, <3>2
  <2> HIDE DEF found
  <2> QED BY <1>1, <2>4, <2>5, <2>6
<1> QED BY <1>2, <1>3

\* Another writer's publication appends a tree.
LEMMA OthersGrow == versions \in Seq(Trees) /\ OtherCommits => Grows
<1> SUFFICES ASSUME versions \in Seq(Trees), OtherCommits PROVE Grows OBVIOUS
<1>1. PICK write \in OtherWrites : versions' = Append(versions, LaidOver(HeadTree, write))
  BY DEF OtherCommits
<1>2. LaidOver(HeadTree, write) \in Trees BY HeadTyped, WritesAssumption, LaidOverType
<1> QED BY <1>1, <1>2 DEF Grows

-----------------------------------------------------------------------------
(***************************************************************************)
(* The check.  CheckSays carries what its answers so far are worth: the    *)
(* page of versions it read was read at some head h at or past the one     *)
(* named, and no version of that page changed the folder.                  *)
(***************************************************************************)
CheckType ==
    check \in [at : CheckSteps, since : Nat, number : Nat, identity : BOOLEAN,
              newest : Nat, reach : Nat]

PageQuiet(h) ==
    \A n \in 1 .. HeadCommit : n <= h /\ h - n < ScanBound => ~ChangesFolder(n)
CheckSays(named) ==
    /\ check.at \in {"newest", "head"} => check.newest = 0
    /\ check.at = "unmoved" => Quiet(check.since, named)
    /\ check.at = "head" =>
          ~check.identity /\ \E h \in named .. HeadCommit : PageQuiet(h)
    /\ check.at = "number" /\ check.newest # 0 => Quiet(check.newest, named)
    /\ check.at = "number" /\ check.newest = 0 =>
          \E h \in named .. HeadCommit : h <= check.reach /\ PageQuiet(h)

\* What was known of versions stays known when others append theirs.
LEMMA KnownStaysKnown ==
    ASSUME versions \in Seq(Trees), Grows
    PROVE  /\ \A a \in Nat, b \in 0 .. HeadCommit : Quiet(a, b) => Quiet(a, b)'
           /\ \A h \in 0 .. HeadCommit : PageQuiet(h) => PageQuiet(h)'
<1>1. /\ HeadCommit \in Nat /\ HeadCommit' \in {HeadCommit, HeadCommit + 1}
      /\ \A n \in 1 .. HeadCommit : ChangesFolder(n)' <=> ChangesFolder(n)
  BY VersionsStand
<1>2. ASSUME NEW a \in Nat, NEW b \in 0 .. HeadCommit, Quiet(a, b) PROVE Quiet(a, b)'
  BY <1>1, <1>2 DEF Quiet
<1>3. ASSUME NEW h \in 0 .. HeadCommit, PageQuiet(h) PROVE PageQuiet(h)'
  BY <1>1, <1>3 DEF PageQuiet
<1> QED BY <1>2, <1>3

\* What the versions alone decide, where they do not change.
LEMMA Unmoved ==
    ASSUME UNCHANGED versions
    PROVE  /\ HeadCommit' = HeadCommit /\ (LineInv => LineInv')
           /\ \A a, b : Quiet(a, b)' <=> Quiet(a, b)
           /\ \A h : PageQuiet(h)' <=> PageQuiet(h)
<1>1. /\ HeadCommit' = HeadCommit
      /\ \A n : TreeAt(n)' = TreeAt(n)
      /\ \A n : ChangesFolder(n)' <=> ChangesFolder(n)
  BY DEF HeadCommit, TreeAt, ChangesFolder, ChangedBy
<1>2. \A a, b : Quiet(a, b)' <=> Quiet(a, b) BY <1>1 DEF Quiet
<1>3. \A h : PageQuiet(h)' <=> PageQuiet(h) BY <1>1 DEF PageQuiet
<1>4. FolderSteady => FolderSteady' BY <1>1, <1>2 DEF FolderSteady
<1> QED BY <1>1, <1>2, <1>3, <1>4 DEF LineInv

\* What a check says stays said when others append versions.
LEMMA CheckSaysStill ==
    ASSUME versions \in Seq(Trees), Grows, CheckType, UNCHANGED check,
           NEW named \in 0 .. HeadCommit, CheckSays(named)
    PROVE  CheckSays(named)'
<1>1. HeadCommit \in Nat /\ HeadCommit' \in {HeadCommit, HeadCommit + 1} BY VersionsStand
<1>2. check.newest \in Nat /\ check.since \in Nat /\ check.reach \in Nat BY DEF CheckType
<1>3. check.at = "unmoved" => Quiet(check.since, named)'
  BY <1>1, <1>2, KnownStaysKnown DEF CheckSays
<1>4. check.at = "head" => ~check.identity /\ \E h \in named .. HeadCommit' : PageQuiet(h)'
  BY <1>1, <1>2, KnownStaysKnown DEF CheckSays
<1>5. check.at = "number" /\ check.newest # 0 => Quiet(check.newest, named)'
  BY <1>1, <1>2, KnownStaysKnown DEF CheckSays
<1>6. check.at = "number" /\ check.newest = 0 =>
         \E h \in named .. HeadCommit' : h <= check.reach /\ PageQuiet(h)'
  BY <1>1, <1>2, KnownStaysKnown DEF CheckSays
<1> QED BY <1>3, <1>4, <1>5, <1>6 DEF CheckSays

\* What any answer of a check keeps: whom it asks for, and its type.
LEMMA CheckKeepsAsking ==
    ASSUME LineInv, CheckType, CheckStep
    PROVE  /\ check'.since = check.since /\ check'.identity = check.identity
           /\ check'.number \in {check.number, check.since}
           /\ check'.at # "none" /\ CheckType'
<1>1. /\ check \in [at : CheckSteps, since : Nat, number : Nat, identity : BOOLEAN,
                   newest : Nat, reach : Nat]
      /\ CheckStep /\ HeadCommit \in Nat
  BY HeadIsNat DEF LineInv, CheckType
<1> DEFINE Kept ==
             /\ check'.since = check.since /\ check'.identity = check.identity
             /\ check'.number \in {check.number, check.since}
             /\ check'.at # "none" /\ CheckType'
<1>a. ASSUME NEW moved \in BOOLEAN, Answer(moved) PROVE Kept
  <2>1. CASE moved BY <1>1, <1>a, <2>1 DEF Answer, CheckType, CheckSteps
  <2>2. CASE ~moved BY <1>1, <1>a, <2>2 DEF Answer, CheckType, CheckSteps
  <2> QED BY <2>1, <2>2
<1>2. CASE ReadNewest
  <2>1. NewestChange(ScanBound) \in Nat /\ IdentityHead \in Nat
    <3>1. versions \in Seq(Trees) /\ ScanBound \in Nat /\ HeadCommit + 1 \in Nat
      BY <1>1, ScanAssumption DEF LineInv
    <3>2. NewestChange(ScanBound) \in 0 .. HeadCommit BY <3>1, NewestIsLast
    <3>3. NewestChange(HeadCommit + 1) \in 0 .. HeadCommit BY <3>1, NewestIsLast
    <3> QED BY <1>1, <3>2, <3>3 DEF IdentityHead
  <2>2. PICK newest \in Nat :
           \/ Answer(FALSE)
           \/ check' = [check EXCEPT !.at = "head"]
           \/ check' = [check EXCEPT !.at = "number", !.newest = newest]
    BY <1>2, <2>1 DEF ReadNewest
  <2>3. CASE check' = [check EXCEPT !.at = "head"]
    BY <1>1, <2>3 DEF CheckType, CheckSteps
  <2>4. CASE check' = [check EXCEPT !.at = "number", !.newest = newest]
    BY <1>1, <2>4 DEF CheckType, CheckSteps
  <2> QED BY <1>a, <2>2, <2>3, <2>4
<1>3. CASE ReadHeadVersion
  <2>1. CASE check' = [check EXCEPT !.at = "number", !.reach = HeadCommit]
    BY <1>1, <2>1 DEF CheckType, CheckSteps
  <2> QED BY <1>3, <1>a, <2>1 DEF ReadHeadVersion
<1>4. CASE NumberSince BY <1>1, <1>4 DEF NumberSince, CheckType, CheckSteps
<1>5. CASE Compare
  <2>1. PICK moved \in BOOLEAN : Answer(moved)
    <3>1. (check.newest > check.number) \in BOOLEAN
          /\ (check.reach - check.number > ScanBound) \in BOOLEAN
      OBVIOUS
    <3> QED BY <1>5, <3>1 DEF Compare
  <2> QED BY <1>a, <2>1
<1>6. CASE ReadRefused
  <2>1. CASE check' = [check EXCEPT !.at = "refused", !.newest = 0, !.reach = 0]
    BY <1>1, <2>1 DEF CheckType, CheckSteps
  <2> QED BY <1>6, <1>a, <2>1 DEF ReadRefused
<1> QED BY <1>1, <1>2, <1>3, <1>4, <1>5, <1>6 DEF CheckStep

\* What an answer is worth: never more than what was read.
LEMMA CheckSaysNext ==
    ASSUME LineInv, CheckType, CheckStep, NEW named \in 0 .. HeadCommit,
           CheckSays(named), check.number \in {0, check.since}
    PROVE  CheckSays(named)'
<1>1. /\ check \in [at : CheckSteps, since : Nat, number : Nat, identity : BOOLEAN,
                   newest : Nat, reach : Nat]
      /\ HeadCommit \in Nat /\ UNCHANGED versions /\ versions \in Seq(Trees)
  BY HeadIsNat DEF LineInv, CheckType, CheckStep
<1>2. /\ named \in 0 .. HeadCommit /\ CheckSays(named)
      /\ check.number \in {0, check.since} /\ versions \in Seq(Trees)
  BY <1>1
<1>3. SUFFICES ASSUME TRUE PROVE
        /\ check'.at \in {"newest", "head"} => check'.newest = 0
        /\ check'.at = "unmoved" => Quiet(check'.since, named)
        /\ check'.at = "head" =>
              ~check'.identity /\ \E h \in named .. HeadCommit : PageQuiet(h)
        /\ check'.at = "number" /\ check'.newest # 0 => Quiet(check'.newest, named)
        /\ check'.at = "number" /\ check'.newest = 0 =>
              \E h \in named .. HeadCommit : h <= check'.reach /\ PageQuiet(h)
  BY <1>1, Unmoved DEF CheckSays
<1>a. ASSUME NEW moved \in BOOLEAN, Answer(moved)
      PROVE  /\ check'.at = IF moved THEN "moved" ELSE "unmoved"
             /\ check'.since = check.since
  BY <1>1, <1>a DEF Answer
<1>4. CASE ReadNewest
  <2> DEFINE newest == IF check.identity THEN IdentityHead ELSE NewestChange(ScanBound)
             scan == IF check.identity THEN HeadCommit + 1 ELSE ScanBound
  <2>1. newest = NewestChange(scan) /\ scan \in Nat
    BY <1>1, ScanAssumption DEF IdentityHead
  <2>2. /\ newest \in 0 .. HeadCommit
        /\ \A n \in 1 .. HeadCommit :
              HeadCommit - n < scan /\ newest < n => ~ChangesFolder(n)
        /\ newest # 0 => HeadCommit - newest < scan
    <3> HIDE DEF newest, scan
    <3> QED BY <1>2, <2>1, NewestIsLast
  <2>3. newest # 0 => Quiet(newest, named)
    <3>1. scan \in Nat BY <2>1
    <3> HIDE DEF newest, scan
    <3> QED BY <1>1, <1>2, <2>2, <3>1 DEF Quiet
  <2>4. newest = 0 /\ check.identity => Quiet(check.since, named)
    <3>1. check.identity => scan = HeadCommit + 1 OBVIOUS
    <3> HIDE DEF newest, scan
    <3> QED BY <1>1, <1>2, <2>2, <3>1 DEF Quiet
  <2>5. newest = 0 /\ ~check.identity => PageQuiet(HeadCommit)
    <3>1. ~check.identity => scan = ScanBound OBVIOUS
    <3> HIDE DEF newest, scan
    <3> QED BY <1>1, <2>2, <3>1 DEF PageQuiet
  <2>6. \/ newest # 0 /\ newest = check.since /\ Answer(FALSE)
        \/ newest = 0 /\ check.identity /\ Answer(FALSE)
        \/ newest = 0 /\ ~check.identity /\ check' = [check EXCEPT !.at = "head"]
        \/ newest # 0 /\ check' = [check EXCEPT !.at = "number", !.newest = newest]
    BY <1>4 DEF ReadNewest
  <2> HIDE DEF newest, scan
  <2>7. CASE Answer(FALSE)
    <3>1. check'.at = "unmoved" /\ check'.since = check.since BY <1>a, <2>7
    <3>2. \/ newest # 0 /\ newest = check.since
          \/ newest = 0 /\ check.identity
      BY <1>1, <2>6, <3>1
    <3> QED BY <2>3, <2>4, <3>1, <3>2
  <2>8. CASE newest = 0 /\ ~check.identity /\ check' = [check EXCEPT !.at = "head"]
    <3>1. /\ check'.at = "head" /\ check'.identity = check.identity
          /\ check'.newest = check.newest
      BY <1>1, <2>8
    <3>3. check.newest = 0 BY <1>2, <1>4 DEF CheckSays, ReadNewest
    <3>2. HeadCommit \in named .. HeadCommit BY <1>1, <1>2
    <3> QED BY <2>5, <2>8, <3>1, <3>2, <3>3
  <2>9. CASE newest # 0 /\ check' = [check EXCEPT !.at = "number", !.newest = newest]
    <3>1. check'.at = "number" /\ check'.newest = newest BY <1>1, <2>9
    <3> QED BY <2>3, <2>9, <3>1
  <2> QED BY <2>6, <2>7, <2>8, <2>9
<1>5. CASE ReadHeadVersion
  <2>1. check.at = "head" BY <1>5 DEF ReadHeadVersion
  <2>2. PICK h \in named .. HeadCommit : PageQuiet(h)
    <3> QED BY <1>2, <2>1 DEF CheckSays
  <2>3. CASE HeadCommit > ScanBound
    <3>1. check' = [check EXCEPT !.at = "number", !.reach = HeadCommit]
      BY <1>5, <2>3 DEF ReadHeadVersion
    <3>2. check'.at = "number" /\ check'.reach = HeadCommit BY <1>1, <3>1
    <3>3. check'.newest = check.newest BY <1>1, <3>1
    <3>4. h <= HeadCommit BY <1>1, <1>2
    <3>5. check.newest = 0 BY <1>2, <2>1 DEF CheckSays
    <3> QED BY <2>2, <3>2, <3>3, <3>4, <3>5
  <2>4. CASE ~(HeadCommit > ScanBound)
    <3>1. Answer(FALSE) BY <1>5, <2>4 DEF ReadHeadVersion
    <3>2. check'.at = "unmoved" /\ check'.since = check.since BY <1>a, <3>1
    <3>3. Quiet(check.since, named)
      BY <1>1, <1>2, <2>2, <2>4, ScanAssumption DEF Quiet, PageQuiet
    <3> QED BY <3>2, <3>3
  <2> QED BY <2>3, <2>4
<1>6. CASE NumberSince
  <2>1. /\ check.at = "number" /\ check'.at = "number" /\ check'.since = check.since
        /\ check'.newest = check.newest /\ check'.reach = check.reach
    BY <1>1, <1>6 DEF NumberSince
  <2> QED BY <1>2, <2>1 DEF CheckSays
<1>7. CASE Compare
  <2>1. check.at = "number" /\ check.number = check.since BY <1>2, <1>7 DEF Compare
  <2>2. CASE check.newest # 0
    <3>1. Quiet(check.newest, named) BY <1>2, <2>1, <2>2 DEF CheckSays
    <3>2. Answer(check.newest > check.since) BY <1>7, <2>1, <2>2 DEF Compare
    <3>3. check'.at = (IF check.newest > check.since THEN "moved" ELSE "unmoved")
          /\ check'.since = check.since
      <4>1. (check.newest > check.since) \in BOOLEAN OBVIOUS
      <4> QED BY <1>a, <3>2, <4>1
    <3>4. ~(check.newest > check.since) => Quiet(check.since, named)
      BY <1>1, <1>2, <3>1 DEF Quiet
    <3> QED BY <3>3, <3>4
  <2>3. CASE check.newest = 0
    <3>1. PICK h \in named .. HeadCommit : h <= check.reach /\ PageQuiet(h)
      <4> QED BY <1>2, <2>1, <2>3 DEF CheckSays
    <3>2. Answer(check.reach - check.since > ScanBound) BY <1>7, <2>1, <2>3 DEF Compare
    <3>3. check'.at = (IF check.reach - check.since > ScanBound THEN "moved" ELSE "unmoved")
          /\ check'.since = check.since
      <4>1. (check.reach - check.since > ScanBound) \in BOOLEAN OBVIOUS
      <4> QED BY <1>a, <3>2, <4>1
    <3>4. ~(check.reach - check.since > ScanBound) => Quiet(check.since, named)
      BY <1>1, <1>2, <3>1, ScanAssumption DEF Quiet, PageQuiet
    <3> QED BY <3>3, <3>4
  <2> QED BY <2>2, <2>3
<1>8. CASE ReadRefused
  <2>1. check'.at \in {"moved", "refused"} BY <1>1, <1>8 DEF ReadRefused, Answer
  <2> QED BY <2>1
<1> QED BY <1>1, <1>4, <1>5, <1>6, <1>7, <1>8 DEF CheckStep
=============================================================================
