------------------------- MODULE ConvergenceProofs -------------------------
(***************************************************************************)
(* What holds of Convergence for every set of paths, every seed and every  *)
(* bound: the types, that a reviewed resolution owes no write, that the    *)
(* base names only what was committed; and, below, what a publication      *)
(* commits and what becomes of the user's texts.                           *)
(***************************************************************************)
EXTENDS Convergence, TLAPS

(***************************************************************************)
(* The inductive invariant.  TypeOK alone is not inductive: a commit is    *)
(* read by its number, so every number kept must name a commit there is,   *)
(* and a step reads records that an earlier step of the run put there.     *)
(***************************************************************************)
CandidateSteps ==
    {"plan", "snapshot", "resolve", "touch", "takenin", "oversnap", "overwrite", "overwritten"}
RequestSteps == {"send", "acked", "refused", "raised"}

CommitsNamed ==
    /\ base.commit <= HeadCommit
    /\ outbox # None \/ pc = "request" => outbox.parent <= HeadCommit
    /\ res # None \/ pc = "takenin" => res.base <= HeadCommit /\ res.head <= HeadCommit
    /\ named # None => named.commit <= HeadCommit
    /\ pc \in RequestSteps => req.origin <= HeadCommit /\ req.parent <= HeadCommit
    /\ pc \in CandidateSteps => cand.base <= HeadCommit /\ cand.head <= HeadCommit

StepsHold ==
    /\ pc \in CandidateSteps => cand \in CandidateType
    /\ pc \in RequestSteps => req \in RequestType
    /\ pc \in {"snapshot", "resolve", "request", "send", "acked", "oversnap"}
          => coll \in Tree
    /\ pc = "request" => outbox \in Outbox
    /\ pc = "takenin" => res \in Resolution /\ \A p \in Paths : res.pending[p] = None
    /\ pc \in {"touch", "overwrite"} => todo \subseteq Targets(cand.target)
    /\ pc = "discard" => todo \subseteq {p \in Paths : snap[p] # None}

ShapeInv == TypeOK /\ CommitsNamed /\ StepsHold

(***************************************************************************)
(* The operators the steps are built from stay within their types.         *)
(***************************************************************************)

\* An entry of a sequence is of the sequence's type.
LEMMA EntryOfSeq ==
  ASSUME NEW S, NEW s \in Seq(S), NEW i \in 1 .. Len(s)
  PROVE  s[i] \in S
  OBVIOUS

\* The tree read at a commit the repository holds is a tree.
LEMMA TreeAtIsTree ==
  ASSUME TypeOK, NEW c \in Nat, c <= HeadCommit
  PROVE  TreeAt(c) \in Tree
  <1>1. EmptyTree \in Tree
    BY DEF EmptyTree, Tree, Content
  <1>2. c # 0 => c \in 1 .. Len(commits)
    BY DEF TypeOK, Commits, HeadCommit
  <1>3. c # 0 => commits[c] \in [tree : Tree, own : BOOLEAN]
    BY <1>2, EntryOfSeq DEF TypeOK, Commits
  <1> QED
    BY <1>1, <1>3 DEF TreeAt

\* Paths left out of a tree leave a tree.
LEMMA WithoutIsTree ==
  ASSUME NEW tree \in Tree, NEW excluded
  PROVE  Without(tree, excluded) \in Tree
  BY DEF Without, Tree, Content

\* The tree a publication or a preparation compares with is a tree.
LEMMA TreeReadIsTree ==
  ASSUME TypeOK, NEW c \in Nat, c <= HeadCommit
  PROVE  TreeRead(c) \in Tree
  BY TreeAtIsTree DEF TypeOK, TreeRead, Base

\* A run's collection, or the folder it would collect, is a tree.
LEMMA CollectedIsTree ==
  ASSUME TypeOK
  PROVE  Collected \in Tree
  BY DEF TypeOK, Collected

\* A commit appended leaves every commit there was, and its number.
LEMMA AppendedCommit ==
  ASSUME TypeOK, NEW tree \in Tree, NEW own \in BOOLEAN,
         commits' = Append(commits, [tree |-> tree, own |-> own])
  PROVE  /\ commits' \in Commits
         /\ Len(commits') = HeadCommit + 1
         /\ HeadCommit' = HeadCommit + 1
         /\ HeadCommit \in Nat
         /\ commits'[HeadCommit + 1].tree = tree
         /\ \A c \in 1 .. HeadCommit : commits'[c] = commits[c]
  BY DEF TypeOK, Commits, HeadCommit

\* What names a commit still names one once another is appended.
LEMMA NamesSurvive ==
  ASSUME TypeOK, CommitsNamed, StepsHold, HeadCommit \in Nat, HeadCommit' = HeadCommit + 1,
         UNCHANGED <<base, outbox, res, named>>
  PROVE  /\ base'.commit <= HeadCommit'
         /\ outbox' # None \/ pc = "request" => outbox'.parent <= HeadCommit'
         /\ res' # None \/ pc = "takenin" => res'.base <= HeadCommit' /\ res'.head <= HeadCommit'
         /\ named' # None => named'.commit <= HeadCommit'
         /\ pc \in CandidateSteps => cand.base <= HeadCommit' /\ cand.head <= HeadCommit'
         /\ pc \in RequestSteps => req.origin <= HeadCommit' /\ req.parent <= HeadCommit'
  <1>0. \A n \in Nat : n <= HeadCommit => n <= HeadCommit'
    OBVIOUS
  <1>1. base'.commit <= HeadCommit'
    BY <1>0 DEF TypeOK, CommitsNamed, Base
  <1>2. outbox' # None \/ pc = "request" => outbox'.parent <= HeadCommit'
    BY <1>0 DEF TypeOK, CommitsNamed, StepsHold, Outbox
  <1>3. res' # None \/ pc = "takenin" => res'.base <= HeadCommit' /\ res'.head <= HeadCommit'
    BY <1>0 DEF TypeOK, CommitsNamed, StepsHold, Resolution
  <1>4. named' # None => named'.commit <= HeadCommit'
    BY <1>0 DEF TypeOK, CommitsNamed, Base
  <1>5. pc \in CandidateSteps => cand.base <= HeadCommit' /\ cand.head <= HeadCommit'
    BY <1>0 DEF CommitsNamed, StepsHold, CandidateType
  <1>6. pc \in RequestSteps => req.origin <= HeadCommit' /\ req.parent <= HeadCommit'
    BY <1>0 DEF CommitsNamed, StepsHold, RequestType
  <1> QED
    BY <1>1, <1>2, <1>3, <1>4, <1>5, <1>6

-----------------------------------------------------------------------------
(* The user, the other writers and the process. *)

\* The first states have the shape.
LEMMA InitShape == Init => ShapeInv
  <1> SUFFICES ASSUME Init PROVE ShapeInv
    OBVIOUS
  <1>1. EmptyTree \in Tree /\ SeedTree \in Tree
    BY SeedAssumption DEF EmptyTree, Tree, Content
  <1>2. /\ <<[tree |-> SeedTree, own |-> FALSE]>> \in Commits
        /\ <<>> \in Commits
    BY <1>1 DEF Commits
  <1>3. commits \in Commits /\ folder \in Tree /\ base \in Base /\ base.commit <= HeadCommit
    <2>1. Len(<<[tree |-> SeedTree, own |-> FALSE]>>) = 1 /\ Len(<<>>) = 0
      OBVIOUS
    <2>2. /\ [commit |-> 1, files |-> SeedTree] \in Base
          /\ [commit |-> 0, files |-> EmptyTree] \in Base
      BY <1>1 DEF Base
    <2>3. CASE /\ commits = <<[tree |-> SeedTree, own |-> FALSE]>>
               /\ \/ folder = SeedTree /\ base = [commit |-> 1, files |-> SeedTree]
                  \/ folder \in {SeedTree, EmptyTree} /\ base = NoBase
      BY <1>1, <1>2, <2>1, <2>2, <2>3 DEF NoBase, HeadCommit
    <2>4. CASE commits = <<>> /\ folder = SeedTree /\ base = NoBase
      BY <1>1, <1>2, <2>1, <2>2, <2>4 DEF NoBase, HeadCommit
    <2> QED
      BY <2>3, <2>4 DEF Init
  <1>4. TypeOK
    BY <1>3 DEF Init, TypeOK, Nothing, Entry, Steps, Modes, Tree, Content
  <1>5. CommitsNamed
    BY <1>3 DEF Init, CommitsNamed, CandidateSteps, RequestSteps
  <1>6. StepsHold
    BY DEF Init, StepsHold, CandidateSteps, RequestSteps
  <1> QED
    BY <1>4, <1>5, <1>6 DEF ShapeInv

\* What the user does to one file.
LEMMA SetFileShape ==
  ASSUME TypeOK, NEW p \in Paths, NEW content \in Content, SetFile(p, content)
  PROVE  folder' \in Tree /\ seen' \in [Paths -> SUBSET Content]
  BY DEF TypeOK, SetFile, Tree

\* What another writer may commit at a path.
LEMMA OtherContent ==
  ASSUME TypeOK, NEW p \in Paths,
         NEW content \in {{texts + 1}, NoFile} \cup {commits[c].tree[p] : c \in 1 .. HeadCommit}
  PROVE  content \in Content
  <1>1. {texts + 1} \in Content /\ NoFile \in Content
    BY DEF TypeOK, Content, Text
  <1>2. ASSUME NEW c \in 1 .. HeadCommit
        PROVE  commits[c].tree[p] \in Content
    <2>1. commits[c] \in [tree : Tree, own : BOOLEAN]
      BY EntryOfSeq DEF TypeOK, Commits, HeadCommit
    <2> QED
      BY <2>1 DEF Tree
  <1> QED
    BY <1>1, <1>2

\* The user, the other writers, a start and a kill keep the shape.
LEMMA WorldShape ==
  ASSUME ShapeInv, World
  PROVE  ShapeInv'
  <1> USE DEF ShapeInv
  <1>1. ASSUME NEW p \in Paths, UserEdits(p)
        PROVE  ShapeInv'
    <2>1. {texts + 1} \in Content
      BY DEF TypeOK, Content, Text
    <2>2. folder' \in Tree /\ seen' \in [Paths -> SUBSET Content]
      BY <1>1, <2>1, SetFileShape DEF UserEdits
    <2>3. mine' \in [Paths -> Nat] /\ texts' \in Nat
      BY <1>1 DEF TypeOK, UserEdits
    <2>3a. TypeOK'
      BY <1>1, <2>2, <2>3 DEF TypeOK, UserEdits, runVars, runData
    <2>4. CommitsNamed' /\ StepsHold'
      BY <1>1 DEF CommitsNamed, StepsHold, UserEdits, runVars, runData, HeadCommit
    <2> QED
      BY <2>3a, <2>4
  <1>2. ASSUME NEW p \in Paths, UserDeletes(p)
        PROVE  ShapeInv'
    <2>1. folder' \in Tree /\ seen' \in [Paths -> SUBSET Content]
      BY <1>2, SetFileShape DEF UserDeletes, Content
    <2>2. mine' \in [Paths -> Nat] /\ deletes' \in Nat
      BY <1>2 DEF TypeOK, UserDeletes
    <2>2a. TypeOK'
      BY <1>2, <2>1, <2>2 DEF TypeOK, UserDeletes, runVars, runData
    <2>3. CommitsNamed' /\ StepsHold'
      BY <1>2 DEF CommitsNamed, StepsHold, UserDeletes, runVars, runData, HeadCommit
    <2> QED
      BY <2>2a, <2>3
  <1>3. ASSUME NEW p \in Paths, UserResolvesMarkers(p)
        PROVE  ShapeInv'
    <2>1. folder[p] \ {Marker} \in Content
      BY <1>3 DEF TypeOK, UserResolvesMarkers, HoldsMarker, Tree, Content, Text
    <2>2. folder' \in Tree /\ seen' \in [Paths -> SUBSET Content]
      BY <1>3, <2>1, SetFileShape DEF UserResolvesMarkers
    <2>3. TypeOK'
      BY <1>3, <2>2 DEF TypeOK, UserResolvesMarkers, runVars, runData
    <2>4. CommitsNamed' /\ StepsHold'
      BY <1>3 DEF CommitsNamed, StepsHold, UserResolvesMarkers, runVars, runData, HeadCommit,
                  CandidateSteps, RequestSteps
    <2> QED
      BY <2>3, <2>4
  <1>4. ASSUME NEW p \in Paths, OtherCommits(p)
        PROVE  ShapeInv'
    <2>1. TreeAt(HeadCommit) \in Tree
      BY TreeAtIsTree DEF TypeOK, Commits, HeadCommit
    <2>2. PICK content \in {{texts + 1}, NoFile} \cup {commits[c].tree[p] : c \in 1 .. HeadCommit} :
             /\ texts' = IF content = {texts + 1} THEN texts + 1 ELSE texts
             /\ commits' = Append(commits, [tree |-> [TreeAt(HeadCommit) EXCEPT ![p] = content],
                                            own  |-> FALSE])
      BY <1>4 DEF OtherCommits
    <2>3. content \in Content
      BY <2>2, OtherContent
    <2>4. [TreeAt(HeadCommit) EXCEPT ![p] = content] \in Tree
      BY <2>1, <2>3 DEF Tree
    <2>5. commits' \in Commits /\ HeadCommit' = HeadCommit + 1 /\ HeadCommit \in Nat
      BY <2>2, <2>4, AppendedCommit
    <2>6. texts' \in Nat
      BY <2>2 DEF TypeOK
    <2>7. TypeOK'
      BY <1>4, <2>5, <2>6 DEF TypeOK, OtherCommits, diskVars, runVars, runData
    <2>8. CommitsNamed'
      <3>1. UNCHANGED <<base, outbox, res, named, cand, req, pc>>
        BY <1>4 DEF OtherCommits, diskVars, runVars, runData
      <3> QED
        BY <2>5, <3>1, NamesSurvive DEF CommitsNamed, CandidateSteps, RequestSteps
    <2>9. StepsHold'
      BY <1>4 DEF StepsHold, OtherCommits, diskVars, runVars, runData
    <2> QED
      BY <2>7, <2>8, <2>9
  <1>5. ASSUME NEW m \in Modes, Start(m)
        PROVE  ShapeInv'
    <2>1. TypeOK'
      BY <1>5 DEF TypeOK, Start, Goto, diskVars, Steps
    <2>2. CommitsNamed' /\ StepsHold'
      BY <1>5 DEF CommitsNamed, StepsHold, Start, Goto, diskVars, HeadCommit, CandidateSteps, RequestSteps
    <2> QED
      BY <2>1, <2>2
  <1>6. CASE Stop
    BY <1>6 DEF TypeOK, CommitsNamed, StepsHold, Stop, EndRun, diskVars, Steps, HeadCommit,
       CandidateSteps, RequestSteps
  <1> QED
    BY <1>1, <1>2, <1>3, <1>4, <1>5, <1>6 DEF World

-----------------------------------------------------------------------------
(* The steps of a run up to the comparison with the head. *)

\* The end of a run that left every record on disk within its type.
LEMMA EndRunShape ==
  ASSUME ShapeInv, EndRun, UNCHANGED <<commits, texts, deletes, others, mine, seen, blind>>,
         stops' \in Nat, stood' \in [Paths -> Entry],
         folder' \in Tree, base' \in Base, outbox' \in {None} \cup Outbox,
         res' \in {None} \cup Resolution, snap' \in [Paths -> Entry],
         base'.commit <= HeadCommit,
         outbox' # None => outbox'.parent <= HeadCommit,
         res' # None => res'.base <= HeadCommit /\ res'.head <= HeadCommit
  PROVE  ShapeInv'
  <1>1. TypeOK'
    BY DEF ShapeInv, TypeOK, EndRun, Steps
  <1>2. CommitsNamed'
    BY DEF ShapeInv, CommitsNamed, EndRun, HeadCommit, CandidateSteps, RequestSteps
  <1>3. StepsHold'
    BY DEF StepsHold, EndRun, CandidateSteps, RequestSteps
  <1> QED
    BY <1>1, <1>2, <1>3 DEF ShapeInv

\* The same of an end that leaves the history and the bounds alone.
LEMMA EndShape ==
  ASSUME ShapeInv, EndRun, UNCHANGED <<commits, ghosts>>,
         folder' \in Tree, base' \in Base, outbox' \in {None} \cup Outbox,
         res' \in {None} \cup Resolution, snap' \in [Paths -> Entry],
         base'.commit <= HeadCommit,
         outbox' # None => outbox'.parent <= HeadCommit,
         res' # None => res'.base <= HeadCommit /\ res'.head <= HeadCommit
  PROVE  ShapeInv'
  <1>1. /\ UNCHANGED <<commits, texts, deletes, others, mine, seen, blind>>
        /\ stops' \in Nat /\ stood' \in [Paths -> Entry]
    BY DEF ShapeInv, TypeOK, ghosts
  <1> QED
    BY <1>1, EndRunShape

\* The head's number names a commit, and a tree stands there.
LEMMA HeadIsNamed ==
  ASSUME TypeOK
  PROVE  HeadCommit \in Nat /\ TreeAt(HeadCommit) \in Tree /\ TreeRead(HeadCommit) \in Tree
  <1>1. HeadCommit \in Nat
    BY DEF TypeOK, Commits, HeadCommit
  <1> QED
    BY <1>1, TreeAtIsTree, TreeReadIsTree

\* Settling an outbox keeps the shape.
LEMMA SettleShape ==
  ASSUME ShapeInv, Settle
  PROVE  ShapeInv'
  <1> USE DEF ShapeInv
  <1>1. CASE NothingToSettle
    BY <1>1 DEF NothingToSettle, TypeOK, CommitsNamed, StepsHold, Goto, diskVars, runData,
       ghosts, Steps, HeadCommit, CandidateSteps, RequestSteps
  <1>2. CASE SettleLanded
    <2>1. base' \in Base /\ base'.commit <= HeadCommit
      BY <1>2, HeadIsNamed DEF SettleLanded, Base
    <2> QED
      BY <1>2, <2>1 DEF SettleLanded, TypeOK, CommitsNamed, StepsHold, Goto, runData,
         ghosts, Steps, HeadCommit, CandidateSteps, RequestSteps
  <1>3. CASE SettleWithoutToken
    BY <1>3 DEF SettleWithoutToken, TypeOK, CommitsNamed, StepsHold, Goto, diskVars,
       runData, ghosts, Steps, HeadCommit, CandidateSteps, RequestSteps
  <1>4. CASE SettleResumes
    <2>1. named' \in Base /\ named'.commit <= HeadCommit
      BY <1>4, HeadIsNamed DEF SettleResumes, Base
    <2> QED
      BY <1>4, <2>1 DEF SettleResumes, TypeOK, CommitsNamed, StepsHold, Goto, diskVars,
         ghosts, Steps, HeadCommit, CandidateSteps, RequestSteps
  <1>5. CASE SettleDrops
    BY <1>5 DEF SettleDrops, TypeOK, CommitsNamed, StepsHold, Goto, runData, ghosts, Steps,
       HeadCommit, CandidateSteps, RequestSteps
  <1>6. CASE LandedKeepsReview
    BY <1>6 DEF LandedKeepsReview, TypeOK, CommitsNamed, StepsHold, Goto, runData, ghosts,
       Steps, HeadCommit, CandidateSteps, RequestSteps
  <1>7. CASE LandedDropsResolution
    BY <1>7 DEF LandedDropsResolution, TypeOK, CommitsNamed, StepsHold, Goto, runData,
       ghosts, Steps, HeadCommit, CandidateSteps, RequestSteps
  <1>8. CASE LandedDropsSnapshots
    BY <1>8 DEF LandedDropsSnapshots, TypeOK, CommitsNamed, StepsHold, Goto, runData, Steps,
       HeadCommit, CandidateSteps, RequestSteps, Nothing, Entry
  <1>9. CASE LandedDropsOutbox
    BY <1>9 DEF LandedDropsOutbox, TypeOK, CommitsNamed, StepsHold, Goto, runData, ghosts,
       Steps, HeadCommit, CandidateSteps, RequestSteps
  <1> QED
    BY <1>1, <1>2, <1>3, <1>4, <1>5, <1>6, <1>7, <1>8, <1>9 DEF Settle

\* A candidate as it is first prepared, forced or not.
Prepared(candidate, commit, head) ==
    candidate \in CandidateType /\ candidate.base = commit /\ candidate.head = head

\* A candidate newly prepared has the type its passes rely on.
LEMMA NewCandidateType ==
  ASSUME TypeOK, NEW commit \in Nat, NEW tree \in Tree, NEW head \in Nat,
         NEW ret \in {"end", "takein"}, NEW sent \in Nat,
         NEW reviewed \in {None} \cup Tree
  PROVE  /\ Prepared(NewCandidate(commit, tree, head, TRUE, ret, sent, reviewed), commit, head)
         /\ Prepared(NewCandidate(commit, tree, head, FALSE, ret, sent, reviewed), commit, head)
  <1> DEFINE written == IF HasPending
                 THEN [p \in Paths |-> IF res.pending[p] = NoFile THEN None ELSE res.pending[p]]
                 ELSE Nothing
  <1>1. HasPending => res \in Resolution
    BY DEF TypeOK, HasPending
  <1>2. written \in [Paths -> Entry] /\ Nothing \in [Paths -> Entry]
    BY <1>1 DEF Resolution, Nothing, Entry
  <1> QED
    BY <1>1, <1>2 DEF NewCandidate, CandidateType, Prepared, Resolution

\* A preparation started keeps the shape.
LEMMA PrepareShape ==
  ASSUME ShapeInv, NEW candidate \in CandidateType, Prepare(candidate),
         candidate.base <= HeadCommit, candidate.head <= HeadCommit,
         UNCHANGED <<commits, diskVars, mode, todo, named, req, ghosts>>,
         coll' \in {None} \cup Tree
  PROVE  ShapeInv'
  BY DEF ShapeInv, Prepare, TypeOK, CommitsNamed, StepsHold, Goto, Steps, HeadCommit,
     CandidateSteps, RequestSteps, diskVars, ghosts

\* What a run does with a resolution standing keeps the shape.
LEMMA FromResolutionShape ==
  ASSUME ShapeInv, FromResolution
  PROVE  ShapeInv'
  <1> USE DEF ShapeInv
  <1>1. CASE NoResolution
    BY <1>1 DEF NoResolution, TypeOK, CommitsNamed, StepsHold, Goto, diskVars, runData,
       ghosts, Steps, HeadCommit, CandidateSteps, RequestSteps
  <1>2. CASE FinishPreparation
    <2>1. res \in Resolution /\ res.base \in Nat /\ res.head \in Nat
          /\ res.base <= HeadCommit /\ res.head <= HeadCommit
      BY <1>2 DEF FinishPreparation, HasPending, TypeOK, CommitsNamed, Resolution
    <2>2. TreeRead(res.base) \in Tree
      BY <2>1, TreeReadIsTree
    <2> DEFINE candidate == NewCandidate(res.base, TreeRead(res.base), res.head, TRUE, "end", 0, None)
    <2>3. Prepared(candidate, res.base, res.head)
      BY <2>1, <2>2, NewCandidateType
    <2> HIDE DEF candidate
    <2>4. Prepare(candidate)
      BY <1>2 DEF FinishPreparation, candidate
    <2> QED
      BY <1>2, <2>1, <2>3, <2>4, PrepareShape DEF FinishPreparation, TypeOK, Prepared
  <1>3. CASE Attention
    BY <1>3, EndShape DEF Attention, TypeOK, CommitsNamed, diskVars
  <1>4. CASE ResumeReviewed
    BY <1>4 DEF ResumeReviewed, TypeOK, CommitsNamed, StepsHold, Goto, diskVars, runData,
       ghosts, Steps, HeadCommit, CandidateSteps, RequestSteps
  <1>5. CASE OverwriteResolution
    BY <1>5 DEF OverwriteResolution, TypeOK, CommitsNamed, StepsHold, Goto, diskVars,
       runData, ghosts, Steps, HeadCommit, CandidateSteps, RequestSteps
  <1>6. CASE Continue
    <2>1. res \in Resolution
      BY <1>6 DEF Continue, Reviewable, TypeOK
    <2>2. /\ res' \in Resolution
          /\ res'.base = res.base /\ res'.head = res.head
      BY <1>6, <2>1 DEF Continue, TypeOK, Resolution
    <2>3. mine' \in [Paths -> Nat]
      BY <1>6 DEF Continue, TypeOK
    <2>4. TypeOK'
      BY <1>6, <2>2, <2>3 DEF Continue, TypeOK, Goto, Steps
    <2>5. CommitsNamed'
      BY <1>6, <2>1, <2>2 DEF Continue, CommitsNamed, HeadCommit, Reviewable, CandidateSteps, RequestSteps, Goto
    <2>6. StepsHold'
      BY <1>6 DEF Continue, StepsHold, Goto, CandidateSteps, RequestSteps
    <2> QED
      BY <2>4, <2>5, <2>6
  <1> QED
    BY <1>1, <1>2, <1>3, <1>4, <1>5, <1>6 DEF FromResolution

\* The comparison with the head keeps the shape.
LEMMA FromHeadShape ==
  ASSUME ShapeInv, FromHead
  PROVE  ShapeInv'
  <1> USE DEF ShapeInv
  <1>0. /\ Collected \in Tree /\ HeadCommit \in Nat /\ TreeAt(HeadCommit) \in Tree
        /\ base.commit \in Nat /\ base.files \in Tree /\ base.commit <= HeadCommit
    BY CollectedIsTree, HeadIsNamed DEF TypeOK, CommitsNamed, Base
  <1> DEFINE candidate == NewCandidate(base.commit, base.files, HeadCommit, FALSE, "end", 0, None)
  <1>1. Prepared(candidate, base.commit, HeadCommit)
    BY <1>0, NewCandidateType
  <1> HIDE DEF candidate
  <1>2. CASE OverwritePlans
    <2> DEFINE target == [p \in Paths |->
                            IF TreeAt(HeadCommit)[p] # Collected[p] /\ p \notin ExcludedOnDisk(Collected)
                            THEN TreeAt(HeadCommit)[p] ELSE None]
    <2>1. target \in [Paths -> Entry]
      BY <1>0 DEF Tree, Entry
    <2>2. cand' = [candidate EXCEPT !.target = target]
      BY <1>2 DEF OverwritePlans, candidate
    <2> HIDE DEF target
    <2>3. cand' \in CandidateType /\ cand'.base <= HeadCommit /\ cand'.head <= HeadCommit
      BY <1>0, <1>1, <2>1, <2>2 DEF CandidateType, Prepared
    <2>4. coll' \in Tree
      BY <1>0, <1>2 DEF OverwritePlans
    <2> QED
      BY <1>2, <2>3, <2>4 DEF OverwritePlans, TypeOK, CommitsNamed, StepsHold, Goto,
         diskVars, ghosts, Steps, HeadCommit, CandidateSteps, RequestSteps
  <1>3. CASE FolderHoldsHead
    <2>1. base' \in Base /\ base'.commit <= HeadCommit
      BY <1>0, <1>3 DEF FolderHoldsHead, TypeOK, Base
    <2> QED
      BY <1>3, <2>1, EndShape DEF FolderHoldsHead, TypeOK, CommitsNamed
  <1>4. CASE HeadIsBase
    <2>1. CASE Publishing
      BY <1>0, <1>4, <2>1 DEF HeadIsBase, TypeOK, CommitsNamed, StepsHold, Goto, EndRun,
         diskVars, ghosts, Steps, HeadCommit, CandidateSteps, RequestSteps
    <2>2. CASE ~Publishing
      BY <1>4, <2>2, EndShape DEF HeadIsBase, TypeOK, CommitsNamed, diskVars
    <2> QED
      BY <2>1, <2>2
  <1>5. CASE HeadPastBase
    <2>1. Prepare(candidate)
      BY <1>5 DEF HeadPastBase, candidate
    <2>2. coll' \in Tree
      BY <1>0, <1>5 DEF HeadPastBase
    <2> QED
      BY <1>0, <1>1, <1>5, <2>1, <2>2, PrepareShape DEF HeadPastBase, Prepared
  <1> QED
    BY <1>2, <1>3, <1>4, <1>5 DEF FromHead

-----------------------------------------------------------------------------
(* The preparation of a candidate. *)

\* A pass refused leaves the candidate for the next, or ends the run.
LEMMA NextPassShape ==
  ASSUME ShapeInv, pc \in CandidateSteps, NextPass, UNCHANGED <<commits, diskVars, ghosts>>
  PROVE  ShapeInv'
  <1> USE DEF ShapeInv
  <1>1. CASE pass + 1 < MaxPasses
    <2>0. cand' = [cand EXCEPT !.missed = FALSE]
      BY <1>1 DEF NextPass
    <2>1. cand' \in CandidateType /\ cand'.base = cand.base /\ cand'.head = cand.head
      BY <2>0 DEF StepsHold, CandidateType
    <2>2. cand'.base <= HeadCommit /\ cand'.head <= HeadCommit
      BY <2>1 DEF CommitsNamed
    <2> QED
      BY <1>1, <2>1, <2>2 DEF NextPass, TypeOK, CommitsNamed, StepsHold, Goto, EndRun,
         Steps, HeadCommit, CandidateSteps, RequestSteps, diskVars, ghosts
  <1>2. CASE ~(pass + 1 < MaxPasses)
    BY <1>2, EndShape DEF NextPass, TypeOK, CommitsNamed, diskVars
  <1> QED
    BY <1>1, <1>2

\* The sides a pass compares are trees.
LEMMA ComparedAreTrees ==
  ASSUME TypeOK, cand \in CandidateType, cand.head <= HeadCommit
  PROVE  /\ cand \in CandidateType /\ HeadOfCandidate \in Tree
         /\ ComparedBase \in Tree /\ ComparedHead \in Tree
         /\ cand.head \in Nat /\ cand.head <= HeadCommit
  <1>1. /\ cand \in CandidateType /\ cand.tree \in Tree
        /\ cand.head \in Nat /\ cand.head <= HeadCommit
    BY DEF TypeOK, CandidateType
  <1> QED
    BY <1>1, TreeAtIsTree, WithoutIsTree DEF HeadOfCandidate, ComparedBase, ComparedHead

\* What a merge answers is a text, or nothing.
LEMMA MergedIsEntry ==
  ASSUME TypeOK, cand \in CandidateType, cand.head <= HeadCommit, coll \in Tree, NEW p \in ToMerge
  PROVE  MergeResults(p) \subseteq Entry
  <1>1. /\ p \in Paths /\ coll[p] \in Text /\ ComparedHead[p] \in Text
        /\ ComparedBase[p] \in Content
    <2>1. p \in Paths /\ coll[p] # NoFile /\ ComparedHead[p] # NoFile
      BY DEF ToMerge, BothHold, Collisions, ChangedByBoth, Changed
    <2> QED
      BY <2>1, ComparedAreTrees DEF Tree, Content
  <1>2. MergeBase(p) \in SUBSET Nat
    BY <1>1 DEF MergeBase, TextOf, Content, Text
  <1>3. MarkedMerge(MergeBase(p), coll[p], ComparedHead[p]) \in Text
    BY <1>1, <1>2 DEF MarkedMerge, Text, Marker
  <1>4. CleanMerge(MergeBase(p), coll[p], ComparedHead[p]) \in Text
    BY <1>1, <1>2 DEF CleanMerge, Text
  <1> QED
    BY <1>3, <1>4 DEF MergeResults, Entry, Content

\* What a pass is to write is a content, a removal or nothing, path by path.
LEMMA TargetType ==
  ASSUME TypeOK, cand \in CandidateType, cand.head <= HeadCommit, coll \in Tree,
         NEW merged, \A p \in ToMerge : merged[p] \in MergeResults(p)
  PROVE  Target(merged) \in [Paths -> Entry]
  <1>1. ComparedHead \in Tree
    BY ComparedAreTrees
  <1>2. \A p \in ToMerge : merged[p] \in Entry
    BY MergedIsEntry
  <1> QED
    BY <1>1, <1>2 DEF Target, Tree, Entry

\* A pass's snapshot keeps the shape.
LEMMA SnapshotStepShape ==
  ASSUME ShapeInv, pc = "snapshot", NEW target \in [Paths -> Entry], CandidateSnapshot(target)
  PROVE  ShapeInv'
  <1> USE DEF ShapeInv
  <1>0. cand \in CandidateType /\ coll \in Tree
    BY DEF StepsHold, CandidateSteps, RequestSteps
  <1>1. KeptSnapshot \in [Paths -> Entry]
    BY DEF TypeOK, KeptSnapshot, Nothing, Entry
  <1>2. \A p \in Paths : Prior(p) \in Content
    BY <1>0 DEF TypeOK, Prior, Tree
  <1>3. snap' \in [Paths -> Entry]
    BY <1>1, <1>2 DEF CandidateSnapshot, Entry
  <1>4. StoresPrior(target, KeptSnapshot) \subseteq Paths
    BY DEF StoresPrior, Targets
  <1>5. LocalOnly(ComparedBase, coll, ComparedHead) \subseteq Paths /\ Collided \subseteq Paths
    BY DEF LocalOnly, Collided, Collisions, ChangedByBoth, Changed
  <1>6. [p \in Paths |-> Prior(p)] \in [Paths -> Entry]
    BY <1>2 DEF Entry
  <1>7. cand' = [cand EXCEPT
                   !.target = target, !.taken = StoresPrior(target, KeptSnapshot), !.untouched = {},
                   !.before = [p \in Paths |-> Prior(p)],
                   !.keep   = TRUE,
                   !.local  = @ \cup LocalOnly(ComparedBase, coll, ComparedHead),
                   !.colls  = @ \cup Collided]
    BY DEF CandidateSnapshot
  <1>8. cand' \in CandidateType /\ cand'.base = cand.base /\ cand'.head = cand.head
    <2> DEFINE before == [p \in Paths |-> Prior(p)]
               locals == LocalOnly(ComparedBase, coll, ComparedHead)
               stored == StoresPrior(target, KeptSnapshot)
    <2>1. before \in [Paths -> Entry] /\ locals \subseteq Paths /\ stored \subseteq Paths
      BY <1>4, <1>5, <1>6
    <2>2. cand' = [cand EXCEPT !.target = target, !.taken = stored, !.untouched = {},
                     !.before = before, !.keep = TRUE, !.local = @ \cup locals,
                     !.colls = @ \cup Collided]
      BY <1>7
    <2> HIDE DEF before, locals, stored
    <2> QED
      BY <1>0, <1>5, <2>1, <2>2 DEF CandidateType
  <1>9. TypeOK'
    BY <1>3, <1>8 DEF CandidateSnapshot, TypeOK, Goto, Steps, Nothing, Entry
  <1>10. CommitsNamed'
    <2>1. cand'.base <= HeadCommit /\ cand'.head <= HeadCommit
      BY <1>0, <1>8 DEF CommitsNamed, CandidateSteps, RequestSteps
    <2> QED
      BY <2>1 DEF CandidateSnapshot, CommitsNamed, HeadCommit, CandidateSteps, RequestSteps, Goto
  <1>11. StepsHold'
    BY <1>0, <1>8 DEF CandidateSnapshot, StepsHold, Goto, CandidateSteps, RequestSteps
  <1> QED
    BY <1>9, <1>10, <1>11

\* A pass that read the head, refused or snapshotted, keeps the shape.
LEMMA CandidateReadsShape ==
  ASSUME ShapeInv, CandidateReads
  PROVE  ShapeInv'
  <1> USE DEF ShapeInv
  <1>0. /\ pc = "snapshot" /\ pc \in CandidateSteps
        /\ cand \in CandidateType /\ cand.head <= HeadCommit /\ coll \in Tree
    BY DEF CandidateReads, StepsHold, CommitsNamed, CandidateSteps
  <1>1. PICK merged \in [ToMerge -> UNION {MergeResults(p) : p \in ToMerge}] :
           /\ \A p \in ToMerge : merged[p] \in MergeResults(p)
           /\ CandidateStale(Target(merged)) \/ CandidateSnapshot(Target(merged))
    BY DEF CandidateReads
  <1>2. Target(merged) \in [Paths -> Entry]
    BY <1>0, <1>1, TargetType
  <1>3. CASE CandidateStale(Target(merged))
    BY <1>0, <1>3, NextPassShape DEF CandidateStale
  <1>4. CASE CandidateSnapshot(Target(merged))
    BY <1>0, <1>2, <1>4, SnapshotStepShape
  <1> QED
    BY <1>1, <1>3, <1>4

\* The resolution a preparation records is one.
LEMMA ResolutionRecorded ==
  ASSUME ShapeInv, CandidateResolve, Resolving
  PROVE  res' \in Resolution /\ res'.base <= HeadCommit /\ res'.head <= HeadCommit
  <1> USE DEF ShapeInv
  <1>0. /\ cand \in CandidateType /\ coll \in Tree
        /\ cand.base <= HeadCommit /\ cand.head <= HeadCommit
    BY DEF CandidateResolve, StepsHold, CommitsNamed, CandidateSteps
  <1>1. cand.target \in [Paths -> Entry] /\ cand.local \subseteq Paths /\ cand.colls \subseteq Paths
        /\ cand.extra \subseteq Paths /\ cand.base \in Nat /\ cand.head \in Nat
    BY <1>0 DEF CandidateType
  <1>2. Owed \in [Paths -> Entry]
    <2>1. res # None => res.pending \in [Paths -> Entry]
      BY DEF TypeOK, Resolution
    <2> QED
      BY <1>1, <2>1 DEF Owed, Entry
  <1>3. Collided \subseteq Paths
    BY DEF Collided, Collisions, ChangedByBoth, Changed
  <1>4. res # None => res.round \in Nat
    BY DEF TypeOK, Resolution
  <1> DEFINE combined == cand.local \cup cand.extra
                           \cup {p \in Collided : Proposed(p) # HeadOfCandidate[p]}
             round == IF res = None THEN 1 ELSE res.round
  <1>5. combined \subseteq Paths /\ round \in Nat
    BY <1>1, <1>3, <1>4
  <1>6. res' = [base |-> cand.base, head |-> cand.head, round |-> round,
                local |-> cand.local, colls |-> cand.colls, combined |-> combined,
                reviewed |-> None, pending |-> Owed]
    BY DEF CandidateResolve
  <1> HIDE DEF combined, round
  <1> QED
    BY <1>0, <1>1, <1>2, <1>5, <1>6 DEF Resolution

\* Recording the resolution keeps the shape.
LEMMA CandidateResolveShape ==
  ASSUME ShapeInv, CandidateResolve
  PROVE  ShapeInv'
  <1> USE DEF ShapeInv
  <1>0. /\ cand \in CandidateType /\ coll \in Tree
        /\ cand.base <= HeadCommit /\ cand.head <= HeadCommit
    BY DEF CandidateResolve, StepsHold, CommitsNamed, CandidateSteps
  <1>1. CASE Resolving
    BY <1>0, <1>1, ResolutionRecorded DEF CandidateResolve, TypeOK, CommitsNamed, StepsHold, Goto,
       ghosts, Steps, HeadCommit, CandidateSteps, RequestSteps, Targets
  <1>2. CASE ~Resolving
    <2>1. res' = res
      BY <1>2 DEF CandidateResolve
    <2> QED
      BY <1>0, <2>1 DEF CandidateResolve, TypeOK, CommitsNamed, StepsHold, Goto, ghosts,
         Steps, HeadCommit, CandidateSteps, RequestSteps, Targets
  <1> QED
    BY <1>1, <1>2

\* A folder write or removal keeps the shape.
LEMMA CandidateTouchesShape ==
  ASSUME ShapeInv, NEW p \in Paths, CandidateTouches(p)
  PROVE  ShapeInv'
  <1> USE DEF ShapeInv
  <1>0. /\ pc = "touch" /\ pc' = "touch" /\ p \in todo /\ todo' = todo \ {p}
        /\ cand \in CandidateType /\ todo \subseteq Targets(cand.target)
        /\ cand.base <= HeadCommit /\ cand.head <= HeadCommit
    BY DEF CandidateTouches, StepsHold, CommitsNamed, CandidateSteps
  <1>1. cand.target[p] \in Content
    BY <1>0 DEF CandidateType, Targets, Entry
  <1>2. /\ folder' \in Tree /\ seen' \in [Paths -> SUBSET Content]
    <2>1. CASE Unchanged(p)
      BY <1>1, <2>1, SetFileShape DEF CandidateTouches
    <2>2. CASE ~Unchanged(p)
      BY <2>2 DEF CandidateTouches, TypeOK
    <2> QED
      BY <2>1, <2>2
  <1>3. stood' \in [Paths -> Entry]
    <2>1. folder[p] \in Entry
      BY DEF TypeOK, Tree, Entry
    <2> QED
      BY <2>1 DEF CandidateTouches, TypeOK
  <1>4. /\ cand' \in CandidateType /\ cand'.base = cand.base /\ cand'.head = cand.head
        /\ cand'.target = cand.target
    <2>1. CASE Unchanged(p) /\ cand.target[p] = NoFile
      BY <1>0, <2>1 DEF CandidateTouches
    <2>2. CASE Unchanged(p) /\ cand.target[p] # NoFile
      <3>1. cand' = [cand EXCEPT !.written[p] = cand.target[p]]
        BY <2>2 DEF CandidateTouches
      <3> QED
        BY <1>0, <1>1, <3>1 DEF CandidateType, Entry
    <2>3. CASE ~Unchanged(p)
      <3>1. cand' = [cand EXCEPT !.missed = TRUE, !.untouched = @ \cup ({p} \cap cand.taken)]
        BY <2>3 DEF CandidateTouches
      <3> QED
        BY <1>0, <3>1 DEF CandidateType
    <2> QED
      BY <2>1, <2>2, <2>3
  <1>5. TypeOK'
    BY <1>0, <1>2, <1>3, <1>4 DEF CandidateTouches, TypeOK
  <1>6. CommitsNamed'
    BY <1>0, <1>4 DEF CandidateTouches, CommitsNamed, HeadCommit, RequestSteps
  <1>7. StepsHold'
    BY <1>0, <1>4 DEF CandidateTouches, StepsHold, RequestSteps, Targets
  <1> QED
    BY <1>5, <1>6, <1>7

\* Every step of a preparation keeps the shape.
LEMMA CandidateShape ==
  ASSUME ShapeInv, Candidate
  PROVE  ShapeInv'
  <1> USE DEF ShapeInv
  <1>1. CASE CandidatePlan
    <2>1. cand \in CandidateType /\ cand.base <= HeadCommit /\ cand.head <= HeadCommit
      BY <1>1 DEF CandidatePlan, StepsHold, CommitsNamed, CandidateSteps
    <2>2. cand' = [cand EXCEPT !.excluded = ExcludedOnDisk(Collected)]
          /\ ExcludedOnDisk(Collected) \subseteq Paths
      BY <1>1 DEF CandidatePlan, ExcludedOnDisk
    <2>3. cand' \in CandidateType /\ cand'.base = cand.base /\ cand'.head = cand.head
      BY <2>1, <2>2 DEF CandidateType
    <2>4. coll' \in Tree
      BY <1>1, CollectedIsTree DEF CandidatePlan
    <2> QED
      BY <1>1, <2>1, <2>3, <2>4 DEF CandidatePlan, TypeOK, CommitsNamed, StepsHold, Goto,
         diskVars, ghosts, Steps, HeadCommit, CandidateSteps, RequestSteps
  <1>2. CASE CandidateReads
    BY <1>2, CandidateReadsShape
  <1>3. CASE CandidateResolve
    BY <1>3, CandidateResolveShape
  <1>4. ASSUME NEW p \in Paths, CandidateTouches(p)
        PROVE  ShapeInv'
    BY <1>4, CandidateTouchesShape
  <1>5. CASE CandidateMissed
    BY <1>5, NextPassShape DEF CandidateMissed, CandidateSteps
  <1>6. CASE CandidateSynced
    <2>1. /\ cand \in CandidateType /\ cand.head \in Nat /\ cand.head <= HeadCommit
          /\ HeadOfCandidate \in Tree
      <3>1. cand \in CandidateType /\ cand.head <= HeadCommit
        BY <1>6 DEF CandidateSynced, StepsHold, CommitsNamed, CandidateSteps
      <3> QED
        BY <3>1, ComparedAreTrees DEF CandidateType
    <2>2. base' \in Base /\ base'.commit <= HeadCommit
      BY <1>6, <2>1 DEF CandidateSynced, TypeOK, CommitsNamed, Base
    <2> QED
      BY <1>6, <2>2, EndShape DEF CandidateSynced, TypeOK, CommitsNamed
  <1>7. CASE CandidateStands
    <2>0. cand \in CandidateType /\ cand.base <= HeadCommit /\ cand.head <= HeadCommit
      BY <1>7 DEF CandidateStands, StepsHold, CommitsNamed, CandidateSteps
    <2>1. res \in Resolution /\ res.base <= HeadCommit /\ res.head <= HeadCommit
      BY <1>7 DEF CandidateStands, TypeOK, CommitsNamed
    <2>2. Nothing \in [Paths -> Entry]
      BY DEF Nothing, Entry
    <2>3. /\ res' \in Resolution /\ res'.base = res.base /\ res'.head = res.head
          /\ res'.pending = Nothing
      BY <1>7, <2>1, <2>2 DEF CandidateStands, Resolution
    <2>4. \A p \in Paths : res'.pending[p] = None
      BY <2>3 DEF Nothing
    <2>5. CASE cand.ret = "takein"
      <3>1. TypeOK'
        BY <1>7, <2>3, <2>5 DEF CandidateStands, TypeOK, Goto, runData, Steps, ghosts
      <3>2. CommitsNamed'
        BY <1>7, <2>0, <2>1, <2>3, <2>5 DEF CandidateStands, CommitsNamed, Goto, runData, HeadCommit,
             CandidateSteps, RequestSteps
      <3>3. StepsHold'
        BY <1>7, <2>0, <2>3, <2>4, <2>5 DEF CandidateStands, StepsHold, Goto, runData,
             CandidateSteps, RequestSteps
      <3> QED
        BY <3>1, <3>2, <3>3
    <2>6. CASE cand.ret # "takein"
      BY <1>7, <2>1, <2>3, <2>6, EndShape DEF CandidateStands, TypeOK, CommitsNamed
    <2> QED
      BY <2>5, <2>6
  <1> QED
    BY <1>1, <1>2, <1>3, <1>4, <1>5, <1>6, <1>7 DEF Candidate

-----------------------------------------------------------------------------
(* The publication. *)

\* A publication refused on a stale file is made again, or ends the run.
LEMMA NextPublicationShape ==
  ASSUME ShapeInv, NextPublication, outbox' \in {None, outbox},
         UNCHANGED <<commits, folder, base, res, snap, ghosts>>
  PROVE  ShapeInv'
  <1> USE DEF ShapeInv
  <1>1. CASE pass + 1 < MaxPasses
    BY <1>1 DEF NextPublication, TypeOK, CommitsNamed, StepsHold, Goto, EndRun, Steps,
       HeadCommit, CandidateSteps, RequestSteps, ghosts
  <1>2. CASE ~(pass + 1 < MaxPasses)
    BY <1>2, EndShape DEF NextPublication, TypeOK, CommitsNamed
  <1> QED
    BY <1>1, <1>2

\* The steps of a publication up to its send keep the shape.
LEMMA PublishStepsShape ==
  ASSUME ShapeInv,
         \/ PublishChanged \/ PublishUnreviewed \/ PublishStale \/ PublishMarked
         \/ PublishRecords \/ PublishRequest \/ PublishRefused
  PROVE  ShapeInv'
  <1> USE DEF ShapeInv
  <1>0. Collected \in Tree
    BY CollectedIsTree
  <1>1. CASE PublishChanged
    <2> DEFINE changed == Changed(res.reviewed, Collected)
    <2>1. res \in Resolution /\ res.base <= HeadCommit /\ res.head <= HeadCommit
      BY <1>1 DEF PublishChanged, ReviewedElsewhere, TypeOK, CommitsNamed
    <2>2. changed \subseteq Paths
      BY DEF Changed
    <2>3. res' = [res EXCEPT !.reviewed = None, !.local = @ \cup changed,
                             !.combined = @ \cup changed]
      BY <1>1 DEF PublishChanged
    <2> HIDE DEF changed
    <2>4. res' \in Resolution /\ res'.base = res.base /\ res'.head = res.head
      BY <2>1, <2>2, <2>3 DEF Resolution
    <2> QED
      BY <1>1, <2>1, <2>4 DEF PublishChanged, TypeOK, CommitsNamed, StepsHold, Goto,
         runData, ghosts, Steps, HeadCommit, CandidateSteps, RequestSteps
  <1>2. CASE PublishUnreviewed
    BY <1>2, EndShape DEF PublishUnreviewed, TypeOK, CommitsNamed
  <1>3. CASE PublishStale
    BY <1>3, NextPublicationShape DEF PublishStale, diskVars
  <1>4. CASE PublishMarked
    BY <1>4, EndShape DEF PublishMarked, TypeOK, CommitsNamed, diskVars
  <1>5. CASE PublishRecords
    <2>1. Parent \in Nat /\ Parent <= HeadCommit
      BY DEF Parent, TypeOK, CommitsNamed, Base, Resolution
    <2>2. outbox' \in Outbox /\ outbox'.parent <= HeadCommit
      BY <1>0, <1>5, <2>1 DEF PublishRecords, Outbox
    <2>3. coll' \in Tree
      BY <1>0, <1>5 DEF PublishRecords
    <2> QED
      BY <1>5, <2>2, <2>3 DEF PublishRecords, TypeOK, CommitsNamed, StepsHold, Goto, ghosts,
         Steps, HeadCommit, CandidateSteps, RequestSteps
  <1>6. CASE PublishRequest
    <2>1. /\ outbox.parent \in Nat /\ outbox.parent <= HeadCommit /\ coll \in Tree
      BY <1>6 DEF PublishRequest, StepsHold, CommitsNamed, Outbox
    <2> DEFINE tree == IF named # None THEN named.files ELSE TreeRead(outbox.parent)
               reference == Without(tree, ExcludedOnDisk(coll))
               puts == {p \in Changed(reference, coll) : coll[p] # NoFile}
               dels == {p \in Changed(reference, coll) : coll[p] = NoFile}
    <2>2. tree \in Tree
      BY <2>1, TreeReadIsTree DEF TypeOK, Base
    <2>3. reference \in Tree
      BY <2>2, WithoutIsTree
    <2>4. puts \subseteq Paths /\ dels \subseteq Paths
      BY DEF Changed
    <2>5. req' = [origin |-> outbox.parent, parent |-> outbox.parent, reference |-> reference,
                  puts |-> puts, dels |-> dels]
      BY <1>6 DEF PublishRequest, Request
    <2> HIDE DEF tree, reference, puts, dels
    <2>6. /\ req' \in RequestType /\ req'.origin <= HeadCommit /\ req'.parent <= HeadCommit
      BY <2>1, <2>3, <2>4, <2>5 DEF RequestType
    <2> QED
      BY <1>6, <2>1, <2>6 DEF PublishRequest, TypeOK, CommitsNamed, StepsHold, Goto,
         diskVars, ghosts, Steps, HeadCommit, CandidateSteps, RequestSteps
  <1>7. CASE PublishRefused
    <2>1. stops' \in Nat
      BY <1>7 DEF PublishRefused, TypeOK
    <2> QED
      BY <1>7, <2>1, EndRunShape DEF PublishRefused, TypeOK, CommitsNamed
  <1> QED
    BY <1>1, <1>2, <1>3, <1>4, <1>5, <1>6, <1>7

\* A body taken by the server keeps the shape.
LEMMA SendBatchShape ==
  ASSUME ShapeInv, NEW batch, SendBatch(batch)
  PROVE  ShapeInv'
  <1> USE DEF ShapeInv
  <1> DEFINE last == batch = req.puts
             tree == Pushed(batch, last)
  <1>0. /\ pc = "send" /\ req \in RequestType /\ coll \in Tree
        /\ req.origin <= HeadCommit /\ req.origin \in Nat /\ HeadCommit \in Nat
    BY HeadIsNamed DEF SendBatch, StepsHold, CommitsNamed, RequestSteps, RequestType
  <1>1. tree \in Tree
    BY <1>0, HeadIsNamed DEF Pushed, Tree, Content
  <1>2. /\ commits' = IF tree = TreeAt(HeadCommit) THEN commits
                      ELSE Append(commits, [tree |-> tree, own |-> TRUE])
        /\ req' = [req EXCEPT !.puts = @ \ batch, !.parent = Len(commits')]
        /\ pc' \in {"send", "acked"}
        /\ UNCHANGED <<diskVars, mode, coll, todo, pass, named, cand, texts, deletes, others,
                       stops, mine, seen, stood>>
        /\ blind' \in SUBSET Nat
    BY <1>0 DEF SendBatch, Goto, TypeOK
  <1> HIDE DEF last, tree
  <1>3. CASE tree = TreeAt(HeadCommit)
    <2>1. commits' = commits /\ HeadCommit' = HeadCommit /\ Len(commits') = HeadCommit
      BY <1>2, <1>3 DEF HeadCommit
    <2>2. req' \in RequestType /\ req'.origin = req.origin /\ req'.parent = HeadCommit
      BY <1>0, <1>2, <2>1 DEF RequestType
    <2>3. TypeOK'
      BY <1>2, <2>1, <2>2 DEF TypeOK, diskVars, Steps
    <2>4. CommitsNamed'
      BY <1>0, <1>2, <2>1, <2>2 DEF CommitsNamed, diskVars, CandidateSteps, RequestSteps
    <2>5. StepsHold'
      BY <1>0, <1>2, <2>2 DEF StepsHold, diskVars, CandidateSteps, RequestSteps
    <2> QED
      BY <2>3, <2>4, <2>5
  <1>4. CASE tree # TreeAt(HeadCommit)
    <2>0. commits' = Append(commits, [tree |-> tree, own |-> TRUE])
      BY <1>2, <1>4
    <2>1. commits' \in Commits /\ HeadCommit' = HeadCommit + 1 /\ Len(commits') = HeadCommit + 1
      BY <1>1, <2>0, AppendedCommit
    <2>2. req' \in RequestType /\ req'.origin = req.origin /\ req'.parent = HeadCommit + 1
      <3>1. req' = [req EXCEPT !.puts = @ \ batch, !.parent = HeadCommit + 1]
        BY <1>2, <2>1
      <3>2. HeadCommit + 1 \in Nat /\ req.puts \ batch \subseteq Paths
        BY <1>0 DEF RequestType
      <3> QED
        BY <1>0, <3>1, <3>2 DEF RequestType
    <2>3. TypeOK'
      BY <1>2, <2>1, <2>2 DEF TypeOK, diskVars, Steps
    <2>4. CommitsNamed'
      <3>1. UNCHANGED <<base, outbox, res, named>>
        BY <1>2 DEF diskVars
      <3>2. req'.origin <= HeadCommit' /\ req'.parent <= HeadCommit'
        BY <1>0, <2>1, <2>2
      <3> QED
        BY <1>0, <1>2, <2>1, <3>1, <3>2, NamesSurvive DEF CommitsNamed, CandidateSteps, RequestSteps
    <2>5. StepsHold'
      BY <1>0, <1>2, <2>2 DEF StepsHold, diskVars, CandidateSteps, RequestSteps
    <2> QED
      BY <2>3, <2>4, <2>5
  <1> QED
    BY <1>3, <1>4

\* The other steps of a send, and those after it, keep the shape.
LEMMA SendStepsShape ==
  ASSUME ShapeInv,
         \/ SendStale \/ SendConflicts
         \/ Acknowledged \/ DropOutbox \/ DropResolution \/ DropSnapshots
  PROVE  ShapeInv'
  <1> USE DEF ShapeInv
  <1>1. CASE SendStale
    BY <1>1, NextPublicationShape DEF SendStale
  <1>2. CASE SendConflicts
    BY <1>2 DEF SendConflicts, TypeOK, CommitsNamed, StepsHold, Goto, runData, ghosts,
       Steps, HeadCommit, CandidateSteps, RequestSteps
  <1>3. CASE Acknowledged
    <2>1. base' \in Base /\ base'.commit <= HeadCommit
      BY <1>3 DEF Acknowledged, PublishedBase, StepsHold, CommitsNamed, RequestSteps, RequestType, Base
    <2> QED
      BY <1>3, <2>1 DEF Acknowledged, TypeOK, CommitsNamed, StepsHold, Goto, runData,
         ghosts, Steps, HeadCommit, CandidateSteps, RequestSteps
  <1>4. CASE DropOutbox
    BY <1>4 DEF DropOutbox, TypeOK, CommitsNamed, StepsHold, Goto, runData, ghosts, Steps,
       HeadCommit, CandidateSteps, RequestSteps
  <1>5. CASE DropResolution
    BY <1>5 DEF DropResolution, TypeOK, CommitsNamed, StepsHold, Goto, runData, ghosts,
       Steps, HeadCommit, CandidateSteps, RequestSteps
  <1>6. CASE DropSnapshots
    <2>1. Nothing \in [Paths -> Entry]
      BY DEF Nothing, Entry
    <2> QED
      BY <1>6, <2>1, EndRunShape DEF DropSnapshots, TypeOK, CommitsNamed
  <1> QED
    BY <1>1, <1>2, <1>3, <1>4, <1>5, <1>6

\* What follows a moved head keeps the shape.
LEMMA RefusedShape ==
  ASSUME ShapeInv,
         TakeInMove \/ TakenInCollided \/ TakenIn \/ RaiseRound \/ PrepareAgain
  PROVE  ShapeInv'
  <1> USE DEF ShapeInv
  <1>1. CASE TakeInMove
    <2>1. /\ req \in RequestType /\ req.origin \in Nat /\ req.origin <= HeadCommit
          /\ req.reference \in Tree /\ HeadCommit \in Nat
      BY <1>1, HeadIsNamed DEF TakeInMove, StepsHold, CommitsNamed, RequestSteps, RequestType
    <2>2. res.reviewed \in Tree /\ HeadBeside(res.reviewed) \in Tree
      BY <1>1, HeadIsNamed, WithoutIsTree
         DEF TakeInMove, ReviewHolds, TypeOK, Resolution, HeadBeside
    <2> DEFINE reviewed == [p \in Paths |-> IF p \in HeadMoves THEN HeadBeside(res.reviewed)[p]
                                            ELSE res.reviewed[p]]
               candidate == NewCandidate(req.origin, req.reference, HeadCommit, TRUE, "takein",
                                         pass, reviewed)
    <2>3. reviewed \in Tree /\ pass \in Nat
      BY <2>2 DEF TypeOK, Tree
    <2>4. Prepare(candidate)
      BY <1>1 DEF TakeInMove
    <2> HIDE DEF reviewed
    <2>5. Prepared(candidate, req.origin, HeadCommit)
      BY <2>1, <2>3, NewCandidateType
    <2> HIDE DEF candidate
    <2> QED
      BY <1>1, <2>1, <2>4, <2>5, PrepareShape DEF TakeInMove, Prepared
  <1>2. CASE TakenInCollided
    <2>1. res \in Resolution /\ res.base <= HeadCommit /\ res.head <= HeadCommit
      BY <1>2 DEF TakenInCollided, StepsHold, CommitsNamed
    <2>2. /\ res' \in Resolution /\ res'.base = res.base /\ res'.head = res.head
      BY <1>2, <2>1 DEF TakenInCollided, Resolution
    <2> QED
      BY <1>2, <2>1, <2>2, EndShape DEF TakenInCollided, TypeOK, CommitsNamed
  <1>3. CASE TakenIn
    <2>1. res \in Resolution /\ res.base <= HeadCommit /\ res.head <= HeadCommit
      BY <1>3 DEF TakenIn, StepsHold, CommitsNamed
    <2>2. /\ cand \in CandidateType /\ cand.head \in Nat /\ cand.head <= HeadCommit
          /\ HeadOfCandidate \in Tree /\ cand.reviewed \in {None} \cup Tree /\ cand.sent \in Nat
      <3>1. cand \in CandidateType /\ cand.head <= HeadCommit
        BY <1>3 DEF TakenIn, StepsHold, CommitsNamed, CandidateSteps
      <3> QED
        BY <3>1, ComparedAreTrees DEF CandidateType
    <2>3. res' = [res EXCEPT !.reviewed = cand.reviewed]
      BY <1>3 DEF TakenIn
    <2>4. /\ res' \in Resolution /\ res'.base = res.base /\ res'.head = res.head
      BY <2>1, <2>2, <2>3 DEF Resolution
    <2>5. named' \in Base /\ named'.commit <= HeadCommit /\ pass' \in Nat
      BY <1>3, <2>2 DEF TakenIn, Base
    <2> QED
      BY <1>3, <2>1, <2>4, <2>5 DEF TakenIn, TypeOK, CommitsNamed, StepsHold, Goto, ghosts,
         Steps, HeadCommit, CandidateSteps, RequestSteps
  <1>4. CASE RaiseRound
    <2>1. /\ res' \in {None} \cup Resolution
          /\ res' # None => res'.base <= HeadCommit /\ res'.head <= HeadCommit
      <3>1. CASE res = None
        BY <1>4, <3>1 DEF RaiseRound
      <3>2. CASE res # None
        <4>1. res' = [res EXCEPT !.round = @ + 1] /\ res \in Resolution
          BY <1>4, <3>2 DEF RaiseRound, TypeOK
        <4> QED
          BY <3>2, <4>1 DEF CommitsNamed, Resolution
      <3> QED
        BY <3>1, <3>2
    <2> QED
      BY <1>4, <2>1 DEF RaiseRound, TypeOK, CommitsNamed, StepsHold, Goto, runData, ghosts,
         Steps, HeadCommit, CandidateSteps, RequestSteps
  <1>5. CASE PrepareAgain
    <2>1. /\ req \in RequestType /\ req.origin \in Nat /\ req.origin <= HeadCommit
          /\ req.reference \in Tree /\ HeadCommit \in Nat
      BY <1>5, HeadIsNamed DEF PrepareAgain, StepsHold, CommitsNamed, RequestSteps, RequestType
    <2> DEFINE candidate == NewCandidate(req.origin, req.reference, HeadCommit, TRUE, "end", 0, None)
    <2>2. Prepared(candidate, req.origin, HeadCommit)
      BY <2>1, NewCandidateType
    <2>3. Prepare(candidate)
      BY <1>5 DEF PrepareAgain
    <2> HIDE DEF candidate
    <2> QED
      BY <1>5, <2>1, <2>2, <2>3, PrepareShape DEF PrepareAgain, Prepared
  <1> QED
    BY <1>1, <1>2, <1>3, <1>4, <1>5

\* Every step of a publication keeps the shape.
LEMMA PublicationShape ==
  ASSUME ShapeInv, Publication
  PROVE  ShapeInv'
  <1>1. ASSUME NEW batch \in SUBSET Paths, SendBatch(batch)
        PROVE  ShapeInv'
    BY <1>1, SendBatchShape
  <1> QED
    BY <1>1, PublishStepsShape, SendStepsShape, RefusedShape DEF Publication

-----------------------------------------------------------------------------
(* The overwrite and the discard. *)

\* Every step of an overwrite keeps the shape.
LEMMA OverwriteShape ==
  ASSUME ShapeInv, Overwrite
  PROVE  ShapeInv'
  <1> USE DEF ShapeInv
  <1>0. pc \in {"oversnap", "overwrite", "overwritten"} =>
           /\ cand \in CandidateType /\ cand.base <= HeadCommit /\ cand.head <= HeadCommit
           /\ cand.target \in [Paths -> Entry]
    BY DEF StepsHold, CommitsNamed, CandidateSteps, CandidateType
  <1>1. CASE OverwriteStale
    BY <1>1, EndShape DEF OverwriteStale, TypeOK, CommitsNamed, diskVars
  <1>2. CASE OverwriteSnapshot
    <2>1. KeptSnapshot \in [Paths -> Entry]
      BY DEF TypeOK, KeptSnapshot, Nothing, Entry
    <2>2. \A p \in Paths : Prior(p) \in Entry
      BY <1>2 DEF OverwriteSnapshot, StepsHold, TypeOK, Prior, Tree, Entry
    <2>3. snap' \in [Paths -> Entry] /\ stood' \in [Paths -> Entry]
      BY <1>2, <2>1, <2>2 DEF OverwriteSnapshot, TypeOK, Nothing, Entry
    <2> QED
      BY <1>0, <1>2, <2>3 DEF OverwriteSnapshot, TypeOK, CommitsNamed, StepsHold, Goto,
         Steps, HeadCommit, CandidateSteps, RequestSteps, Targets
  <1>3. ASSUME NEW p \in Paths, OverwriteTouches(p)
        PROVE  ShapeInv'
    <2>1. cand.target[p] \in Content
      BY <1>0, <1>3 DEF OverwriteTouches, StepsHold, Targets, Entry
    <2>2. folder' \in Tree /\ seen' \in [Paths -> SUBSET Content]
      BY <1>3, <2>1, SetFileShape DEF OverwriteTouches
    <2> QED
      BY <1>0, <1>3, <2>2 DEF OverwriteTouches, TypeOK, CommitsNamed, StepsHold, Steps,
         HeadCommit, CandidateSteps, RequestSteps
  <1>4. CASE OverwriteRecords
    <2>1. cand.head \in Nat /\ HeadOfCandidate \in Tree /\ cand.head <= HeadCommit
      BY <1>0, <1>4, ComparedAreTrees DEF OverwriteRecords
    <2>2. base' \in Base /\ base'.commit <= HeadCommit
      BY <1>4, <2>1 DEF OverwriteRecords, TypeOK, CommitsNamed, Base
    <2> QED
      BY <1>0, <1>4, <2>2 DEF OverwriteRecords, TypeOK, CommitsNamed, StepsHold, Goto,
         runData, ghosts, Steps, HeadCommit, CandidateSteps, RequestSteps
  <1>5. CASE OverwriteEnds
    BY <1>5, EndShape DEF OverwriteEnds, TypeOK, CommitsNamed
  <1> QED
    BY <1>1, <1>2, <1>3, <1>4, <1>5 DEF Overwrite

\* Every step of a discard keeps the shape.
LEMMA DiscardShape ==
  ASSUME ShapeInv, Discard
  PROVE  ShapeInv'
  <1> USE DEF ShapeInv
  <1>1. ASSUME NEW p \in Paths, DiscardRestores(p)
        PROVE  ShapeInv'
    <2>1. snap[p] \in Content
      BY <1>1 DEF DiscardRestores, StepsHold, TypeOK, Entry
    <2>2. folder' \in Tree /\ seen' \in [Paths -> SUBSET Content]
      BY <1>1, <2>1, SetFileShape DEF DiscardRestores
    <2> QED
      BY <1>1, <2>2 DEF DiscardRestores, TypeOK, CommitsNamed, StepsHold, Steps, HeadCommit,
         CandidateSteps, RequestSteps
  <1>2. CASE DiscardRestored
    BY <1>2 DEF DiscardRestored, TypeOK, CommitsNamed, StepsHold, Goto, diskVars, runData,
       ghosts, Steps, HeadCommit, CandidateSteps, RequestSteps
  <1> QED
    BY <1>1, <1>2 DEF Discard

(***************************************************************************)
(* Type correctness, for every set of paths and every bound: the model's   *)
(* steps read only records that are there, and every commit number kept on *)
(* disk or carried by a run is one the repository holds.                   *)
(***************************************************************************)
THEOREM ShapeIsInvariant == Spec => []ShapeInv
  <1>1. Init => ShapeInv
    BY InitShape
  <1>2. ShapeInv /\ [Next]_vars => ShapeInv'
    <2> SUFFICES ASSUME ShapeInv, [Next]_vars PROVE ShapeInv'
      OBVIOUS
    <2>1. CASE Next
      BY <2>1, WorldShape, SettleShape, FromResolutionShape, FromHeadShape, CandidateShape,
         PublicationShape, OverwriteShape, DiscardShape DEF Next, RunStep
    <2>2. CASE UNCHANGED vars
      BY <2>2 DEF vars, runVars, ShapeInv, TypeOK, CommitsNamed, StepsHold, diskVars,
         runData, ghosts, HeadCommit, Targets, CandidateSteps, RequestSteps
    <2> QED
      BY <2>1, <2>2
  <1> QED
    BY <1>1, <1>2, PTL DEF Spec

\* Every record and every value carried has the shape its reader relies on.
THEOREM TypeCorrect == Spec => []TypeOK
  BY ShapeIsInvariant, PTL DEF ShapeInv

-----------------------------------------------------------------------------
(* A reviewed resolution owes no write. *)

\* No step records as reviewed a resolution that owes a write.
LEMMA ReviewedStep ==
  ASSUME ShapeInv, ReviewedIsWhole, Next
  PROVE  ReviewedIsWhole'
  <1>1. ASSUME res' = res \/ res' = None
        PROVE  ReviewedIsWhole'
    BY <1>1 DEF ReviewedIsWhole, HasPending
  <1>2. CASE World
    BY <1>1, <1>2 DEF World, UserEdits, UserDeletes, UserResolvesMarkers, OtherCommits, Start, Stop, diskVars
  <1>3. CASE Settle
    BY <1>1, <1>3 DEF Settle, NothingToSettle, SettleLanded, SettleWithoutToken, SettleResumes,
       SettleDrops, LandedKeepsReview, LandedDropsResolution, LandedDropsSnapshots,
       LandedDropsOutbox, diskVars
  <1>4. CASE FromResolution
    <2>1. CASE Continue
      BY <2>1 DEF Continue, Reviewable, ShapeInv, TypeOK, ReviewedIsWhole, HasPending, Resolution
    <2>2. CASE ~Continue
      BY <1>1, <1>4, <2>2 DEF FromResolution, NoResolution, FinishPreparation, Attention,
         ResumeReviewed, OverwriteResolution, diskVars
    <2> QED
      BY <2>1, <2>2
  <1>5. CASE FromHead
    BY <1>1, <1>5 DEF FromHead, OverwritePlans, FolderHoldsHead, HeadIsBase, HeadPastBase, diskVars
  <1>6. CASE Candidate
    <2>1. CASE CandidateResolve
      <3>1. CASE Resolving
        BY <2>1, <3>1 DEF CandidateResolve, ReviewedIsWhole
      <3>2. CASE ~Resolving
        BY <1>1, <2>1, <3>2 DEF CandidateResolve
      <3> QED
        BY <3>1, <3>2
    <2>2. CASE CandidateStands
      BY <2>2 DEF CandidateStands, ShapeInv, TypeOK, Resolution, ReviewedIsWhole, HasPending, Nothing
    <2>3. CASE CandidatePlan \/ CandidateMissed \/ CandidateSynced
      BY <1>1, <2>3 DEF CandidatePlan, CandidateMissed, CandidateSynced, diskVars
    <2>4. CASE CandidateReads
      BY <1>1, <2>4 DEF CandidateReads, CandidateStale, CandidateSnapshot, diskVars
    <2>5. ASSUME NEW p \in Paths, CandidateTouches(p)
          PROVE  ReviewedIsWhole'
      BY <1>1, <2>5 DEF CandidateTouches
    <2> QED
      BY <1>6, <2>1, <2>2, <2>3, <2>4, <2>5 DEF Candidate
  <1>7. CASE Publication
    <2>1. CASE PublishChanged
      BY <2>1 DEF PublishChanged, ReviewedElsewhere, ShapeInv, TypeOK, Resolution, ReviewedIsWhole
    <2>2. CASE TakenInCollided
      BY <2>2 DEF TakenInCollided, ShapeInv, StepsHold, Resolution, ReviewedIsWhole, HasPending
    <2>3. CASE TakenIn
      BY <2>3 DEF TakenIn, ShapeInv, StepsHold, Resolution, ReviewedIsWhole, HasPending
    <2>4. CASE RaiseRound
      <3>1. CASE res = None
        BY <1>1, <2>4, <3>1 DEF RaiseRound
      <3>2. CASE res # None
        BY <2>4, <3>2 DEF RaiseRound, ShapeInv, TypeOK, Resolution, ReviewedIsWhole, HasPending
      <3> QED
        BY <3>1, <3>2
    <2>5. CASE \/ PublishUnreviewed \/ PublishStale \/ PublishMarked
               \/ PublishRecords \/ PublishRequest \/ PublishRefused
      BY <1>1, <2>5 DEF PublishUnreviewed, PublishStale, PublishMarked, PublishRecords,
         PublishRequest, PublishRefused, diskVars
    <2>6. CASE \/ SendStale \/ SendConflicts \/ Acknowledged \/ DropOutbox \/ DropResolution
               \/ DropSnapshots \/ TakeInMove \/ PrepareAgain
      BY <1>1, <2>6 DEF SendStale, SendConflicts, Acknowledged, DropOutbox, DropResolution,
         DropSnapshots, TakeInMove, PrepareAgain, diskVars
    <2>7. ASSUME NEW batch, SendBatch(batch)
          PROVE  ReviewedIsWhole'
      BY <1>1, <2>7 DEF SendBatch, diskVars
    <2> QED
      BY <1>7, <2>1, <2>2, <2>3, <2>4, <2>5, <2>6, <2>7 DEF Publication
  <1>8. CASE Overwrite
    BY <1>1, <1>8 DEF Overwrite, OverwriteStale, OverwriteSnapshot, OverwriteTouches,
       OverwriteRecords, OverwriteEnds, diskVars
  <1>9. CASE Discard
    BY <1>1, <1>9 DEF Discard, DiscardRestores, DiscardRestored, diskVars
  <1> QED
    BY <1>2, <1>3, <1>4, <1>5, <1>6, <1>7, <1>8, <1>9 DEF Next, RunStep

\* A resolution recorded as reviewed owes the folder no write, whatever kills,
\* refused sends and commits of others came before: continue_locked publishes
\* no half-written candidate.
THEOREM ReviewedWhole == Spec => []ReviewedIsWhole
  <1>1. Init => ReviewedIsWhole
    BY DEF Init, ReviewedIsWhole
  <1>2. ShapeInv /\ ReviewedIsWhole /\ [Next]_vars => ReviewedIsWhole'
    <2>1. ASSUME ReviewedIsWhole, UNCHANGED vars
          PROVE  ReviewedIsWhole'
      BY <2>1 DEF vars, diskVars, ReviewedIsWhole, HasPending
    <2> QED
      BY <2>1, ReviewedStep
  <1> QED
    BY <1>1, <1>2, ShapeIsInvariant, PTL DEF Spec

-----------------------------------------------------------------------------
(***************************************************************************)
(* The base names only what was committed.  What reaches base.json comes   *)
(* from a commit's tree, or from the run's collection once the last body   *)
(* is answered: a collected file no body carried was left out because the  *)
(* reference already held it, and the reference is the tree of the commit  *)
(* the first body was sent over.  So the invariant follows the files from  *)
(* the base, or the head the publication is named, through the send.       *)
(***************************************************************************)
StoodAt(files, c) == \A p \in Paths : files[p] # NoFile => files[p] = TreeAt(c)[p]

SendHolds ==
    /\ StoodAt(base.files, base.commit)
    /\ named # None => StoodAt(named.files, named.commit)
    /\ pc = "request" /\ named # None => outbox.parent = named.commit
    /\ pc = "send" =>
          \A p \in Paths : coll[p] # NoFile =>
              /\ p \notin req.dels
              /\ p \in req.puts \/ coll[p] = TreeAt(req.parent)[p]
    /\ pc = "acked" => StoodAt(coll, req.parent)

\* Every tree that stood stands still once a commit is appended.
LEMMA TreesStay ==
  ASSUME TypeOK,
         \/ commits' = commits
         \/ \E tree \in Tree, own \in BOOLEAN :
               commits' = Append(commits, [tree |-> tree, own |-> own])
  PROVE  \A c \in Nat : c <= HeadCommit =>
            (IF c = 0 THEN EmptyTree ELSE commits'[c].tree) = TreeAt(c)
  <1>1. CASE commits' = commits
    BY <1>1 DEF TreeAt
  <1>2. ASSUME NEW tree \in Tree, NEW own \in BOOLEAN,
               commits' = Append(commits, [tree |-> tree, own |-> own])
        PROVE  \A c \in Nat : c <= HeadCommit =>
                  (IF c = 0 THEN EmptyTree ELSE commits'[c].tree) = TreeAt(c)
    <2>1. HeadCommit \in Nat /\ \A c \in 1 .. HeadCommit : commits'[c] = commits[c]
      BY <1>2, AppendedCommit
    <2> QED
      BY <2>1 DEF TreeAt
  <1> QED
    BY <1>1, <1>2

\* The files a publication or a preparation reads for a commit stood in it.
LEMMA TreeReadStood ==
  ASSUME SendHolds, NEW c
  PROVE  StoodAt(TreeRead(c), c)
  BY DEF SendHolds, TreeRead, StoodAt

\* A step that appends no commit, sends nothing, and leaves base and named.
LEMMA SendKept ==
  ASSUME SendHolds, UNCHANGED <<commits, base>>, named' \in {named, None},
         pc' \notin {"request", "send", "acked"}
  PROVE  SendHolds'
  BY DEF SendHolds, StoodAt, TreeAt

\* A step that records a commit's own tree as the base.
LEMMA SendRecorded ==
  ASSUME SendHolds, UNCHANGED commits, named' \in {named, None},
         NEW c, base' = [commit |-> c, files |-> TreeAt(c)],
         pc' \notin {"request", "send", "acked"}
  PROVE  SendHolds'
  BY DEF SendHolds, StoodAt, TreeAt

\* The user, the other writers, a start and a kill keep what a send holds.
LEMMA WorldSends ==
  ASSUME ShapeInv, SendHolds, World
  PROVE  SendHolds'
  <1>1. ASSUME NEW p \in Paths, UserEdits(p) \/ UserDeletes(p) \/ UserResolvesMarkers(p)
        PROVE  SendHolds'
    BY <1>1 DEF UserEdits, UserDeletes, UserResolvesMarkers, runVars, runData,
                SendHolds, StoodAt, TreeAt
  <1>2. ASSUME NEW p \in Paths, OtherCommits(p)
        PROVE  SendHolds'
    <2>1. UNCHANGED <<base, outbox, pc, coll, named, req>>
      BY <1>2 DEF OtherCommits, diskVars, runVars, runData
    <2>2. \E tree \in Tree, own \in BOOLEAN :
             commits' = Append(commits, [tree |-> tree, own |-> own])
      <3>1. PICK content \in {{texts + 1}, NoFile} \cup {commits[c].tree[p] : c \in 1 .. HeadCommit} :
               commits' = Append(commits, [tree |-> [TreeAt(HeadCommit) EXCEPT ![p] = content],
                                           own  |-> FALSE])
        BY <1>2 DEF OtherCommits
      <3>2. content \in Content
        BY <3>1, OtherContent DEF ShapeInv
      <3>3. [TreeAt(HeadCommit) EXCEPT ![p] = content] \in Tree
        BY <3>2, HeadIsNamed DEF ShapeInv, Tree
      <3> QED
        BY <3>1, <3>3
    <2>3. \A c \in Nat : c <= HeadCommit =>
             (IF c = 0 THEN EmptyTree ELSE commits'[c].tree) = TreeAt(c)
      BY <2>2, TreesStay DEF ShapeInv
    <2>4. base.commit \in Nat /\ base.commit <= HeadCommit
      BY DEF ShapeInv, TypeOK, CommitsNamed, Base
    <2>5. named # None => named.commit \in Nat /\ named.commit <= HeadCommit
      BY DEF ShapeInv, TypeOK, CommitsNamed, Base
    <2>6. pc \in RequestSteps => req.parent \in Nat /\ req.parent <= HeadCommit
      BY DEF ShapeInv, StepsHold, CommitsNamed, RequestType
    <2> QED
      BY <2>1, <2>3, <2>4, <2>5, <2>6 DEF SendHolds, StoodAt, TreeAt, RequestSteps
  <1>3. ASSUME NEW m \in Modes, Start(m)
        PROVE  SendHolds'
    BY <1>3, SendKept DEF Start, Goto, diskVars
  <1>4. CASE Stop
    BY <1>4, SendKept DEF Stop, EndRun, diskVars
  <1> QED
    BY <1>1, <1>2, <1>3, <1>4 DEF World

\* The steps up to the comparison with the head keep what a send holds.
LEMMA BeforeSends ==
  ASSUME ShapeInv, SendHolds, Settle \/ FromResolution \/ FromHead
  PROVE  SendHolds'
  <1>1. CASE SettleLanded
    BY <1>1, SendRecorded DEF SettleLanded, Goto, runData
  <1>2. CASE SettleResumes
    <2>1. StoodAt(TreeRead(HeadCommit), HeadCommit)
      BY TreeReadStood
    <2>2. /\ named' = [commit |-> HeadCommit, files |-> TreeRead(HeadCommit)]
          /\ pc' = "publish" /\ UNCHANGED <<commits, base>>
      BY <1>2 DEF SettleResumes, Goto, diskVars
    <2> QED
      BY <2>1, <2>2 DEF SendHolds, StoodAt, TreeAt
  <1>3. CASE Settle /\ ~SettleLanded /\ ~SettleResumes
    BY <1>3, SendKept DEF Settle, NothingToSettle, SettleWithoutToken, SettleDrops,
       LandedKeepsReview, LandedDropsResolution, LandedDropsSnapshots, LandedDropsOutbox,
       Goto, diskVars, runData
  <1>4. CASE FromResolution
    BY <1>4, SendKept DEF FromResolution, NoResolution, FinishPreparation, Attention,
       ResumeReviewed, OverwriteResolution, Continue, Prepare, EndRun, Goto, diskVars, runData
  <1>5. CASE FolderHoldsHead
    BY <1>5, SendKept, SendRecorded DEF FolderHoldsHead, EndRun
  <1>6. CASE FromHead /\ ~FolderHoldsHead
    BY <1>6, SendKept DEF FromHead, OverwritePlans, HeadIsBase, HeadPastBase, Prepare, EndRun,
       Goto, diskVars
  <1> QED
    BY <1>1, <1>2, <1>3, <1>4, <1>5, <1>6

\* A preparation, an overwrite and a discard keep what a send holds.
LEMMA CandidateSends ==
  ASSUME ShapeInv, SendHolds, Candidate \/ Overwrite \/ Discard
  PROVE  SendHolds'
  <1>1. CASE CandidateSynced
    BY <1>1, SendKept, SendRecorded DEF CandidateSynced, EndRun, HeadOfCandidate
  <1>2. CASE CandidatePlan \/ CandidateResolve \/ CandidateStands
    BY <1>2, SendKept DEF CandidatePlan, CandidateResolve, CandidateStands, EndRun, Goto, diskVars, runData
  <1>3. CASE CandidateReads \/ CandidateMissed
    BY <1>3, SendKept DEF CandidateReads, CandidateStale, CandidateSnapshot, CandidateMissed,
       NextPass, EndRun, Goto, diskVars
  <1>4. ASSUME NEW p \in Paths, CandidateTouches(p)
        PROVE  SendHolds'
    BY <1>4, SendKept DEF CandidateTouches
  <1>5. CASE OverwriteRecords
    BY <1>5, SendKept, SendRecorded DEF OverwriteRecords, Goto, HeadOfCandidate, runData
  <1>6. CASE Overwrite /\ ~OverwriteRecords
    BY <1>6, SendKept DEF Overwrite, OverwriteStale, OverwriteSnapshot, OverwriteTouches,
       OverwriteEnds, EndRun, Goto, diskVars
  <1>7. CASE Discard
    BY <1>7, SendKept DEF Discard, DiscardRestores, DiscardRestored, Goto, diskVars, runData
  <1> QED
    BY <1>1, <1>2, <1>3, <1>4, <1>5, <1>6, <1>7 DEF Candidate

\* A body taken by the server carries files of the collection into its commit.
LEMMA SendBatchSends ==
  ASSUME ShapeInv, SendHolds, NEW batch, SendBatch(batch)
  PROVE  SendHolds'
  <1> DEFINE last == batch = req.puts
             tree == Pushed(batch, last)
  <1>0. /\ pc = "send" /\ req \in RequestType /\ coll \in Tree
        /\ req.parent = HeadCommit \/ req.parent = 0
        /\ HeadCommit \in Nat /\ batch \subseteq req.puts
    BY HeadIsNamed DEF SendBatch, Batches, Accepts, ShapeInv, StepsHold, RequestSteps
  <1>1. /\ commits' = IF tree = TreeAt(HeadCommit) THEN commits
                      ELSE Append(commits, [tree |-> tree, own |-> TRUE])
        /\ req' = [req EXCEPT !.puts = @ \ batch, !.parent = Len(commits')]
        /\ pc' = IF last THEN "acked" ELSE "send"
        /\ UNCHANGED <<base, outbox, coll, named>>
    BY DEF SendBatch, Goto, diskVars
  <1>2. tree \in Tree
    BY <1>0, HeadIsNamed DEF ShapeInv, Pushed, Tree, Content
  <1>3. /\ \A p \in batch : tree[p] = coll[p]
        /\ \A p \in Paths : coll[p] # NoFile /\ p \notin req.puts => tree[p] = coll[p]
    <2>1. \A p \in batch : tree[p] = coll[p]
      <3>1. batch \subseteq Paths
        BY <1>0 DEF RequestType
      <3> QED
        BY <1>0, <3>1 DEF Pushed, SendHolds
    <2>2. ASSUME NEW p \in Paths, coll[p] # NoFile, p \notin req.puts
          PROVE  tree[p] = coll[p]
      <3>1. coll[p] = TreeAt(req.parent)[p]
        BY <1>0, <2>2 DEF SendHolds
      <3>2. req.parent # 0
        BY <2>2, <3>1 DEF TreeAt, EmptyTree
      <3>3. p \notin batch /\ p \notin req.dels
        BY <1>0, <2>2 DEF SendHolds
      <3> QED
        BY <1>0, <3>1, <3>2, <3>3 DEF Pushed
    <2> QED
      BY <2>1, <2>2
  <1> HIDE DEF tree
  <1>4. (IF Len(commits') = 0 THEN EmptyTree ELSE commits'[Len(commits')].tree) = tree
    <2>1. CASE tree = TreeAt(HeadCommit)
      BY <1>1, <2>1 DEF TreeAt, HeadCommit
    <2>2. CASE tree # TreeAt(HeadCommit)
      <3>1. commits' = Append(commits, [tree |-> tree, own |-> TRUE])
        BY <1>1, <2>2
      <3>2. Len(commits') = HeadCommit + 1 /\ commits'[HeadCommit + 1].tree = tree
        BY <1>2, <3>1, AppendedCommit DEF ShapeInv
      <3> QED
        BY <1>0, <3>2
    <2> QED
      BY <2>1, <2>2
  <1>5. \A c \in Nat : c <= HeadCommit =>
           (IF c = 0 THEN EmptyTree ELSE commits'[c].tree) = TreeAt(c)
    BY <1>1, <1>2, TreesStay DEF ShapeInv
  <1>6. StoodAt(base.files, base.commit)'
    <2>1. base.commit \in Nat /\ base.commit <= HeadCommit
      BY DEF ShapeInv, TypeOK, CommitsNamed, Base
    <2> QED
      BY <1>1, <1>5, <2>1 DEF SendHolds, StoodAt, TreeAt
  <1>7. (named # None => StoodAt(named.files, named.commit))'
    <2>1. named # None => named.commit \in Nat /\ named.commit <= HeadCommit
      BY DEF ShapeInv, TypeOK, CommitsNamed, Base
    <2> QED
      BY <1>1, <1>5, <2>1 DEF SendHolds, StoodAt, TreeAt
  <1>8. /\ req'.parent = Len(commits') /\ req'.puts = req.puts \ batch /\ req'.dels = req.dels
    BY <1>0, <1>1 DEF RequestType
  <1>9. CASE last
    <2>1. pc' = "acked" /\ \A p \in Paths : coll[p] # NoFile => tree[p] = coll[p]
      BY <1>1, <1>3, <1>9
    <2>2. StoodAt(coll, req.parent)'
      BY <1>1, <1>4, <1>8, <2>1 DEF StoodAt, TreeAt
    <2> QED
      BY <1>6, <1>7, <2>1, <2>2 DEF SendHolds
  <1>10. CASE ~last
    <2>1. pc' = "send"
      BY <1>1, <1>10
    <2>2. \A p \in Paths : coll'[p] # NoFile =>
              /\ p \notin req'.dels
              /\ p \in req'.puts \/ coll'[p] = TreeAt(req.parent)'[p]
      BY <1>0, <1>1, <1>3, <1>4, <1>8 DEF SendHolds, TreeAt
    <2> QED
      BY <1>6, <1>7, <2>1, <2>2 DEF SendHolds
  <1> QED
    BY <1>9, <1>10

\* Every step of a publication keeps what a send holds.
LEMMA PublicationSends ==
  ASSUME ShapeInv, SendHolds, Publication
  PROVE  SendHolds'
  <1>1. CASE PublishRecords
    <2>1. /\ pc' = "request" /\ outbox'.parent = Parent
          /\ UNCHANGED <<commits, base, named>>
      BY <1>1 DEF PublishRecords, Goto
    <2> QED
      BY <2>1 DEF SendHolds, StoodAt, TreeAt, Parent
  <1>2. CASE PublishRequest
    <2> DEFINE tree == IF named # None THEN named.files ELSE TreeRead(outbox.parent)
               reference == Without(tree, ExcludedOnDisk(coll))
    <2>1. /\ pc = "request" /\ pc' = "send" /\ coll \in Tree
          /\ UNCHANGED <<commits, base, named, coll>>
      BY <1>2 DEF PublishRequest, ShapeInv, StepsHold, Goto, diskVars
    <2>2. StoodAt(tree, outbox.parent)
      BY <2>1, TreeReadStood DEF SendHolds
    <2>3. /\ req'.parent = outbox.parent
          /\ req'.puts = {p \in Changed(reference, coll) : coll[p] # NoFile}
          /\ req'.dels = {p \in Changed(reference, coll) : coll[p] = NoFile}
      BY <1>2 DEF PublishRequest, Request
    <2> HIDE DEF tree
    <2>4. \A p \in Paths : coll[p] # NoFile =>
             p \notin req'.dels /\ (p \in req'.puts \/ coll[p] = TreeAt(outbox.parent)[p])
      BY <2>2, <2>3 DEF Changed, Without, ExcludedOnDisk, StoodAt
    <2> QED
      BY <2>1, <2>3, <2>4 DEF SendHolds, StoodAt, TreeAt
  <1>3. ASSUME NEW batch, SendBatch(batch)
        PROVE  SendHolds'
    BY <1>3, SendBatchSends
  <1>4. CASE Acknowledged
    <2>1. /\ pc = "acked" /\ pc' = "drop_outbox" /\ base' = [commit |-> req.parent, files |-> coll]
          /\ UNCHANGED <<commits, named>>
      BY <1>4 DEF Acknowledged, PublishedBase, Goto, runData
    <2> QED
      BY <2>1 DEF SendHolds, StoodAt, TreeAt
  <1>5. CASE TakenIn
    <2>1. /\ named' = [commit |-> cand.head, files |-> HeadOfCandidate] /\ pc' = "publish"
          /\ UNCHANGED <<commits, base>>
      BY <1>5 DEF TakenIn, Goto
    <2> QED
      BY <2>1 DEF SendHolds, StoodAt, TreeAt, HeadOfCandidate
  <1>6. CASE PublishChanged \/ PublishUnreviewed \/ PublishStale \/ PublishMarked \/ PublishRefused
    BY <1>6, SendKept DEF PublishChanged, PublishUnreviewed, PublishStale, PublishMarked,
       PublishRefused, NextPublication, EndRun, Goto, diskVars, runData
  <1>7. CASE SendStale \/ SendConflicts \/ DropOutbox \/ DropResolution \/ DropSnapshots
    BY <1>7, SendKept DEF SendStale, SendConflicts, DropOutbox, DropResolution, DropSnapshots,
       NextPublication, EndRun, Goto, runData
  <1>8. CASE TakeInMove \/ TakenInCollided \/ RaiseRound \/ PrepareAgain
    BY <1>8, SendKept DEF TakeInMove, TakenInCollided, RaiseRound, PrepareAgain, Prepare, EndRun,
       Goto, diskVars, runData
  <1> QED
    BY <1>1, <1>2, <1>3, <1>4, <1>5, <1>6, <1>7, <1>8 DEF Publication

\* What a send, a base and a named head hold, as an invariant of its own.
LEMMA SendHoldsIsInvariant == Spec => []SendHolds
  <1>1. Init => SendHolds
    BY DEF Init, SendHolds, StoodAt, TreeAt, NoBase, EmptyTree
  <1>2. ShapeInv /\ SendHolds /\ [Next]_vars => SendHolds'
    <2>1. ASSUME SendHolds, UNCHANGED vars
          PROVE  SendHolds'
      BY <2>1 DEF vars, diskVars, runVars, runData, SendHolds, StoodAt, TreeAt
    <2>2. ASSUME ShapeInv, SendHolds, Next
          PROVE  SendHolds'
      BY <2>2, WorldSends, BeforeSends, CandidateSends, PublicationSends DEF Next, RunStep
    <2> QED
      BY <2>1, <2>2
  <1> QED
    BY <1>1, <1>2, ShapeIsInvariant, PTL DEF Spec

\* The base names a commit the repository holds and only files that stood in
\* it, whatever files appear while a run holds the lock and whatever the run
\* was killed in the middle of: no later run takes for converged a file that
\* never was committed.
THEOREM BaseCommitted == Spec => []BaseNamesCommitted
  <1>1. ShapeInv /\ SendHolds => BaseNamesCommitted
    BY DEF ShapeInv, CommitsNamed, SendHolds, StoodAt, BaseNamesCommitted
  <1> QED
    BY <1>1, ShapeIsInvariant, SendHoldsIsInvariant, PTL

-----------------------------------------------------------------------------
(***************************************************************************)
(* What a publication commits: where no file is created while a run is     *)
(* under way, the tree reviewed, a base that is the whole tree of its      *)
(* commit, and every text of the user's kept; and, whatever is created, no *)
(* conflict marker a run wrote.                                            *)
(*                                                                         *)
(* What stands above follows the files a collection holds; the first two   *)
(* of these need those it lacks.  Such a path is deleted by the            *)
(* publication's last body, or stood in no tree the reference was read     *)
(* from, or was passed over by a body that claimed no parent, for which no *)
(* tree was read.                                                          *)
(***************************************************************************)

(***************************************************************************)
(* No file stands behind a collection, while its run rewrites no file: so  *)
(* a comparison leaves no path out, and a reference is a whole tree.       *)
(***************************************************************************)
Rewriting == {"touch", "takenin", "overwrite", "overwritten", "discard"}

NoneBehind ==
    /\ pc \in {"idle", "discard"} => coll = None
    /\ (coll # None /\ pc \notin Rewriting) \/ pc = "request" =>
          \A p \in Paths : coll[p] = NoFile => folder[p] = NoFile

\* A step that leaves the folder alone, and the collection too or drops it.
LEMMA BehindKept ==
  ASSUME NoneBehind, folder' = folder, coll' \in {None, coll, folder, Collected},
         pc \in Rewriting => pc' \in Rewriting \/ coll' = None,
         pc' \in {"idle", "discard"} => coll' = None,
         pc' = "request" => coll' = Collected /\ pc \notin Rewriting
  PROVE  NoneBehind'
  BY DEF NoneBehind, Collected, Rewriting

\* The user creates no file behind a run, and nobody else touches the folder.
LEMMA WorldBehind ==
  ASSUME TypeOK, LateFiles = FALSE, NoneBehind, World
  PROVE  NoneBehind'
  <1>1. ASSUME NEW p \in Paths, UserEdits(p) \/ UserDeletes(p) \/ UserResolvesMarkers(p)
        PROVE  NoneBehind'
    <2>1. pc' = pc /\ coll' = coll
      BY <1>1 DEF UserEdits, UserDeletes, UserResolvesMarkers, runVars, runData
    <2>2. /\ \A q \in Paths : q # p => folder'[q] = folder[q]
          /\ folder[p] = NoFile => pc = "idle" \/ folder'[p] = NoFile
      BY <1>1 DEF UserEdits, UserDeletes, UserResolvesMarkers, SetFile, HoldsMarker, TypeOK, Tree
    <2> QED
      BY <2>1, <2>2 DEF NoneBehind
  <1>2. ASSUME NEW p \in Paths, OtherCommits(p)
        PROVE  NoneBehind'
    BY <1>2 DEF OtherCommits, diskVars, runVars, runData, NoneBehind
  <1>3. ASSUME NEW m \in Modes, Start(m)
        PROVE  NoneBehind'
    BY <1>3 DEF Start, Goto, diskVars, NoneBehind, Rewriting
  <1>4. CASE Stop
    BY <1>4, BehindKept DEF Stop, EndRun, diskVars
  <1> QED
    BY <1>1, <1>2, <1>3, <1>4 DEF World

\* A run's own steps leave no file behind its collection.
LEMMA RunBehind ==
  ASSUME NoneBehind, RunStep
  PROVE  NoneBehind'
  <1>1. CASE Settle
    BY <1>1, BehindKept DEF Settle, NothingToSettle, SettleLanded, SettleWithoutToken,
       SettleResumes, SettleDrops, LandedKeepsReview, LandedDropsResolution,
       LandedDropsSnapshots, LandedDropsOutbox, Goto, diskVars, runData, Rewriting
  <1>2. CASE FromResolution
    BY <1>2, BehindKept DEF FromResolution, NoResolution, FinishPreparation, Attention,
       ResumeReviewed, OverwriteResolution, Continue, Prepare, EndRun, Goto, diskVars, runData,
       Rewriting
  <1>3. CASE FromHead
    BY <1>3, BehindKept DEF FromHead, OverwritePlans, FolderHoldsHead, HeadIsBase, HeadPastBase,
       Prepare, EndRun, Goto, diskVars, Rewriting
  <1>4. CASE Candidate
    <2>1. CASE CandidatePlan \/ CandidateResolve
      BY <2>1, BehindKept DEF CandidatePlan, CandidateResolve, Goto, diskVars, Rewriting
    <2>2. CASE CandidateReads \/ CandidateMissed
      BY <2>2, BehindKept DEF CandidateReads, CandidateStale, CandidateSnapshot,
         CandidateMissed, NextPass, EndRun, Goto, diskVars, Rewriting
    <2>3. ASSUME NEW p \in Paths, CandidateTouches(p)
          PROVE  NoneBehind'
      BY <2>3 DEF CandidateTouches, NoneBehind, Rewriting
    <2>4. CASE CandidateSynced \/ CandidateStands
      BY <2>4, BehindKept DEF CandidateSynced, CandidateStands, EndRun, Goto, runData, Rewriting
    <2> QED
      BY <1>4, <2>1, <2>2, <2>3, <2>4 DEF Candidate
  <1>5. CASE Publication
    <2>1. CASE PublishChanged \/ PublishUnreviewed \/ PublishStale \/ PublishMarked
      BY <2>1, BehindKept DEF PublishChanged, PublishUnreviewed, PublishStale, PublishMarked,
         NextPublication, EndRun, Goto, diskVars, runData, Rewriting
    <2>2. CASE PublishRecords \/ PublishRequest \/ PublishRefused
      BY <2>2, BehindKept DEF PublishRecords, PublishRequest, PublishRefused, EndRun, Goto,
         diskVars, Rewriting
    <2>3. ASSUME NEW batch, SendBatch(batch)
          PROVE  NoneBehind'
      BY <2>3, BehindKept DEF SendBatch, Goto, diskVars, Rewriting
    <2>4. CASE SendStale \/ SendConflicts \/ Acknowledged
      BY <2>4, BehindKept DEF SendStale, SendConflicts, Acknowledged, NextPublication, EndRun,
         Goto, runData, Rewriting
    <2>5. CASE DropOutbox \/ DropResolution \/ DropSnapshots
      BY <2>5, BehindKept DEF DropOutbox, DropResolution, DropSnapshots, EndRun, Goto, runData,
         Rewriting
    <2>6. CASE TakeInMove \/ TakenInCollided \/ TakenIn \/ RaiseRound \/ PrepareAgain
      BY <2>6, BehindKept DEF TakeInMove, TakenInCollided, TakenIn, RaiseRound, PrepareAgain,
         Prepare, EndRun, Goto, diskVars, runData, Rewriting
    <2> QED
      BY <1>5, <2>1, <2>2, <2>3, <2>4, <2>5, <2>6 DEF Publication
  <1>6. CASE Overwrite
    <2>1. ASSUME NEW p \in Paths, OverwriteTouches(p)
          PROVE  NoneBehind'
      BY <2>1 DEF OverwriteTouches, NoneBehind, Rewriting
    <2>2. CASE OverwriteStale \/ OverwriteSnapshot \/ OverwriteRecords \/ OverwriteEnds
      BY <2>2, BehindKept DEF OverwriteStale, OverwriteSnapshot, OverwriteRecords, OverwriteEnds,
         EndRun, Goto, diskVars, runData, Rewriting
    <2> QED
      BY <1>6, <2>1, <2>2 DEF Overwrite
  <1>7. CASE Discard
    <2>1. ASSUME NEW p \in Paths, DiscardRestores(p)
          PROVE  NoneBehind'
      BY <2>1 DEF DiscardRestores, NoneBehind, Rewriting
    <2>2. CASE DiscardRestored
      BY <2>2, BehindKept DEF DiscardRestored, Goto, diskVars, runData, Rewriting, NoneBehind
    <2> QED
      BY <1>7, <2>1, <2>2 DEF Discard
  <1> QED
    BY <1>1, <1>2, <1>3, <1>4, <1>5, <1>6, <1>7 DEF RunStep
-----------------------------------------------------------------------------
(***************************************************************************)
(* Files whose absence is accounted for at a commit: it holds no file at   *)
(* the path either, or a body claiming no parent passed that file over.    *)
(***************************************************************************)
Passed(p, c) == TreeAt(c)[p] = NoFile \/ StoodUnread(p, c)

LackedAt(files, c) == \A p \in Paths : files[p] = NoFile => Passed(p, c)

SendCovers ==
    /\ blind \subseteq 0 .. HeadCommit
    /\ LackedAt(base.files, base.commit)
    /\ named # None => LackedAt(named.files, named.commit)
    /\ pc = "send" =>
          \A p \in Paths : coll[p] = NoFile =>
              p \in req.dels \/ req.parent = 0 \/ Passed(p, req.parent)
    /\ pc = "acked" => LackedAt(coll, req.parent)
    /\ pc \in {"request", "send", "acked"} /\ res # None => res.reviewed = coll

\* What is passed over stays so as commits are appended.
LEMMA PassedStays ==
  ASSUME blind \subseteq 0 .. HeadCommit, HeadCommit \in Nat, blind \subseteq blind',
         \A k \in Nat : k <= HeadCommit => TreeAt(k)' = TreeAt(k),
         NEW p \in Paths, NEW c \in Nat, c <= HeadCommit, Passed(p, c)
  PROVE  TreeAt(c)'[p] = NoFile \/ \E head \in blind' : TreeAt(head)'[p] = TreeAt(c)'[p]
  <1>1. TreeAt(c)' = TreeAt(c)
    OBVIOUS
  <1>2. CASE StoodUnread(p, c)
    <2>1. PICK head \in blind : TreeAt(head)[p] = TreeAt(c)[p]
      BY <1>2 DEF StoodUnread
    <2>2. head \in Nat /\ head <= HeadCommit
      BY <2>1
    <2>3. TreeAt(head)' = TreeAt(head)
      BY <2>2
    <2> QED
      BY <1>1, <2>1, <2>3
  <1> QED
    BY <1>1, <1>2 DEF Passed
\* The tree at a commit lacks no file of it, so none is passed over.
LEMMA TreeLacksNothing ==
  ASSUME NEW c
  PROVE  LackedAt(TreeAt(c), c)
  BY DEF LackedAt, Passed

\* The files a publication or a preparation reads for a commit.
LEMMA TreeReadLacks ==
  ASSUME SendCovers, NEW c
  PROVE  LackedAt(TreeRead(c), c)
  BY TreeLacksNothing DEF SendCovers, TreeRead

\* A step that appends no commit, sends nothing, and leaves base and named.
LEMMA CoverKept ==
  ASSUME SendCovers, UNCHANGED <<commits, base, blind>>, named' \in {named, None},
         pc' \notin {"request", "send", "acked"}
  PROVE  SendCovers'
  BY DEF SendCovers, LackedAt, Passed, StoodUnread, TreeAt, HeadCommit

\* A step that records a commit's own tree as the base.
LEMMA CoverRecorded ==
  ASSUME SendCovers, UNCHANGED <<commits, blind>>, named' \in {named, None},
         NEW c, base' = [commit |-> c, files |-> TreeAt(c)],
         pc' \notin {"request", "send", "acked"}
  PROVE  SendCovers'
  BY DEF SendCovers, LackedAt, Passed, StoodUnread, TreeAt, HeadCommit

\* The user, the other writers, a start and a kill.
LEMMA WorldCovers ==
  ASSUME ShapeInv, SendCovers, World
  PROVE  SendCovers'
  <1>1. ASSUME NEW p \in Paths, UserEdits(p) \/ UserDeletes(p) \/ UserResolvesMarkers(p)
        PROVE  SendCovers'
    <2>1. UNCHANGED <<commits, base, res, pc, coll, named, req, blind>>
      BY <1>1 DEF UserEdits, UserDeletes, UserResolvesMarkers, runVars, runData
    <2> QED
      BY <2>1 DEF SendCovers, LackedAt, Passed, StoodUnread, TreeAt, HeadCommit
  <1>2. ASSUME NEW p \in Paths, OtherCommits(p)
        PROVE  SendCovers'
    <2>1. UNCHANGED <<base, res, pc, coll, named, req, blind>>
      BY <1>2 DEF OtherCommits, diskVars, runVars, runData
    <2>2. PICK tree \in Tree : commits' = Append(commits, [tree |-> tree, own |-> FALSE])
      <3>1. PICK content \in {{texts + 1}, NoFile} \cup {commits[c].tree[p] : c \in 1 .. HeadCommit} :
               commits' = Append(commits, [tree |-> [TreeAt(HeadCommit) EXCEPT ![p] = content],
                                           own  |-> FALSE])
        BY <1>2 DEF OtherCommits
      <3>2. content \in Content
        BY <3>1, OtherContent DEF ShapeInv
      <3>3. [TreeAt(HeadCommit) EXCEPT ![p] = content] \in Tree
        BY <3>2, HeadIsNamed DEF ShapeInv, Tree
      <3> QED
        BY <3>1, <3>3
    <2>3. /\ \A k \in Nat : k <= HeadCommit => TreeAt(k)' = TreeAt(k)
          /\ HeadCommit \in Nat /\ HeadCommit' = HeadCommit + 1
      BY <2>2, TreesStay, AppendedCommit DEF ShapeInv, TreeAt
    <2>4. ASSUME NEW q \in Paths, NEW c \in Nat, c <= HeadCommit, Passed(q, c)
          PROVE  TreeAt(c)'[q] = NoFile \/ \E head \in blind' : TreeAt(head)'[q] = TreeAt(c)'[q]
      BY <2>1, <2>3, <2>4, PassedStays DEF SendCovers
    <2>5. blind' \subseteq 0 .. HeadCommit'
      BY <2>1, <2>3 DEF SendCovers
    <2>6. LackedAt(base.files, base.commit)'
      <3>1. base.commit \in Nat /\ base.commit <= HeadCommit
        BY DEF ShapeInv, TypeOK, CommitsNamed, Base
      <3> QED
        BY <2>1, <2>4, <3>1 DEF SendCovers, LackedAt, Passed, StoodUnread
    <2>7. (named # None => LackedAt(named.files, named.commit))'
      <3>1. named # None => named.commit \in Nat /\ named.commit <= HeadCommit
        BY DEF ShapeInv, TypeOK, CommitsNamed, Base
      <3> QED
        BY <2>1, <2>4, <3>1 DEF SendCovers, LackedAt, Passed, StoodUnread
    <2>8. pc \in RequestSteps => req.parent \in Nat /\ req.parent <= HeadCommit
      BY DEF ShapeInv, StepsHold, CommitsNamed, RequestType
    <2>9. pc' = "send" =>
             \A q \in Paths : coll'[q] = NoFile =>
                 q \in req'.dels \/ req'.parent = 0 \/ Passed(q, req.parent)'
      BY <2>1, <2>4, <2>8 DEF SendCovers, Passed, StoodUnread, RequestSteps
    <2>10. (pc = "acked" => LackedAt(coll, req.parent))'
      BY <2>1, <2>4, <2>8 DEF SendCovers, LackedAt, Passed, StoodUnread, RequestSteps
    <2> QED
      BY <2>1, <2>5, <2>6, <2>7, <2>9, <2>10 DEF SendCovers
  <1>3. ASSUME NEW m \in Modes, Start(m)
        PROVE  SendCovers'
    BY <1>3, CoverKept DEF Start, Goto, diskVars
  <1>4. CASE Stop
    BY <1>4, CoverKept DEF Stop, EndRun, diskVars
  <1> QED
    BY <1>1, <1>2, <1>3, <1>4 DEF World

\* The steps up to the comparison with the head.
LEMMA BeforeCovers ==
  ASSUME SendCovers, Settle \/ FromResolution \/ FromHead
  PROVE  SendCovers'
  <1>1. CASE SettleLanded
    BY <1>1, CoverRecorded DEF SettleLanded, Goto, runData, ghosts
  <1>2. CASE SettleResumes
    <2>1. /\ named' = [commit |-> HeadCommit, files |-> TreeRead(HeadCommit)]
          /\ pc' = "publish" /\ UNCHANGED <<commits, base, blind>>
      BY <1>2 DEF SettleResumes, Goto, diskVars, ghosts
    <2>2. LackedAt(TreeRead(HeadCommit), HeadCommit)
      BY TreeReadLacks
    <2>3. (named # None => LackedAt(named.files, named.commit))'
      BY <2>1, <2>2 DEF LackedAt, Passed, StoodUnread, TreeAt
    <2>4. LackedAt(base.files, base.commit)' /\ blind' \subseteq 0 .. HeadCommit'
      BY <2>1 DEF SendCovers, LackedAt, Passed, StoodUnread, TreeAt, HeadCommit
    <2> QED
      BY <2>1, <2>3, <2>4 DEF SendCovers
  <1>3. CASE Settle /\ ~SettleLanded /\ ~SettleResumes
    BY <1>3, CoverKept DEF Settle, NothingToSettle, SettleWithoutToken, SettleDrops,
       LandedKeepsReview, LandedDropsResolution, LandedDropsSnapshots, LandedDropsOutbox,
       Goto, diskVars, runData, ghosts
  <1>4. CASE FromResolution
    BY <1>4, CoverKept DEF FromResolution, NoResolution, FinishPreparation, Attention,
       ResumeReviewed, OverwriteResolution, Continue, Prepare, EndRun, Goto, diskVars, runData,
       ghosts
  <1>5. CASE FolderHoldsHead
    BY <1>5, CoverKept, CoverRecorded DEF FolderHoldsHead, EndRun, ghosts
  <1>6. CASE FromHead /\ ~FolderHoldsHead
    BY <1>6, CoverKept DEF FromHead, OverwritePlans, HeadIsBase, HeadPastBase, Prepare, EndRun,
       Goto, diskVars, ghosts
  <1> QED
    BY <1>1, <1>2, <1>3, <1>4, <1>5, <1>6
\* A preparation, an overwrite and a discard.
LEMMA CandidateCovers ==
  ASSUME SendCovers, Candidate \/ Overwrite \/ Discard
  PROVE  SendCovers'
  <1>1. CASE CandidateSynced
    BY <1>1, CoverKept, CoverRecorded DEF CandidateSynced, EndRun, HeadOfCandidate, ghosts
  <1>2. CASE CandidatePlan \/ CandidateResolve \/ CandidateStands
    BY <1>2, CoverKept DEF CandidatePlan, CandidateResolve, CandidateStands, EndRun, Goto,
       diskVars, runData, ghosts
  <1>3. CASE CandidateReads \/ CandidateMissed
    BY <1>3, CoverKept DEF CandidateReads, CandidateStale, CandidateSnapshot, CandidateMissed,
       NextPass, EndRun, Goto, diskVars, ghosts
  <1>4. ASSUME NEW p \in Paths, CandidateTouches(p)
        PROVE  SendCovers'
    BY <1>4, CoverKept DEF CandidateTouches
  <1>5. CASE OverwriteRecords
    BY <1>5, CoverKept, CoverRecorded DEF OverwriteRecords, Goto, HeadOfCandidate, runData, ghosts
  <1>6. CASE Overwrite /\ ~OverwriteRecords
    BY <1>6, CoverKept DEF Overwrite, OverwriteStale, OverwriteSnapshot, OverwriteTouches,
       OverwriteEnds, EndRun, Goto, diskVars, ghosts
  <1>7. CASE Discard
    BY <1>7, CoverKept DEF Discard, DiscardRestores, DiscardRestored, Goto, diskVars, runData,
       ghosts
  <1> QED
    BY <1>1, <1>2, <1>3, <1>4, <1>5, <1>6, <1>7 DEF Candidate

\* A body taken by the server: what it does not delete it passes over.
LEMMA SendBatchCovers ==
  ASSUME ShapeInv, SendCovers, NEW batch, SendBatch(batch)
  PROVE  SendCovers'
  <1> DEFINE last == batch = req.puts
             tree == Pushed(batch, last)
  <1>0. /\ pc = "send" /\ req \in RequestType /\ coll \in Tree
        /\ req.parent = HeadCommit \/ req.parent = 0
        /\ HeadCommit \in Nat
    BY HeadIsNamed DEF SendBatch, Accepts, ShapeInv, StepsHold, RequestSteps
  <1>1. /\ commits' = IF tree = TreeAt(HeadCommit) THEN commits
                      ELSE Append(commits, [tree |-> tree, own |-> TRUE])
        /\ req' = [req EXCEPT !.puts = @ \ batch, !.parent = Len(commits')]
        /\ pc' = IF last THEN "acked" ELSE "send"
        /\ blind' = IF req.parent = 0 THEN blind \cup {HeadCommit} ELSE blind
        /\ UNCHANGED <<base, res, coll, named>>
    BY DEF SendBatch, Goto, diskVars
  <1>2. tree \in Tree
    BY <1>0, HeadIsNamed DEF ShapeInv, Pushed, Tree, Content
  <1>3. ASSUME NEW p \in Paths, coll[p] = NoFile, ~(last /\ p \in req.dels)
        PROVE  tree[p] = NoFile \/ tree[p] = TreeAt(HeadCommit)[p]
    BY <1>0, <1>3 DEF Pushed
  <1>4. ASSUME NEW p \in Paths, coll[p] = NoFile, last, p \in req.dels
        PROVE  tree[p] = NoFile
    BY <1>0, <1>4 DEF Pushed
  <1> HIDE DEF tree, last
  <1>5. req'.parent = Len(commits') /\ req'.dels = req.dels
    BY <1>0, <1>1 DEF RequestType
  <1>6. TreeAt(req.parent)' = tree /\ HeadCommit <= HeadCommit' /\ HeadCommit' \in Nat
    <2>1. CASE tree = TreeAt(HeadCommit)
      BY <1>0, <1>1, <1>5, <2>1 DEF TreeAt, HeadCommit
    <2>2. CASE tree # TreeAt(HeadCommit)
      <3>1. commits' = Append(commits, [tree |-> tree, own |-> TRUE])
        BY <1>1, <2>2
      <3>2. Len(commits') = HeadCommit + 1 /\ commits'[HeadCommit + 1].tree = tree
        BY <1>2, <3>1, AppendedCommit DEF ShapeInv
      <3> QED
        BY <1>0, <1>5, <3>2 DEF TreeAt, HeadCommit
    <2> QED
      BY <2>1, <2>2
  <1>7. \A k \in Nat : k <= HeadCommit => TreeAt(k)' = TreeAt(k)
    <2>1. \A k \in Nat : k <= HeadCommit =>
             (IF k = 0 THEN EmptyTree ELSE commits'[k].tree) = TreeAt(k)
      BY <1>1, <1>2, TreesStay DEF ShapeInv
    <2> QED
      BY <2>1 DEF TreeAt
  <1>8. blind \subseteq blind' /\ blind' \subseteq 0 .. HeadCommit'
    BY <1>0, <1>1, <1>6 DEF SendCovers
  <1>9. ASSUME NEW p \in Paths, NEW c \in Nat, c <= HeadCommit, Passed(p, c)
        PROVE  TreeAt(c)'[p] = NoFile \/ \E head \in blind' : TreeAt(head)'[p] = TreeAt(c)'[p]
    BY <1>0, <1>7, <1>8, <1>9, PassedStays DEF SendCovers
  <1>10. LackedAt(base.files, base.commit)'
    <2>1. base.commit \in Nat /\ base.commit <= HeadCommit
      BY DEF ShapeInv, TypeOK, CommitsNamed, Base
    <2> QED
      BY <1>1, <1>9, <2>1 DEF SendCovers, LackedAt, Passed, StoodUnread
  <1>11. (named # None => LackedAt(named.files, named.commit))'
    <2>1. named # None => named.commit \in Nat /\ named.commit <= HeadCommit
      BY DEF ShapeInv, TypeOK, CommitsNamed, Base
    <2> QED
      BY <1>1, <1>9, <2>1 DEF SendCovers, LackedAt, Passed, StoodUnread
  <1>12. ASSUME NEW p \in Paths, coll[p] = NoFile, last \/ p \notin req.dels
         PROVE  Passed(p, req.parent)'
    <2>1. CASE tree[p] = NoFile
      BY <1>6, <1>5, <2>1 DEF Passed
    <2>2. PICK h \in Nat : h = HeadCommit
      BY <1>0
    <2>3. TreeAt(h)' = TreeAt(h)
      BY <1>7, <2>2
    <2>4. CASE tree[p] = TreeAt(h)[p] /\ req.parent = 0
      <3>1. \E head \in blind' : TreeAt(head)'[p] = TreeAt(req.parent)'[p]
        BY <1>1, <1>6, <2>2, <2>3, <2>4
      <3> QED
        BY <3>1 DEF Passed, StoodUnread
    <2>5. CASE tree[p] = TreeAt(h)[p] /\ req.parent = h /\ req.parent # 0
      <3>1. CASE p \in req.dels
        BY <1>4, <1>5, <1>6, <1>12, <3>1 DEF Passed
      <3>2. CASE p \notin req.dels
        <4>1. Passed(p, h)
          BY <1>0, <1>12, <2>5, <3>2 DEF SendCovers
        <4>2. TreeAt(h)'[p] = NoFile \/ \E head \in blind' : TreeAt(head)'[p] = TreeAt(h)'[p]
          BY <1>9, <2>2, <4>1
        <4>3. TreeAt(h)'[p] = TreeAt(req.parent)'[p]
          BY <1>6, <2>3, <2>5
        <4> QED
          BY <4>2, <4>3 DEF Passed, StoodUnread
      <3> QED
        BY <3>1, <3>2
    <2> QED
      BY <1>0, <1>3, <1>4, <1>12, <2>1, <2>2, <2>4, <2>5
  <1>13. CASE last
    <2>1. pc' = "acked"
      BY <1>1, <1>13
    <2>2. LackedAt(coll, req.parent)'
      BY <1>1, <1>12, <1>13 DEF LackedAt
    <2>3. res # None => res.reviewed = coll
      BY <1>0 DEF SendCovers
    <2> QED
      BY <1>1, <1>8, <1>10, <1>11, <2>1, <2>2, <2>3 DEF SendCovers
  <1>14. CASE ~last
    <2>1. pc' = "send"
      BY <1>1, <1>14
    <2>2. \A p \in Paths : coll'[p] = NoFile => p \in req'.dels \/ Passed(p, req.parent)'
      BY <1>1, <1>5, <1>12
    <2>3. res # None => res.reviewed = coll
      BY <1>0 DEF SendCovers
    <2> QED
      BY <1>1, <1>8, <1>10, <1>11, <2>1, <2>2, <2>3 DEF SendCovers
  <1> QED
    BY <1>13, <1>14
\* The reference of a publication is the whole tree it was read from, no path
\* left out of it, so each file of it the collection lacks is to be deleted.
LEMMA RequestCovers ==
  ASSUME ShapeInv, SendHolds, NoneBehind, SendCovers, PublishRequest
  PROVE  SendCovers'
  <1> DEFINE tree == IF named # None THEN named.files ELSE TreeRead(outbox.parent)
             reference == Without(tree, ExcludedOnDisk(coll))
  <1>1. /\ pc = "request" /\ pc' = "send" /\ coll \in Tree
        /\ UNCHANGED <<commits, base, res, named, coll, blind>>
    BY DEF PublishRequest, ShapeInv, StepsHold, Goto, diskVars, ghosts
  <1>2. LackedAt(tree, outbox.parent)
    BY <1>1, TreeReadLacks DEF SendHolds, SendCovers
  <1>3. /\ req'.parent = outbox.parent
        /\ req'.dels = {p \in Changed(reference, coll) : coll[p] = NoFile}
    BY DEF PublishRequest, Request
  <1> HIDE DEF tree
  <1>4. \A p \in Paths : reference[p] = tree[p]
    BY <1>1 DEF NoneBehind, Without, ExcludedOnDisk
  <1>5. \A p \in Paths : coll[p] = NoFile => p \in req'.dels \/ Passed(p, outbox.parent)
    BY <1>2, <1>3, <1>4 DEF Changed, LackedAt
  <1> QED
    BY <1>1, <1>3, <1>5 DEF SendCovers, LackedAt, Passed, StoodUnread, TreeAt, HeadCommit

\* Every step of a publication.
LEMMA PublicationCovers ==
  ASSUME ShapeInv, SendHolds, NoneBehind, SendCovers, Publication
  PROVE  SendCovers'
  <1>1. CASE PublishRecords
    <2>1. /\ pc' = "request" /\ UNCHANGED <<commits, base, named, blind, res>>
          /\ res # None => res.reviewed = coll'
      BY <1>1 DEF PublishRecords, Publishable, Goto, ghosts
    <2> QED
      BY <2>1 DEF SendCovers, LackedAt, Passed, StoodUnread, TreeAt, HeadCommit
  <1>2. CASE PublishRequest
    BY <1>2, RequestCovers
  <1>3. ASSUME NEW batch, SendBatch(batch)
        PROVE  SendCovers'
    BY <1>3, SendBatchCovers
  <1>4. CASE Acknowledged
    <2>1. /\ pc = "acked" /\ pc' = "drop_outbox" /\ base' = [commit |-> req.parent, files |-> coll]
          /\ UNCHANGED <<commits, named, blind>>
      BY <1>4 DEF Acknowledged, PublishedBase, Goto, runData, ghosts
    <2> QED
      BY <2>1 DEF SendCovers, LackedAt, Passed, StoodUnread, TreeAt, HeadCommit
  <1>5. CASE TakenIn
    <2>1. /\ named' = [commit |-> cand.head, files |-> TreeAt(cand.head)] /\ pc' = "publish"
          /\ UNCHANGED <<commits, base, blind>>
      BY <1>5 DEF TakenIn, Goto, HeadOfCandidate, ghosts
    <2> QED
      BY <2>1 DEF SendCovers, LackedAt, Passed, StoodUnread, TreeAt, HeadCommit
  <1>6. CASE PublishChanged \/ PublishUnreviewed \/ PublishStale \/ PublishMarked \/ PublishRefused
    BY <1>6, CoverKept DEF PublishChanged, PublishUnreviewed, PublishStale, PublishMarked,
       PublishRefused, NextPublication, EndRun, Goto, diskVars, runData, ghosts
  <1>7. CASE SendStale \/ SendConflicts \/ DropOutbox \/ DropResolution \/ DropSnapshots
    BY <1>7, CoverKept DEF SendStale, SendConflicts, DropOutbox, DropResolution, DropSnapshots,
       NextPublication, EndRun, Goto, runData, ghosts
  <1>8. CASE TakeInMove \/ TakenInCollided \/ RaiseRound \/ PrepareAgain
    BY <1>8, CoverKept DEF TakeInMove, TakenInCollided, RaiseRound, PrepareAgain, Prepare, EndRun,
       Goto, diskVars, runData, ghosts
  <1> QED
    BY <1>1, <1>2, <1>3, <1>4, <1>5, <1>6, <1>7, <1>8 DEF Publication

-----------------------------------------------------------------------------
(* The theorems. *)

\* No file stands behind a collection and none is passed over unaccounted for.
LEMMA CoverIsInvariant ==
  ASSUME LateFiles = FALSE
  PROVE  Spec => [](ShapeInv /\ SendHolds /\ NoneBehind /\ SendCovers)
  <1>1. Init => NoneBehind /\ SendCovers
    <2>1. ASSUME Init PROVE NoneBehind
      BY <2>1 DEF Init, NoneBehind
    <2>2. ASSUME Init PROVE SendCovers
      <3>1. /\ blind = {} /\ named = None /\ pc = "idle"
            /\ LackedAt(base.files, base.commit)
        BY <2>2, TreeLacksNothing DEF Init, NoBase, LackedAt, Passed, TreeAt, EmptyTree
      <3> QED
        BY <3>1 DEF SendCovers
    <2> QED
      BY <2>1, <2>2
  <1>2. ShapeInv /\ SendHolds /\ NoneBehind /\ SendCovers /\ [Next]_vars
           => NoneBehind' /\ SendCovers'
    <2>1. ASSUME NoneBehind, SendCovers, UNCHANGED vars
          PROVE  NoneBehind' /\ SendCovers'
      <3>1. UNCHANGED <<commits, folder, base, res, pc, coll, named, req, blind>>
        BY <2>1 DEF vars, diskVars, runVars, runData, ghosts
      <3> QED
        BY <2>1, <3>1 DEF NoneBehind, SendCovers, LackedAt, Passed, StoodUnread, TreeAt, HeadCommit
    <2>2. ASSUME ShapeInv, NoneBehind, Next
          PROVE  NoneBehind'
      BY <2>2, WorldBehind, RunBehind DEF Next, ShapeInv
    <2>3. ASSUME ShapeInv, SendHolds, NoneBehind, SendCovers, Next
          PROVE  SendCovers'
      BY <2>3, WorldCovers, BeforeCovers, CandidateCovers, PublicationCovers DEF Next, RunStep
    <2> QED
      BY <2>1, <2>2, <2>3
  <1> QED
    BY <1>1, <1>2, ShapeIsInvariant, SendHoldsIsInvariant, PTL DEF Spec

\* Where no file is created while a run is under way, an acknowledged
\* publication committed the folder as it was collected, and that was the tree
\* reviewed: whatever chunks, moved heads, refusals, kills and resumed runs lay
\* between, it neither commits nor deletes a file nobody saw.
THEOREM PublishedReviewed ==
  ASSUME LateFiles = FALSE
  PROVE  Spec => []PublishedAsReviewed
  <1>1. ShapeInv /\ SendHolds /\ SendCovers => PublishedAsReviewed
    BY DEF ShapeInv, SendHolds, StoodAt, SendCovers, LackedAt, Passed, PublishedAsReviewed
  <1> QED
    BY <1>1, CoverIsInvariant, PTL

\* And the base is the whole tree of the commit it names, whatever recorded it:
\* no later run takes for a deletion of the user's a file no tree was read for
\* but one a first publication passed over.
THEOREM BaseIsWholeTree ==
  ASSUME LateFiles = FALSE
  PROVE  Spec => []BaseIsCommitted
  <1>1. ShapeInv /\ SendHolds /\ SendCovers => BaseIsCommitted
    BY DEF ShapeInv, CommitsNamed, SendHolds, StoodAt, SendCovers, LackedAt, Passed,
       BaseIsCommitted
  <1> QED
    BY <1>1, CoverIsInvariant, PTL

-----------------------------------------------------------------------------
(***************************************************************************)
(* The conflict markers.  A path of the folder that holds one, or that a   *)
(* collection found one in, is among the collisions the resolution on disk *)
(* names, which is where a publication looks; its content of before stands *)
(* in the snapshot, and a tree recorded as reviewed holds the marker too.  *)
(***************************************************************************)
Unmarked(tree) == \A p \in Paths : ~HoldsMarker(tree[p])
MarkedAt(p) == HoldsMarker(folder[p]) \/ (coll # None /\ HoldsMarker(coll[p]))

Excused(p) ==
    /\ res # None /\ p \in res.colls /\ snap[p] # None
    /\ res.reviewed # None => HoldsMarker(res.reviewed[p])

TreesUnmarked ==
    /\ \A c \in 1 .. HeadCommit : Unmarked(commits[c].tree)
    /\ Unmarked(base.files)
    /\ named # None => Unmarked(named.files)
    /\ outbox # None => Unmarked(outbox.tree)
    /\ \A p \in Paths : snap[p] # None => ~HoldsMarker(snap[p])

\* The steps that follow the check of the collided files.
PastCheck == {"request", "send", "acked", "refused", "raised",
              "drop_outbox", "drop_resolution", "drop_snapshots"}

MarksStand ==
    /\ \A p \in Paths : MarkedAt(p) => Excused(p)
    /\ coll # None /\ pc \notin {"touch", "takenin"} =>
          \A p \in Paths : HoldsMarker(folder[p]) => HoldsMarker(coll[p])
    /\ pc \in PastCheck => \A p \in Paths : ~MarkedAt(p)
    /\ pc = "discard" => coll = None /\ \A p \in Paths : HoldsMarker(folder[p]) => p \in todo
    /\ pc = "overwritten" => \A p \in Paths : ~HoldsMarker(folder[p])
    /\ pc = "head" => res = None \/ mode = "overwrite"
    /\ pc = "landed" => outbox # None
    /\ pc = "landed_snap" => res = None
    /\ pc = "drop_snapshots" => res = None

\* What a preparation and an overwrite know of the marks before them.
MarksPrepared ==
    /\ (pc \in {"plan", "snapshot"} /\ ~cand.keep) => res = None
    /\ pc \in {"plan", "snapshot", "resolve", "touch"} =>
          \A p \in Paths : MarkedAt(p) => p \in cand.colls
    /\ pc \in {"plan", "snapshot", "touch"} =>
          \A p \in cand.untouched : ~HoldsMarker(folder[p])
    /\ pc \in {"plan", "snapshot"} /\ coll # None =>
          \A p \in cand.untouched : ~HoldsMarker(coll[p])
    /\ pc = "resolve" => cand.untouched = {}
    /\ pc = "touch" => cand.untouched \cap todo = {}
    /\ pc \in {"resolve", "touch"} =>
          /\ cand.keep
          /\ \A p \in Paths : cand.target[p] # None =>
                snap[p] # None /\ (HoldsMarker(cand.target[p]) => p \in cand.colls)
          /\ \A p \in cand.taken : (pc = "resolve" \/ p \in todo) => ~HoldsMarker(folder[p])
    /\ pc = "touch" =>
          /\ cand.colls # {} => res # None
          /\ res # None => res.colls = cand.colls /\ res.reviewed = None
    /\ pc \in {"oversnap", "overwrite"} =>
          \A p \in Paths : cand.target[p] # None => ~HoldsMarker(cand.target[p])
    /\ pc = "oversnap" => /\ (cand.keep <=> (res # None))
                          /\ cand.untouched = {}
                          /\ \A p \in Paths : HoldsMarker(folder[p]) => cand.target[p] # None
    /\ pc = "overwrite" => \A p \in Paths : HoldsMarker(folder[p]) => p \in todo

MarkInv == TreesUnmarked /\ MarksStand /\ MarksPrepared

\* What tells a record or a tree from none, and a seed a merge never wrote in.
NoneIsFresh == None \notin Content \cup Tree \cup Resolution \cup Outbox
SeedUnmarked == Unmarked(SeedTree)

\* The trees read at a commit hold no marker.
LEMMA ReadUnmarked ==
  ASSUME TypeOK, TreesUnmarked, NEW c \in Nat, c <= HeadCommit
  PROVE  Unmarked(TreeAt(c)) /\ Unmarked(TreeRead(c))
  <1>1. c # 0 => c \in 1 .. HeadCommit
    BY DEF TypeOK, Commits, HeadCommit
  <1>2. Unmarked(EmptyTree)
    BY DEF Unmarked, EmptyTree, HoldsMarker
  <1>3. Unmarked(TreeAt(c))
    BY <1>1, <1>2 DEF TreesUnmarked, TreeAt
  <1> QED
    BY <1>3 DEF TreesUnmarked, TreeRead

\* The steps that stand on nothing but the marks being accounted for.
Plain == {"idle", "settle", "landed_outbox", "resolution", "publish", "unreviewed", "takenin"}

LEMMA Plainly ==
  ASSUME MarkInv, TreesUnmarked', UNCHANGED <<folder, snap>>, pc' \in Plain,
         coll' \in {None, coll, folder, Collected},
         pc \in {"touch", "takenin"} => coll' = None \/ pc' = "takenin",
         \/ res' = res
         \/ res # None /\ res' # None /\ res.colls \subseteq res'.colls /\ res'.reviewed = None
  PROVE  MarkInv'
  <1>1. \A p \in Paths : MarkedAt(p)' => MarkedAt(p)
    BY DEF MarkedAt, Collected
  <1>2. \A p \in Paths : Excused(p) => Excused(p)'
    BY DEF Excused
  <1>3. coll' # None /\ pc' # "takenin" =>
           \A p \in Paths : HoldsMarker(folder[p]) => HoldsMarker(coll'[p])
    BY DEF MarkInv, MarksStand, Collected, Plain
  <1>4. MarksStand'
    BY <1>1, <1>2, <1>3 DEF MarkInv, MarksStand, PastCheck, Plain
  <1>5. MarksPrepared'
    BY DEF MarksPrepared, Plain
  <1> QED
    BY <1>4, <1>5 DEF MarkInv

\* A step of the folder that writes no marker, and at most one path off todo.
LEMMA Unmarks ==
  ASSUME ShapeInv, MarkInv, TreesUnmarked',
         UNCHANGED <<coll, res, snap, pc, mode, cand, outbox>>,
         \A p \in Paths : HoldsMarker(folder'[p]) =>
              HoldsMarker(folder[p]) /\ (p \in todo => p \in todo'),
         todo' \subseteq todo
  PROVE  MarkInv'
  <1>1. \A p \in Paths : MarkedAt(p)' => MarkedAt(p)
    BY DEF MarkedAt
  <1>2. \A p \in Paths : Excused(p) => Excused(p)'
    BY DEF Excused
  <1>4. MarksStand'
    BY <1>1, <1>2 DEF MarkInv, MarksStand, PastCheck
  <1>3. pc \in CandidateSteps => cand.taken \subseteq Paths /\ cand.untouched \subseteq Paths
    BY DEF ShapeInv, StepsHold, CandidateType
  <1>5. CASE pc \in {"plan", "snapshot", "resolve"}
    BY <1>1, <1>3, <1>4, <1>5 DEF MarkInv, MarksPrepared, CandidateSteps
  <1>6. CASE pc = "touch"
    BY <1>1, <1>3, <1>4, <1>6 DEF MarkInv, MarksPrepared, CandidateSteps
  <1>7. CASE pc \in {"oversnap", "overwrite"}
    BY <1>1, <1>4, <1>7 DEF MarkInv, MarksPrepared
  <1>8. CASE pc \notin {"plan", "snapshot", "resolve", "touch", "oversnap", "overwrite"}
    BY <1>1, <1>4, <1>8 DEF MarkInv, MarksPrepared
  <1> QED
    BY <1>5, <1>6, <1>7, <1>8

\* A step that names no tree but one it has, or one read at a commit.
LEMMA TreesKept ==
  ASSUME ShapeInv, TreesUnmarked, UNCHANGED <<commits, snap>>,
         base' = base \/ Unmarked(base'.files),
         outbox' = None \/ outbox' = outbox \/ Unmarked(outbox'.tree),
         named' = None \/ named' = named \/ Unmarked(named'.files)
  PROVE  TreesUnmarked'
  <1>1. HeadCommit' = HeadCommit
    BY DEF HeadCommit
  <1> QED
    BY <1>1 DEF TreesUnmarked, Unmarked

LEMMA WorldMarks ==
  ASSUME ShapeInv, MarkInv, World
  PROVE  MarkInv'
  <1>1. ASSUME NEW p \in Paths, UserEdits(p) \/ UserDeletes(p) \/ UserResolvesMarkers(p)
        PROVE  MarkInv'
    <2>1. /\ folder \in Tree /\ texts \in Nat /\ texts + 1 # 0
          /\ UNCHANGED <<commits, base, outbox, res, snap, pc, mode, coll, todo, named, cand>>
      BY <1>1 DEF ShapeInv, TypeOK, UserEdits, UserDeletes, UserResolvesMarkers, runVars, runData
    <2>2. \A q \in Paths : HoldsMarker(folder'[q]) => HoldsMarker(folder[q])
      BY <1>1, <2>1 DEF UserEdits, UserDeletes, UserResolvesMarkers, SetFile, HoldsMarker, Marker, Tree
    <2>3. TreesUnmarked'
      BY <2>1, TreesKept DEF MarkInv
    <2> QED
      BY <2>1, <2>2, <2>3, Unmarks
  <1>2. ASSUME NEW p \in Paths, OtherCommits(p)
        PROVE  MarkInv'
    <2>1. PICK content \in {{texts + 1}, NoFile} \cup {commits[c].tree[p] : c \in 1 .. HeadCommit} :
            commits' = Append(commits, [tree |-> [TreeAt(HeadCommit) EXCEPT ![p] = content],
                                        own  |-> FALSE])
      BY <1>2 DEF OtherCommits
    <2>2. UNCHANGED <<folder, base, outbox, res, snap, pc, mode, coll, todo, named, cand>>
      BY <1>2 DEF OtherCommits, diskVars, runVars, runData
    <2>3. ~HoldsMarker(content)
      BY <2>1 DEF ShapeInv, TypeOK, MarkInv, TreesUnmarked, Unmarked, HoldsMarker, Marker
    <2>4. HeadCommit \in Nat /\ TreeAt(HeadCommit) \in Tree /\ Unmarked(TreeAt(HeadCommit))
      BY TreeAtIsTree, ReadUnmarked DEF ShapeInv, TypeOK, Commits, HeadCommit, MarkInv
    <2>5. PICK tree : tree = [TreeAt(HeadCommit) EXCEPT ![p] = content]
      OBVIOUS
    <2>6. Unmarked(tree)
      BY <2>3, <2>4, <2>5 DEF Unmarked, Tree
    <2>7. /\ HeadCommit' = HeadCommit + 1 /\ commits'[HeadCommit + 1].tree = tree
          /\ \A c \in 1 .. HeadCommit : commits'[c] = commits[c]
      BY <2>1, <2>5 DEF ShapeInv, TypeOK, Commits, HeadCommit
    <2>8. TreesUnmarked'
      BY <2>2, <2>4, <2>6, <2>7 DEF TreesUnmarked, MarkInv, Unmarked
    <2> QED
      BY <2>2, <2>8, Unmarks
  <1>3. ASSUME NEW m \in Modes, Start(m)
        PROVE  MarkInv'
    <2>1. /\ UNCHANGED <<commits, folder, base, outbox, res, snap, named, cand>> /\ pc = "idle"
          /\ coll' \in {None, folder}
          /\ \/ pc' = "settle"
             \/ pc' = "discard" /\ coll' = None /\ todo' = {p \in Paths : snap[p] # None}
      BY <1>3 DEF Start, Goto, diskVars
    <2>2. TreesUnmarked'
      BY <2>1, TreesKept DEF MarkInv
    <2>3. CASE pc' = "settle"
      BY <2>1, <2>2, <2>3, Plainly DEF Plain
    <2>4. CASE pc' = "discard"
      <3>1. \A p \in Paths : MarkedAt(p)' => MarkedAt(p)
        BY <2>1 DEF MarkedAt
      <3>2. \A p \in Paths : Excused(p) => Excused(p)'
        BY <2>1 DEF Excused
      <3>3. \A p \in Paths : HoldsMarker(folder[p]) => p \in todo'
        BY <2>1, <2>3, <2>4 DEF MarkInv, MarksStand, MarkedAt, Excused
      <3>4. MarksStand'
        BY <2>1, <2>4, <3>1, <3>2, <3>3 DEF MarkInv, MarksStand, PastCheck
      <3>5. MarksPrepared'
        BY <2>4 DEF MarksPrepared
      <3> QED
        BY <2>2, <3>4, <3>5 DEF MarkInv
    <2> QED
      BY <2>1, <2>3, <2>4
  <1>4. CASE Stop
    <2>1. UNCHANGED <<commits, folder, base, outbox, res, snap>> /\ pc' = "idle" /\ coll' = None
          /\ named' = None
      BY <1>4 DEF Stop, EndRun, diskVars
    <2>2. TreesUnmarked'
      BY <2>1, TreesKept DEF MarkInv
    <2> QED
      BY <2>1, <2>2, Plainly DEF Plain
  <1> QED
    BY <1>1, <1>2, <1>3, <1>4 DEF World

\* What a step that leaves the folder, its snapshots and its collection sees.
LEMMA MarksSame ==
  ASSUME UNCHANGED <<folder, snap, res>>, coll' \in {None, coll, folder, Collected}
  PROVE  /\ \A p \in Paths : MarkedAt(p)' => MarkedAt(p)
         /\ \A p \in Paths : Excused(p) => Excused(p)'
  BY DEF MarkedAt, Excused, Collected

LEMMA SettleMarks ==
  ASSUME NoneIsFresh, ShapeInv, MarkInv, Settle
  PROVE  MarkInv'
  <1>0. HeadCommit \in Nat /\ Unmarked(TreeAt(HeadCommit)) /\ Unmarked(TreeRead(HeadCommit))
    BY ReadUnmarked DEF ShapeInv, TypeOK, Commits, HeadCommit, MarkInv
  <1>1. CASE NothingToSettle \/ SettleWithoutToken \/ SettleDrops \/ LandedKeepsReview \/ LandedDropsOutbox
    <2>1. /\ UNCHANGED <<commits, folder, base, res, snap, coll, named>> /\ outbox' \in {None, outbox}
          /\ pc' = "resolution" /\ pc \notin {"touch", "takenin"}
      BY <1>1 DEF NothingToSettle, SettleWithoutToken, SettleDrops, LandedKeepsReview,
         LandedDropsOutbox, Goto, diskVars, runData
    <2>2. TreesUnmarked'
      BY <2>1, TreesKept DEF MarkInv
    <2> QED
      BY <2>1, <2>2, Plainly DEF Plain
  <1>2. CASE SettleResumes
    <2>1. /\ UNCHANGED <<commits, folder, base, outbox, res, snap, coll>>
          /\ Unmarked(named'.files) /\ pc' = "publish" /\ pc \notin {"touch", "takenin"}
      BY <1>0, <1>2 DEF SettleResumes, Goto, diskVars
    <2>2. TreesUnmarked'
      BY <2>1, TreesKept DEF MarkInv
    <2> QED
      BY <2>1, <2>2, Plainly DEF Plain
  <1>3. CASE SettleLanded
    <2>1. /\ UNCHANGED <<commits, folder, outbox, res, snap, coll, named>> /\ outbox # None
          /\ Unmarked(base'.files) /\ pc' = "landed" /\ pc = "settle"
      BY <1>0, <1>3 DEF SettleLanded, Goto, runData
    <2>2. TreesUnmarked'
      BY <2>1, TreesKept DEF MarkInv
    <2>3. MarksStand'
      BY <2>1, MarksSame DEF MarkInv, MarksStand, PastCheck
    <2>4. MarksPrepared'
      BY <2>1 DEF MarksPrepared
    <2> QED
      BY <2>2, <2>3, <2>4 DEF MarkInv
  <1>4. CASE LandedDropsResolution
    <2>1. /\ UNCHANGED <<commits, folder, base, outbox, snap, coll, named>> /\ res' = None
          /\ pc' = "landed_snap" /\ pc = "landed" /\ (res = None \/ res.reviewed = outbox.tree)
      BY <1>4 DEF LandedDropsResolution, PreparedSince, Goto, runData
    <2>2. TreesUnmarked'
      BY <2>1, TreesKept DEF MarkInv
    <2>3. outbox # None /\ outbox.tree # None /\ Unmarked(outbox.tree)
      BY <2>1 DEF MarkInv, MarksStand, TreesUnmarked, ShapeInv, TypeOK, Outbox, NoneIsFresh
    <2>4. \A p \in Paths : ~MarkedAt(p)
      BY <2>1, <2>3 DEF MarkInv, MarksStand, Excused, Unmarked
    <2>5. MarksStand'
      BY <2>1, <2>4 DEF MarksStand, PastCheck, MarkedAt, MarkInv
    <2>6. MarksPrepared'
      BY <2>1 DEF MarksPrepared
    <2> QED
      BY <2>2, <2>5, <2>6 DEF MarkInv
  <1>5. CASE LandedDropsSnapshots
    <2>1. /\ UNCHANGED <<commits, folder, base, outbox, res, coll, named>> /\ snap' = Nothing
          /\ pc' = "landed_outbox" /\ pc = "landed_snap"
      BY <1>5 DEF LandedDropsSnapshots, Goto, runData
    <2>2. TreesUnmarked'
      BY <2>1 DEF MarkInv, TreesUnmarked, Unmarked, HeadCommit, Nothing
    <2>3. \A p \in Paths : ~MarkedAt(p)
      BY <2>1 DEF MarkInv, MarksStand, Excused
    <2>4. MarksStand'
      BY <2>1, <2>3 DEF MarksStand, PastCheck, MarkedAt, MarkInv
    <2>5. MarksPrepared'
      BY <2>1 DEF MarksPrepared
    <2> QED
      BY <2>2, <2>4, <2>5 DEF MarkInv
  <1> QED
    BY <1>1, <1>2, <1>3, <1>4, <1>5 DEF Settle

\* A preparation over a resolution keeps the collisions it names, where it
\* finds a mark at all.
LEMMA PrepareMarks ==
  ASSUME MarkInv, TreesUnmarked', UNCHANGED <<folder, snap, res>>,
         coll' \in {None, coll, folder, Collected},
         pc \notin {"touch", "takenin"},
         NEW c, NEW tree, NEW head, NEW forced, NEW ret, NEW sent, NEW reviewed,
         Prepare(NewCandidate(c, tree, head, forced, ret, sent, reviewed)),
         HasPending \/ \A p \in Paths : ~MarkedAt(p)
  PROVE  MarkInv'
  <1>1. /\ pc' = "plan" /\ cand'.keep = (res # None) /\ cand'.untouched = {}
        /\ HasPending => cand'.colls = res.colls
    BY DEF Prepare, NewCandidate, Goto
  <1>2. \A p \in Paths : MarkedAt(p)' => p \in cand'.colls
    BY <1>1, MarksSame DEF MarkInv, MarksStand, Excused
  <1>3. coll' # None => \A p \in Paths : HoldsMarker(folder[p]) => HoldsMarker(coll'[p])
    BY DEF MarkInv, MarksStand, Collected
  <1>4. MarksStand'
    BY <1>1, <1>3, MarksSame DEF MarkInv, MarksStand, PastCheck
  <1>5. MarksPrepared'
    BY <1>1, <1>2 DEF MarksPrepared
  <1> QED
    BY <1>4, <1>5 DEF MarkInv

LEMMA FromResolutionMarks ==
  ASSUME NoneIsFresh, ShapeInv, MarkInv, FromResolution
  PROVE  MarkInv'
  <1>1. CASE Attention \/ ResumeReviewed
    <2>1. /\ UNCHANGED <<commits, folder, base, outbox, res, snap>> /\ coll' \in {None, coll}
          /\ named' \in {None, named} /\ pc' \in {"idle", "publish"} /\ pc = "resolution"
      BY <1>1 DEF Attention, ResumeReviewed, EndRun, Goto, diskVars, runData
    <2>2. TreesUnmarked'
      BY <2>1, TreesKept DEF MarkInv
    <2> QED
      BY <2>1, <2>2, Plainly DEF Plain
  <1>2. CASE NoResolution \/ OverwriteResolution
    <2>1. /\ UNCHANGED <<commits, folder, base, outbox, res, snap, coll, named, mode>>
          /\ pc' = "head" /\ pc = "resolution" /\ (res = None \/ mode = "overwrite")
      BY <1>2 DEF NoResolution, OverwriteResolution, Goto, diskVars, runData
    <2>2. TreesUnmarked'
      BY <2>1, TreesKept DEF MarkInv
    <2>3. MarksStand'
      BY <2>1, MarksSame DEF MarkInv, MarksStand, PastCheck
    <2>4. MarksPrepared'
      BY <2>1 DEF MarksPrepared
    <2> QED
      BY <2>2, <2>3, <2>4 DEF MarkInv
  <1>3. CASE FinishPreparation
    <2>1. /\ UNCHANGED <<commits, folder, base, outbox, res, snap, coll, named>> /\ HasPending
          /\ pc = "resolution"
      BY <1>3 DEF FinishPreparation, diskVars
    <2>2. TreesUnmarked'
      BY <2>1, TreesKept DEF MarkInv
    <2> QED
      BY <1>3, <2>1, <2>2, PrepareMarks DEF FinishPreparation
  <1>4. CASE Continue
    <2>1. /\ UNCHANGED <<commits, folder, base, outbox, snap, named>> /\ res # None
          /\ res' = [res EXCEPT !.reviewed = folder] /\ coll' = folder
          /\ pc' = "publish" /\ pc = "resolution"
      BY <1>4 DEF Continue, Reviewable, Goto
    <2>2. TreesUnmarked'
      BY <2>1, TreesKept DEF MarkInv
    <2>3. res' \in Resolution /\ res'.colls = res.colls /\ res'.reviewed = folder /\ res' # None
      BY <2>1 DEF ShapeInv, TypeOK, Resolution, NoneIsFresh
    <2>4. \A p \in Paths : MarkedAt(p)' => HoldsMarker(folder[p]) /\ MarkedAt(p)
      BY <2>1 DEF MarkedAt
    <2>5. \A p \in Paths : MarkedAt(p)' => Excused(p)'
      BY <2>1, <2>3, <2>4 DEF MarkInv, MarksStand, Excused
    <2>6. MarksStand'
      BY <2>1, <2>5 DEF MarksStand, PastCheck
    <2>7. MarksPrepared'
      BY <2>1 DEF MarksPrepared
    <2> QED
      BY <2>2, <2>6, <2>7 DEF MarkInv
  <1> QED
    BY <1>1, <1>2, <1>3, <1>4 DEF FromResolution

LEMMA FromHeadMarks ==
  ASSUME NoneIsFresh, ShapeInv, MarkInv, FromHead
  PROVE  MarkInv'
  <1>0. HeadCommit \in Nat /\ Unmarked(TreeAt(HeadCommit)) /\ TreeAt(HeadCommit) \in Tree
    BY HeadIsNamed, ReadUnmarked DEF ShapeInv, MarkInv
  <1>1. CASE FolderHoldsHead \/ HeadIsBase
    <2>1. /\ UNCHANGED <<commits, folder, outbox, res, snap>> /\ coll' \in {None, coll, Collected}
          /\ (base' = base \/ Unmarked(base'.files))
          /\ named' \in {None, named} /\ pc' \in {"idle", "publish"} /\ pc = "head"
      BY <1>0, <1>1 DEF FolderHoldsHead, HeadIsBase, EndRun, Goto, diskVars
    <2>2. TreesUnmarked'
      BY <2>1, TreesKept DEF MarkInv
    <2> QED
      BY <2>1, <2>2, Plainly DEF Plain
  <1>2. CASE HeadPastBase
    <2>1. /\ UNCHANGED <<commits, folder, base, outbox, res, snap, named>> /\ coll' = Collected
          /\ pc = "head" /\ ~OverwriteWanted
      BY <1>2 DEF HeadPastBase, diskVars
    <2>2. TreesUnmarked'
      BY <2>1, TreesKept DEF MarkInv
    <2>3. \A p \in Paths : ~MarkedAt(p)
      BY <2>1 DEF MarkInv, MarksStand, Excused, OverwriteWanted
    <2> QED
      BY <1>2, <2>1, <2>2, <2>3, PrepareMarks DEF HeadPastBase
  <1>3. CASE OverwritePlans
    <2> DEFINE excluded == ExcludedOnDisk(Collected)
               target == [p \in Paths |->
                            IF TreeAt(HeadCommit)[p] # Collected[p] /\ p \notin excluded
                            THEN TreeAt(HeadCommit)[p] ELSE None]
    <2>1. /\ UNCHANGED <<commits, folder, base, outbox, res, snap, named>> /\ coll' = Collected
          /\ pc = "head" /\ pc' = "oversnap"
      BY <1>3 DEF OverwritePlans, diskVars, Goto
    <2>2. /\ cand'.keep = (res # None) /\ cand'.untouched = {} /\ cand'.target = target
      BY <1>3 DEF OverwritePlans, NewCandidate
    <2>3. TreesUnmarked'
      BY <2>1, TreesKept DEF MarkInv
    <2>4. \A p \in Paths : HoldsMarker(folder[p]) => HoldsMarker(Collected[p])
      BY <2>1 DEF MarkInv, MarksStand, Collected
    <2>5. MarksStand'
      BY <2>1, <2>4, MarksSame DEF MarkInv, MarksStand, PastCheck
    <2>6. \A p \in Paths : HoldsMarker(folder[p]) => target[p] # None
      BY <1>0, <2>4 DEF HoldsMarker, ExcludedOnDisk, Unmarked, NoneIsFresh, Tree
    <2>7. \A p \in Paths : target[p] # None => ~HoldsMarker(target[p])
      BY <1>0 DEF Unmarked
    <2>8. MarksPrepared'
      BY <2>1, <2>2, <2>6, <2>7 DEF MarksPrepared
    <2> QED
      BY <2>3, <2>5, <2>8 DEF MarkInv
  <1> QED
    BY <1>1, <1>2, <1>3 DEF FromHead

\* A pass over a fresh collection: what it left untouched holds no mark.
LEMMA NextPassMarks ==
  ASSUME ShapeInv, MarkInv, UNCHANGED <<commits, folder, base, outbox, res, snap>>, NextPass,
         pc \in {"snapshot", "touch"}
  PROVE  MarkInv'
  <1>1. named' \in {None, named} /\ coll' = None /\ pc' \in {"idle", "plan"}
    BY DEF NextPass, EndRun, Goto
  <1>2. TreesUnmarked'
    BY <1>1, TreesKept DEF MarkInv
  <1>3. CASE pc' = "idle"
    BY <1>1, <1>2, <1>3, Plainly DEF Plain
  <1>4. CASE pc' = "plan"
    <2>1. cand' = [cand EXCEPT !.missed = FALSE] /\ cand \in CandidateType
      BY <1>4 DEF NextPass, EndRun, ShapeInv, StepsHold, CandidateSteps
    <2>2. /\ cand'.keep = cand.keep /\ cand'.colls = cand.colls /\ cand'.untouched = cand.untouched
          /\ cand.untouched \subseteq Paths
      BY <2>1 DEF CandidateType
    <2>3. MarksStand'
      BY <1>1, <1>4, MarksSame DEF MarkInv, MarksStand, PastCheck
    <2>4. ~cand.keep => res = None
      BY DEF MarkInv, MarksPrepared
    <2>5. MarksPrepared'
      BY <1>1, <1>4, <2>2, <2>4, MarksSame DEF MarkInv, MarksPrepared
    <2> QED
      BY <1>2, <2>3, <2>5 DEF MarkInv
  <1> QED
    BY <1>1, <1>3, <1>4

\* A snapshot stores what held no mark, and what is marked in the folder from
\* here on collided.
LEMMA SnapshotMarks ==
  ASSUME NoneIsFresh, ShapeInv, MarkInv, pc = "snapshot", NEW merged,
         CandidateSnapshot(Target(merged))
  PROVE  MarkInv'
  <1> DEFINE target == Target(merged)
             stored == StoresPrior(target, KeptSnapshot)
  <1>0. /\ cand \in CandidateType /\ coll \in Tree /\ coll # None /\ folder \in Tree
        /\ snap \in [Paths -> Entry] /\ cand.head \in Nat /\ cand.head <= HeadCommit
    BY DEF ShapeInv, StepsHold, TypeOK, CommitsNamed, CandidateSteps, CandidateType, NoneIsFresh
  <1>1. /\ UNCHANGED <<commits, folder, base, outbox, res, coll, named>> /\ pc' = "resolve"
        /\ snap' = [p \in Paths |-> IF p \in stored THEN Prior(p) ELSE KeptSnapshot[p]]
        /\ cand' = [cand EXCEPT
                        !.target = target, !.taken = stored, !.untouched = {},
                        !.before = [p \in Paths |-> Prior(p)],
                        !.keep   = TRUE,
                        !.local  = @ \cup LocalOnly(ComparedBase, coll, ComparedHead),
                        !.colls  = @ \cup Collided]
    BY DEF CandidateSnapshot, Goto
  <1>2. /\ cand'.target = target /\ cand'.taken = stored /\ cand'.untouched = {} /\ cand'.keep
        /\ cand'.colls = cand.colls \cup Collided
    BY <1>0, <1>1 DEF CandidateType
  <1>3. \A p \in stored : p \in Paths /\ target[p] # None /\ KeptSnapshot[p] = None
    BY DEF StoresPrior, Targets
  <1>4. \A p \in Paths : MarkedAt(p) => /\ res # None /\ cand.keep /\ snap[p] # None
                                        /\ p \notin cand.untouched /\ p \in cand.colls
    <2>1. \A p \in Paths : p \in cand.untouched => ~MarkedAt(p)
      BY <1>0 DEF MarkInv, MarksPrepared, MarkedAt
    <2>2. \A p \in Paths : MarkedAt(p) => res # None /\ snap[p] # None
      BY DEF MarkInv, MarksStand, Excused
    <2>3. res # None => cand.keep
      BY DEF MarkInv, MarksPrepared
    <2>4. \A p \in Paths : MarkedAt(p) => p \in cand.colls
      BY DEF MarkInv, MarksPrepared
    <2> QED
      BY <2>1, <2>2, <2>3, <2>4
  <1>5. \A p \in Paths : MarkedAt(p) => KeptSnapshot[p] = snap[p] /\ p \notin stored
    BY <1>3, <1>4 DEF KeptSnapshot
  <1>6. \A p \in Paths : Prior(p) # None
    BY <1>0 DEF Prior, Tree, NoneIsFresh
  <1>7. \A p \in stored : ~HoldsMarker(Prior(p))
    BY <1>0, <1>3, <1>5 DEF Prior, MarkedAt
  <1>8. \A p \in Paths : snap'[p] # None => ~HoldsMarker(snap'[p])
    <2>1. \A p \in Paths : KeptSnapshot[p] # None => ~HoldsMarker(KeptSnapshot[p])
      BY DEF KeptSnapshot, Nothing, MarkInv, TreesUnmarked
    <2> QED
      BY <1>1, <1>7, <2>1
  <1>9. TreesUnmarked'
    BY <1>1, <1>8 DEF MarkInv, TreesUnmarked, Unmarked, HeadCommit
  <1>10. \A p \in Paths : MarkedAt(p) => Excused(p)'
    BY <1>1, <1>4, <1>5 DEF MarkInv, MarksStand, Excused
  <1>11. \A p \in Paths : MarkedAt(p)' <=> MarkedAt(p)
    BY <1>1 DEF MarkedAt
  <1>12. MarksStand'
    BY <1>1, <1>10, <1>11 DEF MarkInv, MarksStand, PastCheck
  <1>13. Unmarked(ComparedHead)
    <2>1. Unmarked(TreeAt(cand.head))
      BY <1>0, ReadUnmarked DEF ShapeInv, MarkInv
    <2> QED
      BY <2>1 DEF ComparedHead, HeadOfCandidate, Without, Unmarked, HoldsMarker
  <1>14. \A p \in Paths : target[p] # None => snap'[p] # None /\ (HoldsMarker(target[p]) => p \in Collided)
    <2> SUFFICES ASSUME NEW p \in Paths, target[p] # None
                 PROVE  snap'[p] # None /\ (HoldsMarker(target[p]) => p \in Collided)
      OBVIOUS
    <2>1. snap'[p] # None
      BY <1>1, <1>6 DEF StoresPrior, Targets
    <2>2. CASE p \in TakenFromHead \/ p \in DeleteModify(ComparedBase, coll, ComparedHead)
      <3>1. p \notin ToMerge
        BY <2>2 DEF TakenFromHead, RemoteOnly, DeleteModify, ToMerge, BothHold, Collisions,
           ChangedByBoth
      <3>2. target[p] = ComparedHead[p]
        BY <2>2, <3>1 DEF Target
      <3> QED
        BY <1>13, <2>1, <3>2 DEF Unmarked
    <2>3. CASE p \in ToMerge
      BY <2>1, <2>3 DEF ToMerge, BothHold, Collided
    <2>4. CASE ~(p \in TakenFromHead \/ p \in DeleteModify(ComparedBase, coll, ComparedHead) \/ p \in ToMerge)
      BY <2>4 DEF Target
    <2> QED
      BY <2>2, <2>3, <2>4
  <1>15. MarksPrepared'
    <2>1. \A p \in stored : ~HoldsMarker(folder[p])
      BY <1>3, <1>5 DEF MarkedAt
    <2> HIDE DEF target, stored
    <2> QED
      BY <1>1, <1>2, <1>4, <1>11, <1>14, <2>1 DEF MarksPrepared
  <1> QED
    BY <1>9, <1>12, <1>15 DEF MarkInv

LEMMA CandidateMarks ==
  ASSUME NoneIsFresh, ShapeInv, MarkInv, Candidate
  PROVE  MarkInv'
  <1>1. CASE CandidatePlan
    <2>1. /\ UNCHANGED <<commits, folder, base, outbox, res, snap, named>> /\ coll' = Collected
          /\ pc = "plan" /\ pc' = "snapshot" /\ cand \in CandidateType
          /\ cand' = [cand EXCEPT !.excluded = ExcludedOnDisk(Collected)]
      BY <1>1 DEF CandidatePlan, Goto, diskVars, ShapeInv, StepsHold, CandidateSteps
    <2>2. /\ cand'.keep = cand.keep /\ cand'.colls = cand.colls /\ cand'.untouched = cand.untouched
          /\ cand.untouched \subseteq Paths
      BY <2>1 DEF CandidateType
    <2>3. TreesUnmarked'
      BY <2>1, TreesKept DEF MarkInv
    <2>4. \A p \in Paths : HoldsMarker(folder[p]) => HoldsMarker(Collected[p])
      BY <2>1 DEF MarkInv, MarksStand, Collected
    <2>5. MarksStand'
      BY <2>1, <2>4, MarksSame DEF MarkInv, MarksStand, PastCheck
    <2>6. \A p \in cand.untouched : ~HoldsMarker(Collected[p])
      BY <2>1 DEF MarkInv, MarksPrepared, Collected
    <2>7. MarksPrepared'
      BY <2>1, <2>2, <2>6, MarksSame DEF MarkInv, MarksPrepared
    <2> QED
      BY <2>3, <2>5, <2>7 DEF MarkInv
  <1>2. CASE CandidateReads
    <2>1. PICK merged \in [ToMerge -> UNION {MergeResults(p) : p \in ToMerge}] :
             CandidateStale(Target(merged)) \/ CandidateSnapshot(Target(merged))
      BY <1>2 DEF CandidateReads
    <2>2. pc = "snapshot"
      BY <1>2 DEF CandidateReads
    <2>3. CASE CandidateStale(Target(merged))
      BY <2>2, <2>3, NextPassMarks DEF CandidateStale, diskVars
    <2> QED
      BY <2>1, <2>2, <2>3, SnapshotMarks
  <1>3. CASE CandidateResolve
    <2>1. /\ UNCHANGED <<commits, folder, base, outbox, snap, named, coll, cand>> /\ pc = "resolve"
          /\ pc' = "touch" /\ todo' = Targets(cand.target) /\ cand \in CandidateType
      BY <1>3 DEF CandidateResolve, Goto, ShapeInv, StepsHold, CandidateSteps
    <2>2. res # None => Resolving
      BY DEF Resolving
    <2>3. /\ ~Resolving => res' = res /\ res = None /\ cand.colls = {}
          /\ Resolving => res'.colls = cand.colls /\ res'.reviewed = None
      BY <1>3 DEF CandidateResolve, Resolving
    <2>4. Resolving => res' # None
      BY <1>3, ResolutionRecorded DEF NoneIsFresh
    <2>5. TreesUnmarked'
      BY <2>1, TreesKept DEF MarkInv
    <2>6. \A p \in Paths : MarkedAt(p)' <=> MarkedAt(p)
      BY <2>1 DEF MarkedAt
    <2>7. \A p \in Paths : MarkedAt(p) => Excused(p)'
      BY <2>1, <2>3, <2>4 DEF MarkInv, MarksStand, MarksPrepared, Excused
    <2>8. MarksStand'
      BY <2>1, <2>6, <2>7 DEF MarkInv, MarksStand, PastCheck
    <2>9. MarksPrepared'
      BY <2>1, <2>3, <2>4, <2>6 DEF MarkInv, MarksPrepared
    <2> QED
      BY <2>5, <2>8, <2>9 DEF MarkInv
  <1>4. ASSUME NEW p \in Paths, CandidateTouches(p)
        PROVE  MarkInv'
    <2>1. /\ UNCHANGED <<commits, base, outbox, res, snap, named, coll, pc>> /\ pc = "touch"
          /\ p \in todo /\ todo' = todo \ {p} /\ cand \in CandidateType /\ folder \in Tree
          /\ todo \subseteq Targets(cand.target)
      BY <1>4 DEF CandidateTouches, ShapeInv, StepsHold, CandidateSteps, TypeOK
    <2>2. TreesUnmarked'
      BY <2>1, TreesKept DEF MarkInv
    <2>3. \A q \in Paths : Excused(q) => Excused(q)'
      BY <2>1 DEF Excused
    <2>4. CASE Unchanged(p)
      <3>1. folder' = [folder EXCEPT ![p] = cand.target[p]]
        BY <1>4, <2>4 DEF CandidateTouches, SetFile
      <3>2. \/ cand' = cand
            \/ cand' = [cand EXCEPT !.written[p] = cand.target[p]]
        BY <1>4, <2>4 DEF CandidateTouches
      <3>3. /\ cand'.keep = cand.keep /\ cand'.colls = cand.colls /\ cand'.target = cand.target
            /\ cand'.untouched = cand.untouched /\ cand'.taken = cand.taken
        BY <2>1, <3>2 DEF CandidateType
      <3>4. /\ cand.target[p] # None /\ snap[p] # None
            /\ HoldsMarker(cand.target[p]) => p \in cand.colls
        BY <2>1 DEF Targets, MarkInv, MarksPrepared
      <3>5. \A q \in Paths : MarkedAt(q)' => MarkedAt(q) \/ (q = p /\ HoldsMarker(cand.target[p]))
        BY <2>1, <3>1 DEF MarkedAt, Tree
      <3>6. HoldsMarker(cand.target[p]) => Excused(p)
        BY <2>1, <3>4 DEF MarkInv, MarksPrepared, Excused
      <3>7. MarksStand'
        BY <2>1, <2>3, <3>5, <3>6 DEF MarkInv, MarksStand, PastCheck
      <3>8. \A q \in Paths : q # p => folder'[q] = folder[q]
        BY <2>1, <3>1 DEF Tree
      <3>9. cand.taken \subseteq Paths /\ cand.untouched \subseteq Paths /\ p \notin cand.untouched
        BY <2>1 DEF CandidateType, MarkInv, MarksPrepared
      <3>10. MarksPrepared'
        BY <2>1, <3>3, <3>4, <3>5, <3>8, <3>9 DEF MarkInv, MarksPrepared
      <3> QED
        BY <2>2, <3>7, <3>10 DEF MarkInv
    <2>5. CASE ~Unchanged(p)
      <3>1. /\ folder' = folder
            /\ cand' = [cand EXCEPT !.missed = TRUE, !.untouched = @ \cup ({p} \cap cand.taken)]
        BY <1>4, <2>5 DEF CandidateTouches
      <3>2. /\ cand'.keep = cand.keep /\ cand'.colls = cand.colls /\ cand'.target = cand.target
            /\ cand'.untouched = cand.untouched \cup ({p} \cap cand.taken) /\ cand'.taken = cand.taken
        BY <2>1, <3>1 DEF CandidateType
      <3>3. \A q \in Paths : MarkedAt(q)' <=> MarkedAt(q)
        BY <2>1, <3>1 DEF MarkedAt
      <3>4. MarksStand'
        BY <2>1, <2>3, <3>3 DEF MarkInv, MarksStand, PastCheck
      <3>5. MarksPrepared'
        BY <2>1, <3>1, <3>2, <3>3 DEF MarkInv, MarksPrepared
      <3> QED
        BY <2>2, <3>4, <3>5 DEF MarkInv
    <2> QED
      BY <2>4, <2>5
  <1>5. CASE CandidateMissed
    BY <1>5, NextPassMarks DEF CandidateMissed, diskVars
  <1>6. CASE CandidateSynced
    <2>1. /\ UNCHANGED <<commits, folder, outbox, res, snap>> /\ coll' = None /\ named' = None
          /\ pc' = "idle"
          /\ base' = base \/ base' = [commit |-> cand.head, files |-> HeadOfCandidate]
          /\ pc = "touch"
      BY <1>6 DEF CandidateSynced, EndRun
    <2>2. Unmarked(HeadOfCandidate)
      BY <2>1, ReadUnmarked DEF HeadOfCandidate, ShapeInv, CommitsNamed, StepsHold, CandidateSteps,
         CandidateType, MarkInv
    <2>3. TreesUnmarked'
      BY <2>1, <2>2, TreesKept DEF MarkInv
    <2> QED
      BY <2>1, <2>3, Plainly DEF Plain
  <1>7. CASE CandidateStands
    <2>1. /\ UNCHANGED <<commits, folder, base, outbox, snap>> /\ res # None
          /\ res' = [res EXCEPT !.pending = Nothing]
          /\ \/ pc' = "takenin" /\ UNCHANGED <<coll, named>>
             \/ pc' = "idle" /\ coll' = None /\ named' = None
      BY <1>7 DEF CandidateStands, EndRun, Goto, runData
    <2>2. /\ res' \in Resolution /\ res'.colls = res.colls /\ res'.reviewed = res.reviewed
          /\ res' # None
      BY <2>1 DEF ShapeInv, TypeOK, Resolution, NoneIsFresh, Nothing, Entry
    <2>3. TreesUnmarked'
      BY <2>1, TreesKept DEF MarkInv
    <2>4. \A p \in Paths : MarkedAt(p)' => MarkedAt(p)
      BY <2>1 DEF MarkedAt
    <2>5. \A p \in Paths : Excused(p) => Excused(p)'
      BY <2>1, <2>2 DEF Excused
    <2>6. MarksStand'
      BY <2>1, <2>4, <2>5 DEF MarkInv, MarksStand, PastCheck
    <2>7. MarksPrepared'
      BY <2>1 DEF MarksPrepared
    <2> QED
      BY <2>3, <2>6, <2>7 DEF MarkInv
  <1> QED
    BY <1>1, <1>2, <1>3, <1>4, <1>5, <1>6, <1>7 DEF Candidate

\* A step of a publication, or of what follows it, over a folder without marks.
LEMMA PastCheckMarks ==
  ASSUME MarkInv, TreesUnmarked', UNCHANGED <<folder, snap>>,
         \A p \in Paths : ~MarkedAt(p), coll' \in {None, coll, folder, Collected},
         pc' \in PastCheck \cup Plain, pc' = "drop_snapshots" => res' = None
  PROVE  MarkInv'
  <1>1. \A p \in Paths : ~MarkedAt(p)'
    BY DEF MarkedAt, Collected
  <1>2. MarksStand'
    BY <1>1 DEF MarksStand, MarkedAt, PastCheck, Plain
  <1>3. MarksPrepared'
    BY DEF MarksPrepared, PastCheck, Plain
  <1> QED
    BY <1>2, <1>3 DEF MarkInv

LEMMA SendBatchMarks ==
  ASSUME NoneIsFresh, ShapeInv, MarkInv, NEW batch, SendBatch(batch)
  PROVE  MarkInv'
  <1> DEFINE last == batch = req.puts
             tree == Pushed(batch, last)
  <1>1. /\ pc = "send" /\ pc' \in {"acked", "send"}
        /\ UNCHANGED <<folder, base, outbox, res, snap, coll, named>>
    BY DEF SendBatch, Goto, diskVars
  <1>2. commits' = commits \/ commits' = Append(commits, [tree |-> tree, own |-> TRUE])
    BY DEF SendBatch
  <1>3. HeadCommit \in Nat /\ TreeAt(HeadCommit) \in Tree /\ Unmarked(TreeAt(HeadCommit))
    BY HeadIsNamed, ReadUnmarked DEF ShapeInv, MarkInv
  <1>4. \A p \in Paths : ~MarkedAt(p)
    BY <1>1 DEF MarkInv, MarksStand, PastCheck
  <1>5. coll \in Tree /\ \A p \in Paths : ~HoldsMarker(coll[p])
    <2>1. \A p \in Paths : coll # None => ~HoldsMarker(coll[p])
      BY <1>4 DEF MarkedAt
    <2> QED
      BY <1>1, <2>1 DEF ShapeInv, StepsHold, NoneIsFresh
  <1>6. Unmarked(tree)
    <2>1. \A p \in Paths : tree[p] \in {coll[p], NoFile, TreeAt(HeadCommit)[p]}
      BY DEF Pushed
    <2>2. ~HoldsMarker(NoFile)
      BY DEF HoldsMarker
    <2> QED
      BY <1>3, <1>5, <2>1, <2>2 DEF Unmarked
  <1>7. CASE commits' = commits
    BY <1>1, <1>4, <1>7, TreesKept, PastCheckMarks DEF MarkInv, PastCheck
  <1>8. CASE commits' = Append(commits, [tree |-> tree, own |-> TRUE])
    <2> HIDE DEF tree, last
    <2>1. /\ HeadCommit' = HeadCommit + 1 /\ commits'[HeadCommit + 1].tree = tree
          /\ \A c \in 1 .. HeadCommit : commits'[c] = commits[c]
      BY <1>8 DEF ShapeInv, TypeOK, Commits, HeadCommit
    <2>2. TreesUnmarked'
      BY <1>1, <1>3, <1>6, <2>1 DEF TreesUnmarked, MarkInv, Unmarked
    <2> QED
      BY <1>1, <1>4, <2>2, PastCheckMarks DEF PastCheck
  <1> QED
    BY <1>2, <1>7, <1>8

LEMMA PublicationMarks ==
  ASSUME NoneIsFresh, ShapeInv, MarkInv, Publication
  PROVE  MarkInv'
  <1>0. pc \in PastCheck => \A p \in Paths : ~MarkedAt(p)
    BY DEF MarkInv, MarksStand
  <1>1. CASE PublishChanged
    <2>2. PICK changed \in SUBSET Paths : changed = Changed(res.reviewed, Collected)
      BY DEF Changed
    <2>1. /\ UNCHANGED <<commits, folder, base, outbox, snap, coll, named>> /\ res # None
          /\ res' = [res EXCEPT !.reviewed = None, !.local = @ \cup changed, !.combined = @ \cup changed]
          /\ pc' = "unreviewed" /\ pc = "publish"
      BY <1>1, <2>2 DEF PublishChanged, ReviewedElsewhere, Goto, runData
    <2>3. res' \in Resolution /\ res'.colls = res.colls /\ res'.reviewed = None /\ res' # None
      <3>1. PICK local \in SUBSET Paths, combined \in SUBSET Paths :
               local = res.local \cup changed /\ combined = res.combined \cup changed
        BY <2>1, <2>2 DEF ShapeInv, TypeOK, Resolution
      <3>2. res' = [res EXCEPT !.reviewed = None, !.local = local, !.combined = combined]
        BY <2>1, <3>1
      <3>3. res \in Resolution
        BY <2>1 DEF ShapeInv, TypeOK
      <3>4. res' \in Resolution /\ res'.colls = res.colls /\ res'.reviewed = None
        BY <3>2, <3>3 DEF Resolution
      <3> QED
        BY <3>4 DEF NoneIsFresh
    <2>4. TreesUnmarked'
      BY <2>1, TreesKept DEF MarkInv
    <2> QED
      BY <2>1, <2>3, <2>4, Plainly DEF Plain
  <1>2. CASE PublishUnreviewed \/ PublishStale \/ PublishMarked
    <2>1. /\ UNCHANGED <<commits, folder, base, res, snap>> /\ outbox' \in {None, outbox}
          /\ coll' = None /\ named' \in {None, named} /\ pc' \in {"idle", "publish"}
      BY <1>2 DEF PublishUnreviewed, PublishStale, PublishMarked, NextPublication, EndRun, Goto,
         diskVars
    <2>2. TreesUnmarked'
      BY <2>1, TreesKept DEF MarkInv
    <2> QED
      BY <2>1, <2>2, Plainly DEF Plain
  <1>3. CASE PublishRecords
    <2>1. /\ UNCHANGED <<commits, folder, base, res, snap, named>> /\ coll' = Collected
          /\ outbox' = [parent |-> Parent, tree |-> Collected]
          /\ pc' = "request" /\ pc = "publish"
      BY <1>3 DEF PublishRecords, Goto
    <2>2. \A p \in Paths : MarkedAt(p) => HoldsMarker(Collected[p])
      BY <2>1 DEF MarkInv, MarksStand, MarkedAt, Collected
    <2>3. \A p \in Paths : MarkedAt(p) => p \in CollidedFiles
      BY <2>2 DEF MarkInv, MarksStand, Excused, CollidedFiles, HoldsMarker
    <2>4. \A p \in Paths : ~MarkedAt(p)
      BY <1>3, <2>2, <2>3 DEF PublishRecords
    <2>5. Unmarked(Collected)
      BY <2>4 DEF MarkedAt, Collected, Unmarked
    <2>6. Unmarked(outbox'.tree)
      BY <2>1, <2>5
    <2>7. TreesUnmarked'
      BY <2>1, <2>6, TreesKept DEF MarkInv
    <2> QED
      BY <2>1, <2>4, <2>7, PastCheckMarks DEF PastCheck
  <1>4. CASE PublishRequest \/ PublishRefused \/ SendStale \/ SendConflicts \/ DropOutbox
    <2>1. /\ UNCHANGED <<commits, folder, base, res, snap>> /\ outbox' \in {None, outbox}
          /\ coll' \in {None, coll} /\ named' \in {None, named} /\ pc \in PastCheck
          /\ pc' \in {"idle", "publish", "send", "refused", "drop_resolution"}
      BY <1>4 DEF PublishRequest, PublishRefused, SendStale, SendConflicts, DropOutbox,
         NextPublication, EndRun, Goto, diskVars, runData, PastCheck
    <2>2. TreesUnmarked'
      BY <2>1, TreesKept DEF MarkInv
    <2> QED
      BY <1>0, <2>1, <2>2, PastCheckMarks DEF PastCheck, Plain
  <1>5. ASSUME NEW batch, SendBatch(batch)
        PROVE  MarkInv'
    BY <1>5, SendBatchMarks
  <1>6. CASE Acknowledged
    <2>1. /\ UNCHANGED <<commits, folder, outbox, res, snap, coll, named>>
          /\ base' = [commit |-> req.parent, files |-> coll]
          /\ pc = "acked" /\ pc' = "drop_outbox" /\ coll \in Tree
      BY <1>6 DEF Acknowledged, PublishedBase, Goto, runData, ShapeInv, StepsHold
    <2>2. Unmarked(base'.files)
      BY <1>0, <2>1 DEF MarkedAt, Unmarked, PastCheck, NoneIsFresh
    <2>3. TreesUnmarked'
      BY <2>1, <2>2, TreesKept DEF MarkInv
    <2> QED
      BY <1>0, <2>1, <2>3, PastCheckMarks DEF PastCheck
  <1>7. CASE DropResolution \/ RaiseRound
    <2>1. /\ UNCHANGED <<commits, folder, base, outbox, snap, coll, named>>
          /\ pc \in PastCheck /\ pc' \in {"drop_snapshots", "raised"}
          /\ pc' = "drop_snapshots" => res' = None
      BY <1>7 DEF DropResolution, RaiseRound, Goto, runData, PastCheck
    <2>2. TreesUnmarked'
      BY <2>1, TreesKept DEF MarkInv
    <2> QED
      BY <1>0, <2>1, <2>2, PastCheckMarks DEF PastCheck
  <1>8. CASE DropSnapshots
    <2>1. /\ UNCHANGED <<commits, folder, base, outbox, res>> /\ snap' = Nothing
          /\ coll' = None /\ named' = None /\ pc' = "idle" /\ pc = "drop_snapshots"
      BY <1>8 DEF DropSnapshots, EndRun
    <2>2. TreesUnmarked'
      BY <2>1 DEF MarkInv, TreesUnmarked, Unmarked, HeadCommit, Nothing
    <2>3. MarksStand'
      BY <1>0, <2>1 DEF MarksStand, PastCheck, MarkedAt
    <2>4. MarksPrepared'
      BY <2>1 DEF MarksPrepared
    <2> QED
      BY <2>2, <2>3, <2>4 DEF MarkInv
  <1>9. CASE TakeInMove \/ PrepareAgain
    <2>1. /\ UNCHANGED <<commits, folder, base, outbox, res, snap, named>> /\ coll' = None
          /\ pc \in {"refused", "raised"}
      BY <1>9 DEF TakeInMove, PrepareAgain, diskVars
    <2>2. TreesUnmarked'
      BY <2>1, TreesKept DEF MarkInv
    <2>3. \A p \in Paths : ~MarkedAt(p)
      BY <1>0, <2>1 DEF PastCheck
    <2>4. CASE PrepareAgain
      BY <2>1, <2>2, <2>3, <2>4, PrepareMarks DEF PrepareAgain
    <2>5. CASE TakeInMove
      BY <2>1, <2>2, <2>3, <2>5, PrepareMarks DEF TakeInMove
    <2> QED
      BY <1>9, <2>4, <2>5
  <1>10. CASE TakenInCollided
    <2>1. /\ UNCHANGED <<commits, folder, base, outbox, snap>> /\ coll' = None /\ named' = None
          /\ pc' = "idle" /\ pc = "takenin" /\ res \in Resolution
          /\ res' = [res EXCEPT !.round = @ + 1]
      BY <1>10 DEF TakenInCollided, EndRun, ShapeInv, StepsHold
    <2>2. res' \in Resolution /\ res' # None /\ res'.colls = res.colls /\ res'.reviewed = res.reviewed
      BY <2>1 DEF Resolution, NoneIsFresh
    <2>3. TreesUnmarked'
      BY <2>1, TreesKept DEF MarkInv
    <2>4. \A p \in Paths : MarkedAt(p)' => MarkedAt(p)
      BY <2>1 DEF MarkedAt
    <2>5. \A p \in Paths : Excused(p) => Excused(p)'
      BY <2>1, <2>2 DEF Excused
    <2>6. MarksStand'
      BY <2>1, <2>4, <2>5 DEF MarkInv, MarksStand, PastCheck
    <2>7. MarksPrepared'
      BY <2>1 DEF MarksPrepared
    <2> QED
      BY <2>3, <2>6, <2>7 DEF MarkInv
  <1>11. CASE TakenIn
    <2>1. /\ UNCHANGED <<commits, folder, base, outbox, snap>> /\ coll' = None
          /\ named' = [commit |-> cand.head, files |-> HeadOfCandidate]
          /\ pc' = "publish" /\ pc = "takenin" /\ res.colls = {}
      BY <1>11 DEF TakenIn, Goto
    <2>2. Unmarked(HeadOfCandidate)
      BY <2>1, ReadUnmarked DEF HeadOfCandidate, ShapeInv, CommitsNamed, StepsHold, CandidateSteps,
         CandidateType, MarkInv
    <2>3. TreesUnmarked'
      BY <2>1, <2>2, TreesKept DEF MarkInv
    <2>4. \A p \in Paths : ~MarkedAt(p)
      BY <2>1 DEF MarkInv, MarksStand, Excused
    <2> QED
      BY <2>1, <2>3, <2>4, PastCheckMarks DEF Plain
  <1> QED
    BY <1>1, <1>2, <1>3, <1>4, <1>5, <1>6, <1>7, <1>8, <1>9, <1>10, <1>11 DEF Publication

LEMMA OverwriteMarks ==
  ASSUME NoneIsFresh, ShapeInv, MarkInv, Overwrite
  PROVE  MarkInv'
  <1>1. CASE OverwriteStale
    <2>1. /\ UNCHANGED <<commits, folder, base, outbox, res, snap>> /\ coll' = None /\ named' = None
          /\ pc' = "idle" /\ pc = "oversnap"
      BY <1>1 DEF OverwriteStale, EndRun, diskVars
    <2>2. TreesUnmarked'
      BY <2>1, TreesKept DEF MarkInv
    <2> QED
      BY <2>1, <2>2, Plainly DEF Plain
  <1>2. CASE OverwriteSnapshot
    <2> DEFINE stored == StoresPrior(cand.target, KeptSnapshot)
    <2>1. /\ UNCHANGED <<commits, folder, base, outbox, res, coll, named, cand>>
          /\ pc' = "overwrite" /\ pc = "oversnap" /\ todo' = Targets(cand.target)
          /\ snap' = [p \in Paths |-> IF p \in stored THEN Prior(p) ELSE KeptSnapshot[p]]
      BY <1>2 DEF OverwriteSnapshot, Goto
    <2>2. coll \in Tree /\ coll # None /\ folder \in Tree
      BY <2>1 DEF ShapeInv, StepsHold, TypeOK, NoneIsFresh
    <2>3. \A p \in stored : p \in Paths /\ KeptSnapshot[p] = None
      BY DEF StoresPrior, Targets
    <2>4. \A p \in Paths : MarkedAt(p) => KeptSnapshot[p] = snap[p] /\ snap[p] # None
      BY <2>1 DEF KeptSnapshot, MarkInv, MarksStand, MarksPrepared, Excused
    <2>5. \A p \in stored : ~HoldsMarker(Prior(p))
      BY <2>2, <2>3, <2>4 DEF Prior, MarkedAt
    <2>6. \A p \in Paths : snap'[p] # None => ~HoldsMarker(snap'[p])
      <3>1. \A p \in Paths : KeptSnapshot[p] # None => ~HoldsMarker(KeptSnapshot[p])
        BY DEF KeptSnapshot, Nothing, MarkInv, TreesUnmarked
      <3> QED
        BY <2>1, <2>5, <3>1
    <2>7. TreesUnmarked'
      BY <2>1, <2>6 DEF MarkInv, TreesUnmarked, Unmarked, HeadCommit
    <2>8. \A p \in Paths : MarkedAt(p) => Excused(p)'
      BY <2>1, <2>3, <2>4 DEF MarkInv, MarksStand, Excused
    <2>9. \A p \in Paths : MarkedAt(p)' <=> MarkedAt(p)
      BY <2>1 DEF MarkedAt
    <2>10. MarksStand'
      BY <2>1, <2>8, <2>9 DEF MarkInv, MarksStand, PastCheck
    <2>11. MarksPrepared'
      BY <2>1 DEF MarkInv, MarksPrepared, Targets
    <2> QED
      BY <2>7, <2>10, <2>11 DEF MarkInv
  <1>3. ASSUME NEW p \in Paths, OverwriteTouches(p)
        PROVE  MarkInv'
    <2>1. /\ UNCHANGED <<commits, base, outbox, res, snap, named, coll, pc, mode, cand>>
          /\ pc = "overwrite" /\ todo' = todo \ {p} /\ folder \in Tree
          /\ p \in todo /\ todo \subseteq Targets(cand.target)
          /\ folder' = [folder EXCEPT ![p] = cand.target[p]]
      BY <1>3 DEF OverwriteTouches, SetFile, ShapeInv, TypeOK, StepsHold
    <2>2. ~HoldsMarker(cand.target[p])
      BY <2>1 DEF Targets, MarkInv, MarksPrepared
    <2>3. \A q \in Paths : HoldsMarker(folder'[q]) => HoldsMarker(folder[q]) /\ q # p
      BY <2>1, <2>2 DEF Tree
    <2>4. TreesUnmarked'
      BY <2>1, TreesKept DEF MarkInv
    <2> QED
      BY <2>1, <2>3, <2>4, Unmarks
  <1>4. CASE OverwriteRecords
    <2>1. /\ UNCHANGED <<commits, folder, outbox, res, snap, coll, named>> /\ pc = "overwrite"
          /\ todo = {} /\ pc' = "overwritten"
          /\ base' = base \/ base' = [commit |-> cand.head, files |-> HeadOfCandidate]
      BY <1>4 DEF OverwriteRecords, Goto, runData
    <2>2. Unmarked(HeadOfCandidate)
      BY <2>1, ReadUnmarked DEF HeadOfCandidate, ShapeInv, CommitsNamed, StepsHold, CandidateSteps,
         CandidateType, MarkInv
    <2>3. TreesUnmarked'
      BY <2>1, <2>2, TreesKept DEF MarkInv
    <2>4. \A p \in Paths : ~HoldsMarker(folder[p])
      BY <2>1 DEF MarkInv, MarksPrepared
    <2>5. MarksStand'
      BY <2>1, <2>4, MarksSame DEF MarkInv, MarksStand, PastCheck
    <2>6. MarksPrepared'
      BY <2>1 DEF MarksPrepared
    <2> QED
      BY <2>3, <2>5, <2>6 DEF MarkInv
  <1>5. CASE OverwriteEnds
    <2>1. /\ UNCHANGED <<commits, folder, base, outbox, snap>> /\ res' = None
          /\ coll' = None /\ named' = None /\ pc' = "idle" /\ pc = "overwritten"
      BY <1>5 DEF OverwriteEnds, EndRun
    <2>2. TreesUnmarked'
      BY <2>1, TreesKept DEF MarkInv
    <2>3. MarksStand'
      BY <2>1 DEF MarkInv, MarksStand, MarkedAt, PastCheck
    <2>4. MarksPrepared'
      BY <2>1 DEF MarksPrepared
    <2> QED
      BY <2>2, <2>3, <2>4 DEF MarkInv
  <1> QED
    BY <1>1, <1>2, <1>3, <1>4, <1>5 DEF Overwrite

LEMMA DiscardMarks ==
  ASSUME ShapeInv, MarkInv, Discard
  PROVE  MarkInv'
  <1>1. ASSUME NEW p \in Paths, DiscardRestores(p)
        PROVE  MarkInv'
    <2>1. /\ UNCHANGED <<commits, base, outbox, res, snap, named, coll, pc, mode, cand>>
          /\ pc = "discard" /\ todo' = todo \ {p} /\ folder \in Tree
          /\ p \in todo /\ snap[p] # None /\ folder' = [folder EXCEPT ![p] = snap[p]]
      BY <1>1 DEF DiscardRestores, SetFile, ShapeInv, TypeOK, StepsHold
    <2>2. ~HoldsMarker(snap[p])
      BY <2>1 DEF MarkInv, TreesUnmarked
    <2>3. \A q \in Paths : HoldsMarker(folder'[q]) => HoldsMarker(folder[q]) /\ q # p
      BY <2>1, <2>2 DEF Tree
    <2>4. TreesUnmarked'
      BY <2>1, TreesKept DEF MarkInv
    <2> QED
      BY <2>1, <2>3, <2>4, Unmarks
  <1>2. CASE DiscardRestored
    <2>1. /\ UNCHANGED <<commits, folder, base, outbox, res, snap, coll, named>> /\ pc = "discard"
          /\ todo = {} /\ pc' = "drop_outbox"
      BY <1>2 DEF DiscardRestored, Goto, diskVars, runData
    <2>2. \A p \in Paths : ~MarkedAt(p)
      BY <2>1 DEF MarkInv, MarksStand, MarkedAt
    <2>3. TreesUnmarked'
      BY <2>1, TreesKept DEF MarkInv
    <2> QED
      BY <2>1, <2>2, <2>3, PastCheckMarks DEF PastCheck
  <1> QED
    BY <1>1, <1>2 DEF Discard

LEMMA InitMarks ==
  ASSUME SeedUnmarked, Init
  PROVE  MarkInv
  <1>1. /\ Unmarked(folder) /\ Unmarked(base.files)
        /\ \A c \in 1 .. HeadCommit : commits[c].tree = SeedTree
    <2>1. Unmarked(EmptyTree)
      BY DEF Unmarked, EmptyTree, HoldsMarker
    <2> QED
      BY <2>1 DEF Init, SeedUnmarked, NoBase, HeadCommit
  <1>2. /\ outbox = None /\ res = None /\ snap = Nothing /\ pc = "idle" /\ coll = None /\ named = None
    BY DEF Init
  <1>3. TreesUnmarked
    BY <1>1, <1>2 DEF TreesUnmarked, SeedUnmarked, Nothing
  <1>4. MarksStand
    BY <1>1, <1>2 DEF MarksStand, MarkedAt, Unmarked, PastCheck
  <1>5. MarksPrepared
    BY <1>2 DEF MarksPrepared
  <1> QED
    BY <1>3, <1>4, <1>5 DEF MarkInv

LEMMA MarksStay ==
  ASSUME NoneIsFresh, ShapeInv, MarkInv, [Next]_vars
  PROVE  MarkInv'
  <1>1. CASE World
    BY <1>1, WorldMarks
  <1>2. CASE RunStep
    BY <1>2, SettleMarks, FromResolutionMarks, FromHeadMarks, CandidateMarks, PublicationMarks,
       OverwriteMarks, DiscardMarks DEF RunStep
  <1>3. CASE UNCHANGED vars
    BY <1>3 DEF vars, diskVars, runVars, runData, ghosts, MarkInv, TreesUnmarked, MarksStand,
       MarksPrepared, MarkedAt, Excused, Unmarked, HeadCommit
  <1> QED
    BY <1>1, <1>2, <1>3 DEF Next

\* No commit of the copy carries a marker a preparation wrote: where the seed
\* holds none, no commit does, so what a publication checks, the collided
\* files of the standing resolution, is all there is to check.
THEOREM MarkersNeverPublished ==
  ASSUME NoneIsFresh, SeedUnmarked
  PROVE  Spec => []MarkersStayLocal
  <1>1. Init => MarkInv
    BY InitMarks
  <1>2. ShapeInv /\ MarkInv /\ [Next]_vars => MarkInv'
    BY MarksStay
  <1>3. MarkInv => MarkersStayLocal
    BY DEF MarkInv, TreesUnmarked, Unmarked, MarkersStayLocal
  <1> QED
    BY <1>1, <1>2, <1>3, ShapeIsInvariant, PTL DEF Spec

-----------------------------------------------------------------------------
(***************************************************************************)
(* The user's work.  A text of the user's is in the folder or in a commit  *)
(* as long as it was not given up; a discard puts back the snapshots that  *)
(* hold it.  A candidate's target for a path holds every text the path     *)
(* held, but those its base held, and what the base held was committed.    *)
(***************************************************************************)
Committed(p, text) == \E c \in 1 .. HeadCommit : text \in TextOf(commits[c].tree[p])

WorkKept ==
    \A p \in Paths : mine[p] # 0 => mine[p] \in TextOf(folder[p]) \/ Committed(p, mine[p])

WorkGivenUp ==
    /\ pc \in {"oversnap", "overwrite"} => mode = "overwrite"
    /\ mode = "overwrite" => \A p \in Paths : mine[p] = 0
    /\ pc = "discard" =>
          /\ mode = "discard"
          /\ \A p \in todo : mine[p] # 0 => mine[p] \in TextOf(snap[p])

Comparing == {"plan", "snapshot", "resolve", "touch"}

WorkCompared ==
    /\ pc \in RequestSteps => StoodAt(req.reference, req.origin)
    /\ pc \in Comparing => StoodAt(cand.tree, cand.base)
    /\ pc \in {"resolve", "touch"} =>
          \A p \in Targets(cand.target) : \A text \in TextOf(cand.before[p]) :
              text \in TextOf(cand.target[p]) \/ Committed(p, text)

WorkInv == WorkKept /\ WorkGivenUp /\ WorkCompared

\* What tells a text from no file.
NoFileIsFresh == NoFile \notin Text

\* What was committed stays so, and so does a tree read at a commit.
LEMMA CommittedStays ==
  ASSUME ShapeInv,
         \/ commits' = commits
         \/ \E tree \in Tree, own \in BOOLEAN :
               commits' = Append(commits, [tree |-> tree, own |-> own])
  PROVE  /\ \A p, text : Committed(p, text) => Committed(p, text)'
         /\ \A files, c : c \in Nat /\ c <= HeadCommit /\ StoodAt(files, c) =>
               \A p \in Paths : files[p] # NoFile => files[p] = TreeAt(c)'[p]
  <1>0. HeadCommit \in Nat
    BY HeadIsNamed DEF ShapeInv
  <1>1. HeadCommit \in Nat /\ HeadCommit' \in Nat /\ HeadCommit <= HeadCommit'
        /\ \A c \in 1 .. HeadCommit : commits'[c] = commits[c]
    <2>1. CASE commits' = commits
      BY <1>0, <2>1 DEF HeadCommit
    <2>2. ASSUME NEW tree \in Tree, NEW own \in BOOLEAN,
                 commits' = Append(commits, [tree |-> tree, own |-> own])
          PROVE  /\ HeadCommit' \in Nat /\ HeadCommit <= HeadCommit'
                 /\ \A c \in 1 .. HeadCommit : commits'[c] = commits[c]
      <3>1. HeadCommit' = HeadCommit + 1 /\ \A c \in 1 .. HeadCommit : commits'[c] = commits[c]
        BY <2>2, AppendedCommit DEF ShapeInv
      <3> QED
        BY <1>0, <3>1
    <2> QED
      BY <1>0, <2>1, <2>2
  <1>2. \A p, text : Committed(p, text) => Committed(p, text)'
    BY <1>1 DEF Committed
  <1>3. \A c \in Nat : c <= HeadCommit => TreeAt(c)' = TreeAt(c)
    BY <1>1 DEF TreeAt
  <1> QED
    BY <1>2, <1>3 DEF StoodAt

\* A step that leaves the folder and the commits, to one that stands on nothing.
Resting == Steps \ (RequestSteps \cup Comparing \cup {"oversnap", "overwrite", "discard"})

LEMMA WorkRests ==
  ASSUME WorkInv, UNCHANGED <<commits, folder>>, \A p \in Paths : mine'[p] \in {0, mine[p]},
         mode' \in {mode, "none"}, pc' \in Resting
  PROVE  WorkInv'
  <1>1. WorkKept'
    BY DEF WorkInv, WorkKept, Committed, HeadCommit
  <1>2. WorkGivenUp'
    BY DEF WorkInv, WorkGivenUp, Resting
  <1>3. WorkCompared'
    BY DEF WorkCompared, Resting, Comparing
  <1> QED
    BY <1>1, <1>2, <1>3 DEF WorkInv

\* What a commit's tree was, left out of or not, stood in it.
LEMMA WithoutStood ==
  ASSUME NEW files, NEW c, NEW excluded, StoodAt(files, c)
  PROVE  StoodAt(Without(files, excluded), c)
  BY DEF StoodAt, Without

LEMMA WorldWork ==
  ASSUME NoneIsFresh, NoFileIsFresh, ShapeInv, WorkInv, World
  PROVE  WorkInv'
  <1>1. ASSUME NEW p \in Paths, UserEdits(p) \/ UserDeletes(p) \/ UserResolvesMarkers(p)
        PROVE  WorkInv'
    <2>1. /\ folder \in Tree /\ mine \in [Paths -> Nat] /\ texts \in Nat /\ todo \subseteq Paths
          /\ UNCHANGED <<commits, snap, pc, mode, todo, req, cand>>
      BY <1>1 DEF ShapeInv, TypeOK, UserEdits, UserDeletes, UserResolvesMarkers, runVars, runData
    <2>2. \A q \in Paths : q # p => folder'[q] = folder[q] /\ mine'[q] = mine[q]
      BY <1>1, <2>1 DEF UserEdits, UserDeletes, UserResolvesMarkers, SetFile, Tree
    <2>3. /\ mine'[p] # 0 => mine'[p] \in TextOf(folder'[p]) \/ Committed(p, mine'[p])
          /\ mode \in {"overwrite", "discard"} => mine'[p] \in {0, mine[p]}
      <3>1. CASE UserEdits(p)
        <4>1. folder'[p] = {texts + 1} /\ mine'[p] \in {0, texts + 1}
              /\ (mode \in {"overwrite", "discard"} => mine'[p] = 0)
          BY <2>1, <3>1 DEF UserEdits, SetFile, Tree
        <4>2. texts + 1 \in TextOf(folder'[p])
          BY <2>1, <4>1 DEF TextOf, NoFileIsFresh, Text
        <4> QED
          BY <4>1, <4>2
      <3>2. CASE UserDeletes(p)
        BY <2>1, <3>2 DEF UserDeletes
      <3>3. CASE UserResolvesMarkers(p)
        <4>1. mine' = mine /\ folder'[p] = folder[p] \ {Marker} /\ folder[p] # NoFile
          BY <2>1, <3>3 DEF UserResolvesMarkers, SetFile, HoldsMarker, Tree
        <4> QED
          BY <2>1, <4>1 DEF WorkInv, WorkKept, TextOf, Marker, Tree, Content, Text, NoFileIsFresh
      <3> QED
        BY <1>1, <3>1, <3>2, <3>3
    <2>4. \A q, text : Committed(q, text)' <=> Committed(q, text)
      BY <2>1 DEF Committed, HeadCommit
    <2>5. WorkKept'
      BY <2>2, <2>3, <2>4 DEF WorkInv, WorkKept
    <2>6. WorkGivenUp'
      BY <2>1, <2>2, <2>3 DEF WorkInv, WorkGivenUp
    <2>7. WorkCompared'
      BY <2>1, <2>4 DEF WorkInv, WorkCompared, StoodAt, TreeAt
    <2> QED
      BY <2>5, <2>6, <2>7 DEF WorkInv
  <1>2. ASSUME NEW p \in Paths, OtherCommits(p)
        PROVE  WorkInv'
    <2>1. UNCHANGED <<folder, snap, pc, mode, todo, req, cand, mine>>
      BY <1>2 DEF OtherCommits, diskVars, runVars, runData
    <2>2. \E tree \in Tree, own \in BOOLEAN : commits' = Append(commits, [tree |-> tree, own |-> own])
      <3>1. PICK content \in {{texts + 1}, NoFile} \cup {commits[c].tree[p] : c \in 1 .. HeadCommit} :
              commits' = Append(commits, [tree |-> [TreeAt(HeadCommit) EXCEPT ![p] = content],
                                          own  |-> FALSE])
        BY <1>2 DEF OtherCommits
      <3>2. content \in Content
        BY OtherContent DEF ShapeInv
      <3> QED
        BY <3>1, <3>2, HeadIsNamed DEF ShapeInv, Tree
    <2>3. WorkKept' /\ WorkGivenUp'
      BY <2>1, <2>2, CommittedStays DEF WorkInv, WorkKept, WorkGivenUp
    <2>4. WorkCompared'
      <3>1. pc \in RequestSteps => req.origin \in Nat /\ req.origin <= HeadCommit
        BY DEF ShapeInv, StepsHold, CommitsNamed, RequestType
      <3>2. pc \in Comparing => cand.base \in Nat /\ cand.base <= HeadCommit
        BY DEF ShapeInv, StepsHold, CommitsNamed, CandidateType, CandidateSteps, Comparing
      <3>3. pc \in RequestSteps => StoodAt(req.reference, req.origin)'
        BY <2>1, <2>2, <3>1, CommittedStays DEF WorkInv, WorkCompared, StoodAt
      <3>4. pc \in Comparing => StoodAt(cand.tree, cand.base)'
        BY <2>1, <2>2, <3>2, CommittedStays DEF WorkInv, WorkCompared, StoodAt
      <3> QED
        BY <2>1, <2>2, <3>3, <3>4, CommittedStays DEF WorkInv, WorkCompared, Targets
    <2> QED
      BY <2>3, <2>4 DEF WorkInv
  <1>3. ASSUME NEW m \in Modes, Start(m)
        PROVE  WorkInv'
    <2>1. /\ UNCHANGED <<commits, folder, snap>> /\ mode' = m
          /\ m = "discard" => pc' = "discard" /\ todo' = {p \in Paths : snap[p] # None}
          /\ m # "discard" => pc' = "settle"
      BY <1>3 DEF Start, Goto, diskVars
    <2>2. CASE m = "overwrite"
      <3>1. \A p \in Paths : mine'[p] = 0
        BY <1>3, <2>2 DEF Start
      <3>2. WorkKept' /\ WorkGivenUp' /\ WorkCompared'
        BY <2>1, <2>2, <3>1 DEF WorkKept, WorkGivenUp, WorkCompared, RequestSteps, Comparing
      <3> QED
        BY <3>2 DEF WorkInv
    <2>3. CASE m = "discard"
      <3>1. mine' = [p \in Paths |-> IF snap[p] = None \/ mine[p] \in TextOf(snap[p]) THEN mine[p] ELSE 0]
        BY <1>3, <2>3 DEF Start
      <3>2. WorkKept'
        BY <2>1, <3>1 DEF WorkInv, WorkKept, Committed, HeadCommit
      <3>3. WorkGivenUp' /\ WorkCompared'
        BY <2>1, <2>3, <3>1 DEF WorkGivenUp, WorkCompared, RequestSteps, Comparing
      <3> QED
        BY <3>2, <3>3 DEF WorkInv
    <2>4. CASE m \notin {"overwrite", "discard"}
      <3>1. mine' = mine
        BY <1>3, <2>4 DEF Start
      <3>2. WorkKept'
        BY <2>1, <3>1 DEF WorkInv, WorkKept, Committed, HeadCommit
      <3>3. WorkGivenUp' /\ WorkCompared'
        BY <2>1, <2>4, <3>1 DEF WorkGivenUp, WorkCompared, RequestSteps, Comparing
      <3> QED
        BY <3>2, <3>3 DEF WorkInv
    <2> QED
      BY <2>2, <2>3, <2>4
  <1>4. CASE Stop
    BY <1>4, WorkRests DEF Stop, EndRun, diskVars, Resting, Steps, RequestSteps, Comparing
  <1> QED
    BY <1>1, <1>2, <1>3, <1>4 DEF World

\* The steps that neither send nor prepare anything.
LEMMA RestingWork ==
  ASSUME WorkInv,
         \/ Settle \/ NoResolution \/ Attention \/ ResumeReviewed \/ OverwriteResolution \/ Continue
         \/ FolderHoldsHead \/ HeadIsBase \/ CandidateSynced \/ CandidateStands
         \/ PublishChanged \/ PublishUnreviewed \/ PublishStale \/ PublishMarked
         \/ PublishRecords \/ PublishRefused \/ SendStale \/ Acknowledged
         \/ DropOutbox \/ DropResolution \/ DropSnapshots \/ TakenInCollided \/ TakenIn
         \/ OverwriteStale \/ OverwriteRecords \/ OverwriteEnds \/ DiscardRestored
  PROVE  WorkInv'
  <1> USE DEF Goto, EndRun, diskVars, runData, ghosts, Resting, Steps, RequestSteps, Comparing
  <1>1. CASE Settle
    BY <1>1, WorkRests DEF Settle, NothingToSettle, SettleLanded, SettleWithoutToken,
       SettleResumes, SettleDrops, LandedKeepsReview, LandedDropsResolution,
       LandedDropsSnapshots, LandedDropsOutbox
  <1>2. CASE NoResolution \/ Attention \/ ResumeReviewed \/ OverwriteResolution
    BY <1>2, WorkRests DEF NoResolution, Attention, ResumeReviewed, OverwriteResolution
  <1>3. CASE Continue
    BY <1>3, WorkRests DEF Continue
  <1>4. CASE FolderHoldsHead \/ HeadIsBase \/ CandidateSynced \/ CandidateStands
    BY <1>4, WorkRests DEF FolderHoldsHead, HeadIsBase, CandidateSynced, CandidateStands
  <1>5. CASE PublishChanged \/ PublishUnreviewed \/ PublishStale \/ PublishMarked \/ PublishRecords
    BY <1>5, WorkRests DEF PublishChanged, PublishUnreviewed, PublishStale, PublishMarked,
       PublishRecords, NextPublication
  <1>6. CASE PublishRefused \/ SendStale \/ Acknowledged \/ DropOutbox \/ DropResolution \/ DropSnapshots
    BY <1>6, WorkRests DEF PublishRefused, SendStale, Acknowledged, DropOutbox, DropResolution,
       DropSnapshots, NextPublication
  <1>7. CASE TakenInCollided \/ TakenIn \/ OverwriteStale \/ OverwriteRecords \/ OverwriteEnds
             \/ DiscardRestored
    BY <1>7, WorkRests DEF TakenInCollided, TakenIn, OverwriteStale, OverwriteRecords,
       OverwriteEnds, DiscardRestored
  <1> QED
    BY <1>1, <1>2, <1>3, <1>4, <1>5, <1>6, <1>7

\* The merge base of a path and what its base held were committed.
LEMMA ComparedCommitted ==
  ASSUME ShapeInv, WorkInv, pc \in Comparing, NEW p \in Paths, NEW text,
         text \in TextOf(ComparedBase[p])
  PROVE  Committed(p, text)
  <1>1. ComparedBase[p] # NoFile
    BY DEF TextOf
  <1>2. ComparedBase[p] = TreeAt(cand.base)[p]
    BY <1>1, WithoutStood DEF WorkInv, WorkCompared, ComparedBase, StoodAt
  <1>3. cand.base \in Nat /\ cand.base <= HeadCommit
    BY DEF ShapeInv, StepsHold, CommitsNamed, CandidateType, CandidateSteps, Comparing
  <1>4. cand.base # 0
    BY <1>1, <1>2 DEF TreeAt, EmptyTree
  <1>5. cand.base \in 1 .. HeadCommit
    BY <1>3, <1>4, HeadIsNamed DEF ShapeInv
  <1> QED
    BY <1>2, <1>4, <1>5 DEF TreeAt, Committed

\* What a pass collected of a path it is to write over is in what it writes,
\* or was committed.
LEMMA TargetHoldsWork ==
  ASSUME NoneIsFresh, NoFileIsFresh, ShapeInv, WorkInv, pc = "snapshot",
         NEW merged, \A q \in ToMerge : merged[q] \in MergeResults(q),
         NEW p \in Targets(Target(merged)), NEW text \in TextOf(coll[p])
  PROVE  text \in TextOf(Target(merged)[p]) \/ Committed(p, text)
  <1>0. /\ p \in Paths /\ Target(merged)[p] # None
        /\ cand \in CandidateType /\ coll \in Tree /\ cand.head <= HeadCommit
    BY DEF Targets, ShapeInv, StepsHold, CommitsNamed, CandidateSteps
  <1>1. coll[p] # NoFile /\ coll[p] \in Text
    BY <1>0 DEF TextOf, Tree, Content
  <1>2. CASE p \in TakenFromHead
    <2>1. ComparedBase[p] = coll[p]
      BY <1>0, <1>2 DEF TakenFromHead, RemoteOnly, Changed
    <2> QED
      BY <1>0, <2>1, ComparedCommitted DEF Comparing
  <1>3. CASE p \in DeleteModify(ComparedBase, coll, ComparedHead)
    BY <1>1, <1>3 DEF DeleteModify
  <1>4. CASE p \in ToMerge
    <2>1. /\ Target(merged)[p] = merged[p]
      BY <1>0, <1>4 DEF Target, ToMerge, TakenFromHead, RemoteOnly, DeleteModify, BothHold,
         Collisions, ChangedByBoth
    <2>2. ComparedHead[p] \in Text
      BY <1>0, <1>4, ComparedAreTrees DEF ShapeInv, ToMerge, BothHold, Tree, Content
    <2>3. MergeBase(p) \in Text /\ \A t \in MergeBase(p) : t \in TextOf(ComparedBase[p])
      <3>1. ComparedBase[p] \in Content
        BY <1>0, ComparedAreTrees DEF ShapeInv, Tree
      <3> QED
        BY <3>1 DEF MergeBase, TextOf, Text, Content
    <2>4. \/ merged[p] = MarkedMerge(MergeBase(p), coll[p], ComparedHead[p])
          \/ merged[p] = CleanMerge(MergeBase(p), coll[p], ComparedHead[p])
      BY <1>0, <1>4, <2>1 DEF MergeResults
    <2>5. merged[p] \in Text
      BY <1>1, <2>2, <2>3, <2>4 DEF MarkedMerge, CleanMerge, Text, Marker
    <2>6. text \in merged[p] \/ text \in MergeBase(p)
      BY <1>1, <2>4 DEF MarkedMerge, CleanMerge, TextOf
    <2>7. TextOf(merged[p]) = merged[p]
      BY <2>5 DEF TextOf, NoFileIsFresh
    <2> QED
      BY <1>0, <2>1, <2>3, <2>6, <2>7, ComparedCommitted DEF Comparing
  <1>5. CASE ~(p \in TakenFromHead \/ p \in DeleteModify(ComparedBase, coll, ComparedHead)
               \/ p \in ToMerge)
    BY <1>0, <1>5 DEF Target
  <1> QED
    BY <1>2, <1>3, <1>4, <1>5

LEMMA CandidateWork ==
  ASSUME NoneIsFresh, NoFileIsFresh, ShapeInv, NoneBehind, WorkInv, Candidate
  PROVE  WorkInv'
  <1>0. pc \in CandidateSteps => cand \in CandidateType
    BY DEF ShapeInv, StepsHold
  <1>1. CASE CandidatePlan
    <2>1. /\ UNCHANGED <<commits, folder, mine, mode>> /\ pc = "plan" /\ pc' = "snapshot"
          /\ cand' = [cand EXCEPT !.excluded = ExcludedOnDisk(Collected)]
      BY <1>1 DEF CandidatePlan, Goto, diskVars, ghosts
    <2>2. cand'.tree = cand.tree /\ cand'.base = cand.base
      BY <1>0, <2>1 DEF CandidateType, CandidateSteps
    <2>3. WorkKept' /\ WorkGivenUp' /\ WorkCompared'
      BY <2>1, <2>2 DEF WorkInv, WorkKept, WorkGivenUp, WorkCompared, Committed, HeadCommit, StoodAt,
         TreeAt, RequestSteps, Comparing
    <2> QED
      BY <2>3 DEF WorkInv
  <1>2. ASSUME UNCHANGED <<commits, diskVars, ghosts>>, NextPass, pc \in Comparing
        PROVE  WorkInv'
    <2>0. UNCHANGED <<commits, folder, mine>>
      BY <1>2 DEF diskVars, ghosts
    <2>1. CASE pc' = "idle"
      BY <1>2, <2>0, <2>1, WorkRests DEF NextPass, EndRun, Goto, Resting, Steps, RequestSteps, Comparing
    <2>2. CASE pc' # "idle"
      <3>1. pc' = "plan" /\ mode' = mode /\ cand' = [cand EXCEPT !.missed = FALSE]
        BY <1>2, <2>2 DEF NextPass, EndRun, Goto
      <3>2. cand'.tree = cand.tree /\ cand'.base = cand.base
        BY <1>0, <1>2, <3>1 DEF CandidateType, CandidateSteps, Comparing
      <3>3. WorkKept' /\ WorkGivenUp' /\ WorkCompared'
        BY <1>2, <2>0, <3>1, <3>2 DEF WorkInv, WorkKept, WorkGivenUp, WorkCompared, Committed,
           HeadCommit, StoodAt, TreeAt, RequestSteps, Comparing
      <3> QED
        BY <3>3 DEF WorkInv
    <2> QED
      BY <2>1, <2>2
  <1>3. CASE CandidateReads
    <2>1. PICK merged : /\ \A p \in ToMerge : merged[p] \in MergeResults(p)
                        /\ CandidateStale(Target(merged)) \/ CandidateSnapshot(Target(merged))
      BY <1>3 DEF CandidateReads
    <2>2. pc = "snapshot"
      BY <1>3 DEF CandidateReads
    <2>3. CASE CandidateStale(Target(merged))
      BY <1>2, <2>2, <2>3 DEF CandidateStale, Comparing
    <2>4. CASE CandidateSnapshot(Target(merged))
      <3> DEFINE target == Target(merged)
      <3>1. /\ UNCHANGED <<commits, folder, mine, mode, coll>> /\ pc' = "resolve"
            /\ cand' = [cand EXCEPT
                        !.target = target, !.taken = StoresPrior(target, KeptSnapshot), !.untouched = {},
                        !.before = [p \in Paths |-> Prior(p)],
                        !.keep   = TRUE,
                        !.local  = @ \cup LocalOnly(ComparedBase, coll, ComparedHead),
                        !.colls  = @ \cup Collided]
        BY <2>4 DEF CandidateSnapshot, Goto
      <3>2. /\ cand'.tree = cand.tree /\ cand'.base = cand.base /\ cand'.target = target
            /\ cand'.before = [p \in Paths |-> Prior(p)]
        BY <1>0, <2>2, <3>1 DEF CandidateType, CandidateSteps
      <3>3. coll \in Tree /\ \A p \in Paths : Prior(p) = coll[p]
        BY <2>2 DEF ShapeInv, StepsHold, NoneBehind, Prior, Rewriting, NoneIsFresh
      <3>4. \A p \in Targets(target) : \A text \in TextOf(coll[p]) :
               text \in TextOf(target[p]) \/ Committed(p, text)
        BY <2>1, <2>2, TargetHoldsWork
      <3>5. \A p \in Targets(target) : p \in Paths
        BY DEF Targets
      <3> HIDE DEF target
      <3>6. \A p, text : Committed(p, text)' <=> Committed(p, text)
        BY <3>1 DEF Committed, HeadCommit
      <3>7. Targets(cand.target)' = Targets(target)
        BY <3>2 DEF Targets
      <3>8. WorkKept' /\ WorkGivenUp'
        BY <3>1, <3>6 DEF WorkInv, WorkKept, WorkGivenUp
      <3>9. StoodAt(cand.tree, cand.base)'
        BY <2>2, <3>1, <3>2 DEF WorkInv, WorkCompared, StoodAt, TreeAt, Comparing
      <3>10. WorkCompared'
        BY <3>1, <3>2, <3>3, <3>4, <3>5, <3>6, <3>7, <3>9 DEF WorkCompared, RequestSteps
      <3> QED
        BY <3>8, <3>10 DEF WorkInv
    <2> QED
      BY <2>1, <2>3, <2>4
  <1>4. CASE CandidateResolve
    <2>1. /\ UNCHANGED <<commits, folder, mine, mode, cand>> /\ pc = "resolve" /\ pc' = "touch"
      BY <1>4 DEF CandidateResolve, Goto, ghosts
    <2>2. WorkKept' /\ WorkGivenUp' /\ WorkCompared'
      BY <2>1 DEF WorkInv, WorkKept, WorkGivenUp, WorkCompared, Committed, HeadCommit, StoodAt,
         TreeAt, RequestSteps, Comparing, Targets
    <2> QED
      BY <2>2 DEF WorkInv
  <1>5. ASSUME NEW p \in Paths, CandidateTouches(p)
        PROVE  WorkInv'
    <2>1. /\ UNCHANGED <<commits, mine, mode, pc>> /\ pc = "touch" /\ p \in todo
          /\ folder \in Tree /\ p \in Targets(cand.target)
      BY <1>5 DEF CandidateTouches, ShapeInv, StepsHold, TypeOK
    <2>2. /\ cand'.tree = cand.tree /\ cand'.base = cand.base /\ cand'.target = cand.target
          /\ cand'.before = cand.before
      <3>1. \/ cand' = cand
            \/ cand' = [cand EXCEPT !.written[p] = cand.target[p]]
            \/ cand' = [cand EXCEPT !.missed = TRUE, !.untouched = @ \cup ({p} \cap cand.taken)]
        BY <1>5 DEF CandidateTouches
      <3> QED
        BY <1>0, <2>1, <3>1 DEF CandidateType, CandidateSteps
    <2>3. \/ folder' = folder
          \/ folder' = [folder EXCEPT ![p] = cand.target[p]] /\ folder[p] = cand.before[p]
      BY <1>5 DEF CandidateTouches, SetFile, Unchanged
    <2>4. \A q, text : Committed(q, text)' <=> Committed(q, text)
      BY <2>1 DEF Committed, HeadCommit
    <2>5. \A text \in TextOf(cand.before[p]) : text \in TextOf(cand.target[p]) \/ Committed(p, text)
      BY <2>1 DEF WorkInv, WorkCompared
    <2>6. WorkKept'
      BY <2>1, <2>3, <2>4, <2>5 DEF WorkInv, WorkKept, Tree
    <2>7. WorkGivenUp'
      BY <2>1 DEF WorkInv, WorkGivenUp
    <2>8. WorkCompared'
      BY <2>1, <2>2, <2>4 DEF WorkInv, WorkCompared, StoodAt, TreeAt, RequestSteps, Comparing, Targets
    <2> QED
      BY <2>6, <2>7, <2>8 DEF WorkInv
  <1>6. CASE CandidateMissed
    BY <1>2, <1>6 DEF CandidateMissed, Comparing
  <1> QED
    BY <1>1, <1>3, <1>4, <1>5, <1>6, RestingWork DEF Candidate

\* A preparation begins over a tree that stood at the commit it is compared with.
LEMMA PrepareWork ==
  ASSUME WorkInv, UNCHANGED <<commits, folder, mine, mode>>,
         NEW c, NEW tree, NEW head, NEW forced, NEW ret, NEW sent, NEW reviewed, StoodAt(tree, c),
         Prepare(NewCandidate(c, tree, head, forced, ret, sent, reviewed))
  PROVE  WorkInv'
  <1>1. pc' = "plan" /\ cand'.tree = tree /\ cand'.base = c
    BY DEF Prepare, NewCandidate, Goto
  <1>2. WorkKept' /\ WorkGivenUp'
    BY <1>1 DEF WorkInv, WorkKept, WorkGivenUp, Committed, HeadCommit
  <1>3. WorkCompared'
    BY <1>1 DEF WorkCompared, StoodAt, TreeAt, RequestSteps
  <1> QED
    BY <1>2, <1>3 DEF WorkInv

LEMMA BeforeWork ==
  ASSUME SendHolds, WorkInv, FromResolution \/ FromHead
  PROVE  WorkInv'
  <1>1. CASE FinishPreparation
    <2>1. UNCHANGED <<commits, folder, mine, mode>> /\ StoodAt(TreeRead(res.base), res.base)
      BY <1>1, TreeReadStood DEF FinishPreparation, diskVars, ghosts
    <2> QED
      BY <1>1, <2>1, PrepareWork DEF FinishPreparation
  <1>2. CASE HeadPastBase
    <2>1. UNCHANGED <<commits, folder, mine, mode>> /\ StoodAt(base.files, base.commit)
      BY <1>2 DEF HeadPastBase, diskVars, ghosts, SendHolds
    <2> QED
      BY <1>2, <2>1, PrepareWork DEF HeadPastBase
  <1>3. CASE OverwritePlans
    <2>1. /\ UNCHANGED <<commits, folder, mine, mode>> /\ pc' = "oversnap" /\ mode = "overwrite"
      BY <1>3 DEF OverwritePlans, OverwriteWanted, Goto, diskVars, ghosts
    <2>2. WorkKept' /\ WorkGivenUp' /\ WorkCompared'
      BY <2>1 DEF WorkInv, WorkKept, WorkGivenUp, WorkCompared, Committed, HeadCommit,
         RequestSteps, Comparing
    <2> QED
      BY <2>2 DEF WorkInv
  <1> QED
    BY <1>1, <1>2, <1>3, RestingWork DEF FromResolution, FromHead

LEMMA PublicationWork ==
  ASSUME ShapeInv, SendHolds, WorkInv, Publication
  PROVE  WorkInv'
  <1>1. CASE PublishRequest
    <2> DEFINE tree == IF named # None THEN named.files ELSE TreeRead(outbox.parent)
    <2>1. /\ UNCHANGED <<commits, folder, mine, mode>> /\ pc = "request" /\ pc' = "send"
          /\ req'.origin = outbox.parent
          /\ req'.reference = Without(tree, ExcludedOnDisk(coll))
      BY <1>1 DEF PublishRequest, Request, Goto, diskVars, ghosts
    <2>2. StoodAt(tree, outbox.parent)
      BY <2>1, TreeReadStood DEF SendHolds
    <2>3. StoodAt(Without(tree, ExcludedOnDisk(coll)), outbox.parent)
      BY <2>2, WithoutStood
    <2> HIDE DEF tree
    <2>4. WorkKept' /\ WorkGivenUp'
      BY <2>1 DEF WorkInv, WorkKept, WorkGivenUp, Committed, HeadCommit
    <2>5. WorkCompared'
      BY <2>1, <2>3 DEF WorkCompared, StoodAt, TreeAt, Comparing
    <2> QED
      BY <2>4, <2>5 DEF WorkInv
  <1>2. ASSUME NEW batch, SendBatch(batch)
        PROVE  WorkInv'
    <2> DEFINE tree == Pushed(batch, batch = req.puts)
    <2>1. /\ UNCHANGED <<folder, mine, mode>> /\ pc = "send" /\ pc' \in {"acked", "send"}
          /\ commits' = commits \/ commits' = Append(commits, [tree |-> tree, own |-> TRUE])
          /\ req' = [req EXCEPT !.puts = @ \ batch, !.parent = Len(commits')]
      BY <1>2 DEF SendBatch, Goto, diskVars
    <2>2. tree \in Tree
      BY <2>1, HeadIsNamed DEF ShapeInv, StepsHold, Pushed, Tree, Content
    <2> HIDE DEF tree
    <2>3. /\ req'.reference = req.reference /\ req'.origin = req.origin
          /\ req.origin \in Nat /\ req.origin <= HeadCommit
      BY <2>1 DEF ShapeInv, StepsHold, CommitsNamed, RequestType, RequestSteps
    <2>4. /\ \A p, text : Committed(p, text) => Committed(p, text)'
          /\ \A files, c : c \in Nat /\ c <= HeadCommit /\ StoodAt(files, c) =>
               \A p \in Paths : files[p] # NoFile => files[p] = TreeAt(c)'[p]
      BY <2>1, <2>2, CommittedStays
    <2>5. WorkKept' /\ WorkGivenUp'
      BY <2>1, <2>4 DEF WorkInv, WorkKept, WorkGivenUp
    <2>6. StoodAt(req.reference, req.origin)
      BY <2>1 DEF WorkInv, WorkCompared, RequestSteps
    <2>7. StoodAt(req.reference, req.origin)'
      BY <2>3, <2>4, <2>6 DEF StoodAt
    <2>8. WorkCompared'
      BY <2>1, <2>7 DEF WorkCompared, Comparing
    <2> QED
      BY <2>5, <2>8 DEF WorkInv
  <1>3. CASE SendConflicts \/ RaiseRound
    <2>1. UNCHANGED <<commits, folder, mine, mode, req>> /\ pc \in RequestSteps
          /\ pc' \in {"refused", "raised"}
      BY <1>3 DEF SendConflicts, RaiseRound, Goto, runData, ghosts, RequestSteps
    <2>2. WorkKept' /\ WorkGivenUp' /\ WorkCompared'
      BY <2>1 DEF WorkInv, WorkKept, WorkGivenUp, WorkCompared, Committed, HeadCommit, StoodAt,
         TreeAt, RequestSteps, Comparing
    <2> QED
      BY <2>2 DEF WorkInv
  <1>4. CASE TakeInMove \/ PrepareAgain
    <2>1. UNCHANGED <<commits, folder, mine, mode>> /\ StoodAt(req.reference, req.origin)
      BY <1>4 DEF TakeInMove, PrepareAgain, diskVars, ghosts, WorkInv, WorkCompared, RequestSteps
    <2>2. CASE TakeInMove
      BY <2>1, <2>2, PrepareWork DEF TakeInMove
    <2>3. CASE PrepareAgain
      BY <2>1, <2>3, PrepareWork DEF PrepareAgain
    <2> QED
      BY <1>4, <2>2, <2>3
  <1> QED
    BY <1>1, <1>2, <1>3, <1>4, RestingWork DEF Publication

LEMMA GivenUpWork ==
  ASSUME NoneIsFresh, ShapeInv, WorkInv, Overwrite \/ Discard
  PROVE  WorkInv'
  <1>1. CASE OverwriteSnapshot
    <2>1. UNCHANGED <<commits, folder, mine, mode>> /\ pc = "oversnap" /\ pc' = "overwrite"
      BY <1>1 DEF OverwriteSnapshot, Goto
    <2>2. WorkKept' /\ WorkGivenUp' /\ WorkCompared'
      BY <2>1 DEF WorkInv, WorkKept, WorkGivenUp, WorkCompared, Committed, HeadCommit,
         RequestSteps, Comparing
    <2> QED
      BY <2>2 DEF WorkInv
  <1>2. ASSUME NEW p \in Paths, OverwriteTouches(p)
        PROVE  WorkInv'
    <2>1. UNCHANGED <<commits, mine, mode, pc>> /\ pc = "overwrite"
      BY <1>2 DEF OverwriteTouches
    <2>2. WorkKept' /\ WorkGivenUp' /\ WorkCompared'
      BY <2>1 DEF WorkInv, WorkKept, WorkGivenUp, WorkCompared, RequestSteps, Comparing
    <2> QED
      BY <2>2 DEF WorkInv
  <1>3. ASSUME NEW p \in Paths, DiscardRestores(p)
        PROVE  WorkInv'
    <2>1. /\ UNCHANGED <<commits, mine, mode, pc, snap>> /\ pc = "discard" /\ p \in todo
          /\ todo' = todo \ {p} /\ folder' = [folder EXCEPT ![p] = snap[p]] /\ folder \in Tree
      BY <1>3 DEF DiscardRestores, SetFile, ShapeInv, TypeOK
    <2>2. WorkKept'
      BY <2>1 DEF WorkInv, WorkKept, WorkGivenUp, Committed, HeadCommit, Tree
    <2>3. WorkGivenUp' /\ WorkCompared'
      BY <2>1 DEF WorkInv, WorkGivenUp, WorkCompared, RequestSteps, Comparing
    <2> QED
      BY <2>2, <2>3 DEF WorkInv
  <1> QED
    BY <1>1, <1>2, <1>3, RestingWork DEF Overwrite, Discard

LEMMA WorkStays ==
  ASSUME NoneIsFresh, NoFileIsFresh, ShapeInv, SendHolds, NoneBehind, WorkInv, [Next]_vars
  PROVE  WorkInv'
  <1>1. CASE World
    BY <1>1, WorldWork
  <1>2. CASE RunStep
    BY <1>2, RestingWork, BeforeWork, CandidateWork, PublicationWork, GivenUpWork DEF RunStep
  <1>3. CASE UNCHANGED vars
    <2>1. UNCHANGED <<commits, folder, mine, mode, pc, todo, snap, req, cand>>
      BY <1>3 DEF vars, diskVars, runVars, runData, ghosts
    <2> QED
      BY <2>1 DEF WorkInv, WorkKept, WorkGivenUp, WorkCompared, Committed, HeadCommit, StoodAt,
         TreeAt, Targets
  <1> QED
    BY <1>1, <1>2, <1>3 DEF Next

\* Where no file is created while a run is under way, no text of the user's is
\* lost to a run: however its steps, kills, later edits and the commits of
\* others interleave, a text not given up stands in the folder or in a commit.
\* The snapshot is needed by a discard alone.
THEOREM LocalWorkKept ==
  ASSUME NoneIsFresh, NoFileIsFresh, LateFiles = FALSE
  PROVE  Spec => [](NoLostLocalWork /\ WorkKept)
  <1>1. Init => WorkInv
    <2> SUFFICES ASSUME Init PROVE WorkInv
      OBVIOUS
    <2>1. mine = [p \in Paths |-> 0] /\ pc = "idle" /\ mode = "none"
      BY DEF Init
    <2> QED
      BY <2>1 DEF WorkInv, WorkKept, WorkGivenUp, WorkCompared, RequestSteps, Comparing
  <1>2. ShapeInv /\ SendHolds /\ NoneBehind /\ WorkInv /\ [Next]_vars => WorkInv'
    BY WorkStays
  <1>3. WorkInv => NoLostLocalWork /\ WorkKept
    BY DEF WorkInv, WorkKept, NoLostLocalWork, Committed
  <1> QED
    BY <1>1, <1>2, <1>3, CoverIsInvariant, PTL DEF Spec
=============================================================================
