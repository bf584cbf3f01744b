-------------------------- MODULE StateHomesProofs --------------------------
(***************************************************************************)
(* What holds of StateHomes for any number of runs, folders, changes and   *)
(* kills: the types, with the locks a run past `lock` holds and the times  *)
(* its files have; that runs never all wait for each other; where the      *)
(* default home has been used before and no run outlives its folder, that  *)
(* two runs never hold a copy's state at once; and, in the circumstances   *)
(* named there, that what is read is whole and of the last change.         *)
(***************************************************************************)
EXTENDS StateHomes, FiniteSetTheorems, WellFoundedInduction, TLAPS

(***************************************************************************)
(* The inductive invariants.  TypeOK says which lock a run past `lock`     *)
(* holds; that it keeps it needs the lock of a run discarding a removed    *)
(* folder's state, of one halfway through `lock`, and that no lock has a   *)
(* run that ended as its holder.                                           *)
(***************************************************************************)
LockedSteps == {"locked", "adopting", "work", "snapshots", "stamp"}
Steps == {"none", "opened", "settling", "discarding", "half"} \cup LockedSteps
HolderSteps(h) == LockedSteps \cup (IF h = "default" THEN {"discarding", "half"} ELSE {})

LockInv ==
    /\ pc \in [Runs -> Steps] /\ home \in [Runs -> Homes] /\ stale \in [Runs -> BOOLEAN]
    /\ lockFiles \subseteq Homes /\ holder \in [Homes -> Runs \cup {None}]
    /\ folder \in Nat \ {0} /\ ident \in 0 .. folder
    /\ \A h \in Homes : holder[h] # None => h \in lockFiles /\ pc[holder[h]] \in HolderSteps(h)
    /\ \A r \in Runs :
          /\ pc[r] = "discarding" => holder["default"] = r
          /\ pc[r] = "half" /\ home[r] = "default" => holder["default"] = r
          /\ pc[r] \in LockedSteps => holder[home[r]] = r

FileInv ==
    /\ file \in [Homes -> [Names -> File]] /\ stamp \in [Homes -> Nat] /\ clock \in Nat \ {0}
    /\ home \in [Runs -> Homes]
    /\ \A h \in Homes, n \in Names : file[h][n].time < clock
    /\ stored \in [Runs -> SUBSET Contents] /\ created \in [Runs -> SUBSET Contents]
    /\ \A r \in Runs : created[r] \subseteq stored[r]

(***************************************************************************)
(* The first folder's runs all take the default home's lock first, whose   *)
(* file stands and whose home is no removed folder's; of a later folder    *)
(* there is one run at a time.                                             *)
(***************************************************************************)
OneHome ==
    /\ "default" \in lockFiles
    /\ folder = 1 =>
          /\ ident = 1
          /\ \A r \in Runs :
                /\ ~stale[r] /\ pc[r] \notin {"settling", "discarding"}
                /\ pc[r] \in LockedSteps \cup {"half"} => holder["default"] = r
    /\ folder # 1 => \A r, q \in Runs : pc[r] # "none" /\ pc[q] # "none" => r = q

-----------------------------------------------------------------------------
(* Steps of a run that holds its locks and keeps them. *)

\* What such a step leaves alone, and where it goes.
Holding(r) ==
    /\ pc[r] \in LockedSteps
    /\ \/ UNCHANGED pc
       \/ \E step \in LockedSteps : pc' = [pc EXCEPT ![r] = step]
    /\ UNCHANGED <<locks, home, stale, folder, ident>>

\* Every change of a run past `lock` is such a step, until the run ends.
LEMMA ChangesHold ==
  ASSUME NEW r \in Runs, Changing(r)
  PROVE  \/ Holding(r)
         \/ (SnapshotsFail(r) \/ Ends(r)) /\ EndRun(r) /\ UNCHANGED <<lockFiles, folder, ident>>
  <1>1. CASE \E d \in Docs : WritesDoc(r, d) \/ RemovesDoc(r, d)
    BY <1>1 DEF WritesDoc, RemovesDoc, Begin, Goto, Holding, LockedSteps, locks
  <1>2. CASE \E c \in Contents : StoresContent(r, c)
    BY <1>2 DEF StoresContent, Begin, Goto, Holding, LockedSteps, locks
  <1>3. CASE \E s \in Snapshots : SnapshotStep(r, s)
    BY <1>3 DEF SnapshotStep, Holding, LockedSteps, locks
  <1>4. CASE RemovesCreated(r) \/ BeginsWrite(r) \/ BeginsRemoval(r)
    BY <1>4 DEF RemovesCreated, BeginsWrite, BeginsRemoval, Begin, Goto, Holding, LockedSteps,
       disk, locks
  <1>5. CASE Prunes(r) \/ Pruned(r) \/ Stamps(r)
    BY <1>5 DEF Prunes, Pruned, Stamps, Goto, Holding, LockedSteps, disk, locks
  <1>6. CASE SnapshotsFail(r) \/ Ends(r)
    BY <1>6 DEF SnapshotsFail, Ends, disk
  <1> QED
    BY <1>1, <1>2, <1>3, <1>4, <1>5, <1>6 DEF Changing

\* So is every step of an adoption.
LEMMA AdoptionHolds ==
  ASSUME NEW r \in Runs,
         ComparesStamps(r) \/ AdoptRemoves(r) \/ AdoptCopies(r) \/ AdoptStamps(r)
  PROVE  Holding(r)
  BY DEF ComparesStamps, AdoptRemoves, AdoptCopies, AdoptStamps, Goto, Holding, LockedSteps,
     disk, locks

-----------------------------------------------------------------------------
(* The locks. *)

LEMMA HoldingKeepsLocks ==
  ASSUME LockInv, NEW r \in Runs, Holding(r)
  PROVE  LockInv'
  BY DEF LockInv, Holding, LockedSteps, Steps, HolderSteps, locks

\* A run that ends releases what it holds and nothing else.
LEMMA EndKeepsLocks ==
  ASSUME HomesAssumption, LockInv, NEW r \in Runs, EndRun(r), UNCHANGED <<lockFiles, folder, ident>>
  PROVE  LockInv'
  BY DEF HomesAssumption, LockInv, EndRun, Goto, Forget, LockedSteps, Steps, HolderSteps, Homes

LEMMA OpeningKeepsLocks ==
  ASSUME LockInv, NEW r \in Runs, Opening(r)
  PROVE  LockInv'
  <1>1. CASE OpensDefault(r)
    BY <1>1 DEF LockInv, OpensDefault, MayOpen, Goto, LockedSteps, Steps, HolderSteps, disk, locks
  <1>2. CASE OpensInRoot(r)
    BY <1>2 DEF LockInv, OpensInRoot, MayOpen, Goto, LockedSteps, Steps, HolderSteps, disk, locks, Stale, Homes
  <1> QED
    BY <1>1, <1>2 DEF Opening

\* Settling a removed folder's state takes the default home's lock, and
\* gives it back.
LEMMA SettlingKeepsLocks ==
  ASSUME HomesAssumption, LockInv, NEW r \in Runs, Settles(r) \/ Discards(r) \/ Settled(r)
  PROVE  LockInv'
  <1>1. CASE Settles(r)
    BY <1>1 DEF HomesAssumption, LockInv, Settles, Goto, LockedSteps, Steps, HolderSteps, disk, Homes
  <1>2. CASE Discards(r)
    BY <1>2 DEF LockInv, Discards, LockedSteps, Steps, HolderSteps, locks
  <1>3. CASE Settled(r)
    BY <1>3 DEF HomesAssumption, LockInv, Settled, Goto, LockedSteps, Steps, HolderSteps, Homes
  <1> QED
    BY <1>1, <1>2, <1>3

\* A lock taken is no other run's, and one not taken is as it was.
LEMMA LockTaken ==
  ASSUME LockInv, NEW r \in Runs, NEW h \in Homes, Takes(r, h)
  PROVE  /\ lockFiles' \subseteq Homes /\ holder' \in [Homes -> Runs \cup {None}]
         /\ \A g \in Homes : holder'[g] # None =>
               g \in lockFiles' /\ (holder'[g] = holder[g] \/ (g = h /\ holder'[g] = r))
         /\ \A g \in Homes : holder[g] # None => holder'[g] = holder[g]
         /\ home[r] = h => holder'[h] = r
  <1>1. CASE Wants(r, h)
    <2>1. /\ holder[h] = None /\ holder' = [holder EXCEPT ![h] = r]
          /\ lockFiles' = lockFiles \cup {h}
      BY <1>1 DEF Takes
    <2> QED
      BY <2>1 DEF LockInv
  <1>2. CASE ~Wants(r, h)
    <2>1. UNCHANGED locks /\ home[r] # h
      BY <1>2 DEF Takes, Wants
    <2> QED
      BY <2>1 DEF LockInv, locks
  <1> QED
    BY <1>1, <1>2

LEMMA LockingKeepsLocks ==
  ASSUME HomesAssumption, LockInv, NEW r \in Runs, LocksFirst(r) \/ LocksSecond(r)
  PROVE  LockInv'
  <1> DEFINE h == IF pc[r] = "opened" THEN FirstHome(r) ELSE Other(FirstHome(r))
  <1>1. /\ h \in Homes /\ Takes(r, h) /\ pc[r] \in {"opened", "half"}
        /\ pc' = [pc EXCEPT ![r] = IF pc[r] = "opened" THEN "half" ELSE "locked"]
        /\ UNCHANGED <<disk, home, stale>>
    BY DEF LocksFirst, LocksSecond, FirstHome, Other, Homes, Goto
  <1>2. /\ lockFiles' \subseteq Homes /\ holder' \in [Homes -> Runs \cup {None}]
        /\ \A g \in Homes : holder'[g] # None =>
              g \in lockFiles' /\ (holder'[g] = holder[g] \/ (g = h /\ holder'[g] = r))
        /\ \A g \in Homes : holder[g] # None => holder'[g] = holder[g]
        /\ home[r] = h => holder'[h] = r
    BY <1>1, LockTaken
  <1>3. None \notin Runs
    BY DEF HomesAssumption
  <1>4. /\ pc' \in [Runs -> Steps] /\ UNCHANGED <<home, stale, folder, ident>>
        /\ pc'[r] \in {"half", "locked"} /\ \A q \in Runs : q # r => pc'[q] = pc[q]
    BY <1>1 DEF LockInv, Steps, LockedSteps, disk
  <1>5. ASSUME NEW g \in Homes, holder'[g] # None
        PROVE  g \in lockFiles' /\ pc'[holder'[g]] \in HolderSteps(g)
    <2>1. CASE g = h /\ holder'[g] = r
      BY <1>1, <1>2, <1>4, <1>5, <2>1 DEF LockInv, HolderSteps, LockedSteps, FirstHome
    <2>2. CASE holder'[g] = holder[g]
      <3>1. g \in lockFiles' /\ holder[g] \in Runs /\ pc[holder[g]] \in HolderSteps(g)
        BY <1>2, <1>5, <2>2 DEF LockInv
      <3>2. CASE holder[g] # r
        BY <1>4, <2>2, <3>1, <3>2
      <3>3. CASE holder[g] = r
        BY <1>1, <1>4, <2>2, <3>1, <3>3 DEF LockInv, HolderSteps, LockedSteps
      <3> QED
        BY <3>2, <3>3
    <2> QED
      BY <1>2, <1>5, <2>1, <2>2
  <1>6. ASSUME NEW q \in Runs
        PROVE  /\ pc'[q] = "discarding" => holder'["default"] = q
               /\ pc'[q] = "half" /\ home[q] = "default" => holder'["default"] = q
               /\ pc'[q] \in LockedSteps => holder'[home[q]] = q
    <2>1. CASE q # r
      BY <1>2, <1>3, <1>4, <2>1 DEF LockInv, Homes
    <2>2. CASE q = r /\ pc[r] = "opened"
      BY <1>1, <1>2, <2>2 DEF LockInv, FirstHome, LockedSteps
    <2>3. CASE q = r /\ pc[r] = "half"
      <3>1. pc'[r] = "locked" /\ home[r] \in Homes
        BY <1>1, <2>3 DEF LockInv
      <3>2. CASE home[r] = h
        BY <1>2, <2>3, <3>1, <3>2
      <3>3. CASE home[r] # h
        <4>1. home[r] = "default"
          BY <2>3, <3>1, <3>3 DEF FirstHome, Other, Homes
        <4>2. holder["default"] = r
          BY <2>3, <4>1 DEF LockInv
        <4> QED
          BY <1>2, <1>3, <2>3, <3>1, <4>1, <4>2 DEF Homes
      <3> QED
        BY <3>2, <3>3
    <2> QED
      BY <1>1, <2>1, <2>2, <2>3
  <1> QED
    BY <1>2, <1>4, <1>5, <1>6 DEF LockInv

LEMMA WorldKeepsLocks ==
  ASSUME HomesAssumption, LockInv, CreatesAgain \/ \E r \in Runs : Kill(r)
  PROVE  LockInv'
  <1>1. CASE CreatesAgain
    BY <1>1 DEF LockInv, CreatesAgain, LockedSteps, Steps, HolderSteps, Homes
  <1>2. ASSUME NEW r \in Runs, Kill(r)
        PROVE  LockInv'
    BY <1>2, EndKeepsLocks DEF Kill, disk
  <1> QED
    BY <1>1, <1>2

LEMMA StepKeepsLocks ==
  ASSUME HomesAssumption, LockInv, [Next]_vars
  PROVE  LockInv'
  <1>1. CASE UNCHANGED vars
    BY <1>1 DEF vars, disk, locks, LockInv
  <1>2. ASSUME NEW r \in Runs, Locking(r)
        PROVE  LockInv'
    BY <1>2, SettlingKeepsLocks, LockingKeepsLocks, AdoptionHolds, HoldingKeepsLocks DEF Locking
  <1>3. ASSUME NEW r \in Runs, Changing(r)
        PROVE  LockInv'
    BY <1>3, ChangesHold, HoldingKeepsLocks, EndKeepsLocks
  <1> QED
    BY <1>1, <1>2, <1>3, OpeningKeepsLocks, WorldKeepsLocks DEF Next, Step

-----------------------------------------------------------------------------
(* The files. *)

\* A file written at the clock, of contents only, and the clock moved on.
LEMMA WrittenFile ==
  ASSUME FileInv, NEW r \in Runs, NEW n \in Names, NEW names \in SUBSET Contents,
         Writes(r, n, names)
  PROVE  /\ file' \in [Homes -> [Names -> File]] /\ clock' \in Nat \ {0}
         /\ \A h \in Homes, m \in Names : file'[h][m].time < clock'
  BY DEF FileInv, Writes, File

LEMMA RemovedFiles ==
  ASSUME FileInv, NEW r \in Runs, NEW gone, Removes(r, gone)
  PROVE  /\ file' \in [Homes -> [Names -> File]] /\ clock' \in Nat \ {0}
         /\ \A h \in Homes, m \in Names : file'[h][m].time < clock'
  BY DEF FileInv, Removes, File, Absent

LEMMA OpeningKeepsFiles ==
  ASSUME FileInv, NEW r \in Runs, Opening(r) \/ Settles(r) \/ Discards(r) \/ Settled(r)
  PROVE  FileInv'
  <1>1. CASE Opening(r)
    BY <1>1 DEF FileInv, Opening, OpensDefault, OpensInRoot, disk, memory, Homes
  <1>2. CASE Settles(r) \/ Settled(r)
    BY <1>2 DEF FileInv, Settles, Settled, disk, memory
  <1>3. CASE Discards(r)
    BY <1>3 DEF FileInv, Discards, File, Absent, Homes
  <1> QED
    BY <1>1, <1>2, <1>3

LEMMA AdoptionKeepsFiles ==
  ASSUME FileInv, NEW r \in Runs,
         \/ LocksFirst(r) \/ LocksSecond(r) \/ ComparesStamps(r)
         \/ AdoptRemoves(r) \/ AdoptCopies(r) \/ AdoptStamps(r)
  PROVE  FileInv'
  <1>1. CASE LocksFirst(r) \/ LocksSecond(r) \/ ComparesStamps(r)
    BY <1>1 DEF FileInv, LocksFirst, LocksSecond, ComparesStamps, disk, memory
  <1>2. CASE AdoptRemoves(r)
    BY <1>2, RemovedFiles DEF FileInv, AdoptRemoves, memory
  <1>3. CASE AdoptCopies(r)
    BY <1>3 DEF FileInv, AdoptCopies, Uncopied, Held, Other, Homes, memory
  <1>4. CASE AdoptStamps(r)
    BY <1>4 DEF FileInv, AdoptStamps, Other, Homes, memory
  <1> QED
    BY <1>1, <1>2, <1>3, <1>4

LEMMA ChangesKeepFiles ==
  ASSUME FileInv, NEW r \in Runs, Changing(r)
  PROVE  FileInv'
  <1>1. ASSUME NEW d \in Docs, WritesDoc(r, d)
        PROVE  FileInv'
    BY <1>1, WrittenFile DEF FileInv, WritesDoc, memory, Names, Documents
  <1>2. ASSUME NEW d \in Docs, RemovesDoc(r, d)
        PROVE  FileInv'
    BY <1>2, RemovedFiles DEF FileInv, RemovesDoc, memory
  <1>3. ASSUME NEW c \in Contents, StoresContent(r, c)
        PROVE  FileInv'
    BY <1>3, WrittenFile DEF FileInv, StoresContent, Names
  <1>4. ASSUME NEW s \in Snapshots, SnapshotStep(r, s)
        PROVE  FileInv'
    <2>1. file[home[r]][s].names \cup stored[r] \subseteq Contents /\ s \in Names
      BY DEF FileInv, File, Names, Documents
    <2>2. /\ file' \in [Homes -> [Names -> File]] /\ clock' \in Nat \ {0}
          /\ \A h \in Homes, m \in Names : file'[h][m].time < clock'
      BY <1>4, <2>1, WrittenFile, RemovedFiles DEF SnapshotStep
    <2> QED
      BY <1>4, <2>2 DEF FileInv, SnapshotStep
  <1>5. CASE RemovesCreated(r) \/ Prunes(r)
    BY <1>5, RemovedFiles DEF FileInv, RemovesCreated, Prunes, memory
  <1>6. CASE BeginsWrite(r) \/ BeginsRemoval(r) \/ Pruned(r)
    BY <1>6 DEF FileInv, BeginsWrite, BeginsRemoval, Pruned, disk, memory
  <1>7. CASE Stamps(r)
    <2>1. stamp' \in [Homes -> Nat] /\ clock' \in Nat \ {0} /\ clock' = clock + 1
      BY <1>7 DEF FileInv, Stamps
    <2>2. /\ stored' \in [Runs -> SUBSET Contents] /\ created' \in [Runs -> SUBSET Contents]
          /\ \A q \in Runs : created'[q] \subseteq stored'[q]
      BY <1>7 DEF FileInv, Stamps
    <2>3. UNCHANGED <<file, home>>
      BY <1>7 DEF Stamps
    <2>4. \A h \in Homes, n \in Names : file[h][n].time \in Nat /\ file[h][n].time < clock
      BY DEF FileInv, File
    <2> QED
      BY <2>1, <2>2, <2>3, <2>4 DEF FileInv
  <1>8. CASE SnapshotsFail(r)
    BY <1>8, RemovedFiles DEF FileInv, SnapshotsFail, EndRun, Forget, Homes
  <1>9. CASE Ends(r)
    BY <1>9 DEF FileInv, Ends, EndRun, Forget, Homes, disk
  <1> QED
    BY <1>1, <1>2, <1>3, <1>4, <1>5, <1>6, <1>7, <1>8, <1>9 DEF Changing

LEMMA StepKeepsFiles ==
  ASSUME FileInv, [Next]_vars
  PROVE  FileInv'
  <1>1. CASE UNCHANGED vars
    BY <1>1 DEF vars, disk, memory, FileInv
  <1>2. CASE CreatesAgain
    BY <1>2 DEF FileInv, CreatesAgain, File, Absent, Homes, memory
  <1>3. ASSUME NEW r \in Runs, Kill(r)
        PROVE  FileInv'
    BY <1>3 DEF FileInv, Kill, EndRun, Forget, Homes, disk
  <1>4. ASSUME NEW r \in Runs, Locking(r)
        PROVE  FileInv'
    BY <1>4, OpeningKeepsFiles, AdoptionKeepsFiles DEF Locking
  <1> QED
    BY <1>1, <1>2, <1>3, <1>4, OpeningKeepsFiles, ChangesKeepFiles DEF Next, Step

(***************************************************************************)
(* The types, for every set of runs, documents and contents and for every  *)
(* one of the circumstances the constants allow: a run past `lock` holds   *)
(* its write home's lock to its end (StateLock), whoever else opens,       *)
(* settles or is killed, and no file is newer than the clock.              *)
(***************************************************************************)
THEOREM HomesTypeCorrect == Spec => []TypeOK
  <1>1. Init => LockInv /\ FileInv
    BY HomesAssumption DEF HomesAssumption, Init, LockInv, FileInv, LockedSteps, Steps, HolderSteps, Homes, File, Absent
  <1>2. LockInv /\ FileInv /\ [Next]_vars => LockInv' /\ FileInv'
    BY HomesAssumption, StepKeepsLocks, StepKeepsFiles
  <1>3. LockInv /\ FileInv => TypeOK
    BY DEF LockInv, FileInv, TypeOK, Locked, LockedSteps
  <1> QED
    BY <1>1, <1>2, <1>3, PTL DEF Spec

(***************************************************************************)
(* Runs never all wait for each other, however many there are, whichever   *)
(* homes they write and whether or not the lock files stand (lock 1: the   *)
(* default home's lock first).  A holder of the in-root home's lock waits  *)
(* for nothing; with none, neither does a holder of the default home's;    *)
(* with neither, nobody waits.                                             *)
(***************************************************************************)
THEOREM SomeRunGoesOn == Spec => []NotAllWaiting
  <1>1. Init => LockInv
    BY HomesAssumption DEF HomesAssumption, Init, LockInv, LockedSteps, Steps, HolderSteps, Homes
  <1>2. LockInv /\ [Next]_vars => LockInv'
    BY HomesAssumption, StepKeepsLocks
  <1>3. LockInv => NotAllWaiting
    <2> SUFFICES ASSUME LockInv, NEW r \in Runs, pc[r] # "none"
                 PROVE  \E q \in Runs : pc[q] # "none" /\ ~Waits(q)
      BY DEF NotAllWaiting
    <2>1. CASE holder["inroot"] # None
      BY <2>1 DEF LockInv, Waits, HolderSteps, LockedSteps, Homes
    <2>2. CASE holder["inroot"] = None /\ holder["default"] # None
      <3>1. /\ holder["default"] \in Runs
            /\ pc[holder["default"]] \in {"discarding", "half"} \cup LockedSteps
        BY <2>2 DEF LockInv, HolderSteps, Homes
      <3>2. ~Waits(holder["default"])
        BY <2>2, <3>1 DEF Waits, LockedSteps, FirstHome, Other
      <3> QED
        BY <3>1, <3>2 DEF LockedSteps
    <2>3. CASE holder["inroot"] = None /\ holder["default"] = None
      BY <2>3 DEF Waits, FirstHome, Other
    <2> QED
      BY <2>1, <2>2, <2>3
  <1> QED
    BY <1>1, <1>2, <1>3, PTL DEF Spec

-----------------------------------------------------------------------------
(* Exclusion. *)

LEMMA StepKeepsOneHome ==
  ASSUME HomesAssumption, ~Overlaps, LockInv, OneHome, [Next]_vars
  PROVE  OneHome'
  <1>1. CASE UNCHANGED vars
    BY <1>1 DEF vars, disk, locks, OneHome
  <1>2. ASSUME NEW r \in Runs, Opening(r)
        PROVE  OneHome'
    BY <1>2 DEF LockInv, OneHome, Opening, OpensDefault, OpensInRoot, MayOpen, Goto, Stale,
       LockedSteps, Steps, HolderSteps, disk, locks
  <1>3. ASSUME NEW r \in Runs, Settles(r) \/ Discards(r) \/ Settled(r)
        PROVE  OneHome'
    <2>1. folder # 1
      BY <1>3 DEF OneHome, Settles, Discards, Settled
    <2>2. /\ UNCHANGED folder /\ lockFiles \subseteq lockFiles'
          /\ \A q \in Runs : pc'[q] # "none" => pc[q] # "none"
      BY <1>3 DEF LockInv, Settles, Discards, Settled, Goto, disk, locks
    <2> QED
      BY <2>1, <2>2 DEF OneHome
  <1>4. ASSUME NEW r \in Runs, LocksFirst(r)
        PROVE  OneHome'
    BY <1>4 DEF HomesAssumption, LockInv, OneHome, LocksFirst, Takes, Wants, FirstHome, Readable,
       Goto, LockedSteps, Steps, HolderSteps, disk, locks, Homes
  <1>5. ASSUME NEW r \in Runs, LocksSecond(r)
        PROVE  OneHome'
    BY <1>5 DEF LockInv, OneHome, LocksSecond, Takes, FirstHome, Other, Goto, LockedSteps, Steps, HolderSteps,
       disk, locks, Homes
  <1>6. ASSUME NEW r \in Runs, Holding(r)
        PROVE  OneHome'
    BY <1>6 DEF LockInv, OneHome, Holding, LockedSteps, Steps, HolderSteps, locks
  <1>7. ASSUME NEW r \in Runs, EndRun(r), UNCHANGED <<lockFiles, folder, ident>>
        PROVE  OneHome'
    BY <1>7 DEF LockInv, OneHome, EndRun, Goto, Forget, LockedSteps, Steps, HolderSteps, Homes
  <1>8. CASE CreatesAgain
    BY <1>8 DEF LockInv, OneHome, CreatesAgain
  <1>9. ASSUME NEW r \in Runs, Kill(r)
        PROVE  OneHome'
    BY <1>7, <1>9 DEF Kill, disk
  <1> QED
    BY <1>1, <1>2, <1>3, <1>4, <1>5, <1>6, <1>7, <1>8, <1>9, AdoptionHolds, ChangesHold
       DEF Next, Step, Locking

(***************************************************************************)
(* Two runs never hold a copy's state at once, however many there are and  *)
(* whichever homes they write, kills and created folders included (lock).  *)
(* The two assumptions are needed: TLC refutes Exclusive without either.   *)
(***************************************************************************)
THEOREM RunsExclude ==
  ASSUME ~FirstUse, ~Overlaps
  PROVE  Spec => []Exclusive
  <1>1. Init => LockInv /\ OneHome
    BY HomesAssumption
       DEF HomesAssumption, Init, LockInv, OneHome, LockedSteps, Steps, HolderSteps, Homes
  <1>2. LockInv /\ OneHome /\ [Next]_vars => LockInv' /\ OneHome'
    BY HomesAssumption, StepKeepsLocks, StepKeepsOneHome
  <1>3. LockInv /\ OneHome => Exclusive
    BY DEF LockInv, OneHome, Exclusive, Locked, LockedSteps
  <1> QED
    BY <1>1, <1>2, <1>3, PTL DEF Spec

-----------------------------------------------------------------------------
(* What is read. *)

(***************************************************************************)
(* The homes as a run that settles nothing reads them: the default one is  *)
(* unread while it holds what a removed folder left, or while that is      *)
(* being removed.                                                          *)
(***************************************************************************)
ChangeSteps == {"work", "snapshots", "stamp"}
Unread == Stale \/ \E r \in Runs : pc[r] = "discarding"
Unstamped == ~Unread /\ stamp["default"] = 0 /\ stamp["inroot"] = 0
Emptied == Held("default") = {} /\ stamp["default"] = 0
Adopts(h) == \E r \in Runs : pc[r] = "adopting" /\ home[r] = h
Newest(h) == Max({0} \cup {file[h][n].time : n \in Names})

\* What StampedLater compares, with the two kinds of Standing told apart.
Later(h) ==
    IF Unread THEN h = "inroot" /\ (stamp[h] # 0 \/ Newest(h) # 0)
    ELSE \/ stamp[h] > stamp[Other(h)]
         \/ stamp[h] = 0 /\ stamp[Other(h)] = 0 /\ Newest(h) > Newest(Other(h))

\* A state a read may answer, with every content it names.
Whole(h) == StateOf(h) \in allowed /\ Named(h) \subseteq Held(h)

(***************************************************************************)
(* A time is of one file, copies of it aside, and no stamp is of the       *)
(* future.                                                                 *)
(***************************************************************************)
TimesTell ==
    /\ \A h, g \in Homes, n, m \in Names :
          file[h][n].time = file[g][m].time /\ file[h][n].time # 0 => n = m /\ file[h][n] = file[g][m]
    /\ \A h \in Homes, n \in Names : file[h][n].time = 0 => file[h][n] = Absent
    /\ \A h \in Homes : stamp[h] < clock

(***************************************************************************)
(* What each run knows of the identity of the default home, what a run     *)
(* that discards has still to remove, and that a home without identity is  *)
(* empty.                                                                  *)
(***************************************************************************)
IdentTells ==
    /\ \A r \in Runs :
          /\ pc[r] \in {"none", "settling", "discarding"} => home[r] = "default" /\ ~stale[r]
          /\ pc[r] \in {"settling", "discarding"} => ident # folder
          /\ pc[r] \in {"opened", "half"} \cup LockedSteps =>
                (stale[r] <=> Stale) /\ (home[r] = "default" => ident = folder)
          /\ pc[r] = "discarding" =>
                Held("default") \subseteq left[r] /\ (stamp["default"] # 0 => "stamp" \in left[r])
    /\ ident = 0 /\ ~Unread => Emptied

(***************************************************************************)
(* A home not behind the other is whole.  Of two homes without a stamp     *)
(* both are, since a removal may put either behind, but for one that is    *)
(* being adopted into; and no change is then complete.                     *)
(***************************************************************************)
HomesRead ==
    /\ \A h \in Homes : (h = "inroot" \/ ~Unread) /\ ~Later(Other(h)) => Whole(h)
    /\ Unstamped => \A h \in Homes : Adopts(h) \/ Whole(h)
    /\ (Unread \/ stamp["default"] = 0) /\ stamp["inroot"] = 0 => NoState \in allowed

\* The home a run changes is whole, and the one it adopts is later to the end.
RunsRead ==
    \A r \in Runs :
       /\ pc[r] \in ChangeSteps => Whole(home[r])
       /\ pc[r] = "adopting" =>
             Later(Other(home[r])) \/ (Unstamped /\ file["default"] = file["inroot"])

\* The contents a run stored and has yet to name stand, and none is named
\* that its failing would remove.
RunTells(r) ==
    /\ pc[r] \notin ChangeSteps => stored[r] = {} /\ op[r] = "none"
    /\ pc[r] = "work" => op[r] = "none"
    /\ op[r] = "prune" => stored[r] = {}
    /\ op[r] = "none" => created[r] \cap Named(home[r]) = {} /\ stored[r] \subseteq Held(home[r])
    /\ pc[r] = "snapshots" => op[r] # "none" /\ (left[r] = {} \/ stored[r] \subseteq Held(home[r]))
MemoryTells == \A r \in Runs : RunTells(r)

MemoryTypes ==
    /\ left \in [Runs -> SUBSET (Names \cup {"stamp", "folder"})]
    /\ op \in [Runs -> {"none", "write", "remove", "prune"}]

HomesInv == LockInv /\ FileInv /\ OneHome
ReadInv == MemoryTypes /\ TimesTell /\ IdentTells /\ HomesRead /\ RunsRead /\ MemoryTells

-----------------------------------------------------------------------------
(* Times and standings. *)

LEMMA HasLast ==
  ASSUME NEW times \in SUBSET Nat, NEW bound \in Nat, times # {}, \A t \in times : t <= bound
  PROVE  \E t \in times : \A u \in times : t >= u
  <1> DEFINE Above(t) == {u \in times : u > t}
             Aboves == {Above(t) : t \in times}
  <1>1. IsFiniteSet(times)
    BY FS_BoundedSetOfNaturals
  <1>2. Aboves \subseteq FiniteSubsetsOf(times) /\ Aboves # {}
    <2>1. ASSUME NEW s \in Aboves
          PROVE  s \in FiniteSubsetsOf(times)
      <3>1. s \in SUBSET times
        BY <2>1
      <3> HIDE DEF Aboves
      <3> QED
        BY <1>1, <3>1, FS_Subset DEF FiniteSubsetsOf
    <2> QED
      BY <2>1
  <1>3. IsWellFoundedOn(StrictSubsetOrdering(times), FiniteSubsetsOf(times))
    BY FS_StrictSubsetOrderingWellFounded
  <1>4. PICK least \in Aboves : \A s \in Aboves : ~(<<s, least>> \in StrictSubsetOrdering(times))
    <2> HIDE DEF Aboves
    <2> QED
      BY <1>2, <1>3, WFMin
  <1>5. PICK t \in times : least = Above(t)
    OBVIOUS
  <1>6. ASSUME NEW u \in times, ~(t >= u)
        PROVE  FALSE
    <2>1. t \in Nat /\ u \in Nat /\ t < u /\ \A v \in times : v \in Nat
      BY <1>6
    <2>2. \A v \in times : v > u => v > t
      BY <2>1
    <2>3. Above(u) \subseteq Above(t)
      BY <2>2
    <2>4. u \in Above(t) /\ u \notin Above(u)
      BY <2>1
    <2>5. <<Above(u), least>> \in StrictSubsetOrdering(times)
      BY <1>5, <2>3, <2>4 DEF StrictSubsetOrdering
    <2> QED
      BY <1>4, <2>5
  <1> QED
    BY <1>6

\* The newest time of a home is one of its files', or none.
NewestTold ==
    \A h \in Homes :
       /\ Newest(h) \in Nat /\ Newest(h) < clock
       /\ \A n \in Names : file[h][n].time <= Newest(h)
       /\ Newest(h) = 0 \/ \E n \in Names : file[h][n].time = Newest(h)
LEMMA NewestIsTold ==
  ASSUME FileInv
  PROVE  NewestTold
  <1> SUFFICES ASSUME NEW h \in Homes
               PROVE  /\ Newest(h) \in Nat /\ Newest(h) < clock
                      /\ \A n \in Names : file[h][n].time <= Newest(h)
                      /\ Newest(h) = 0 \/ \E n \in Names : file[h][n].time = Newest(h)
    BY DEF NewestTold
  <1> DEFINE times == {0} \cup {file[h][n].time : n \in Names}
  <1>1. \A n \in Names : file[h][n].time \in Nat /\ file[h][n].time < clock
    BY DEF FileInv, File
  <1>2. clock \in Nat /\ clock > 0
    BY DEF FileInv
  <1>3. times \in SUBSET Nat /\ times # {} /\ \A t \in times : t < clock /\ t <= clock
    BY <1>1, <1>2
  <1>4. \A n \in Names : file[h][n].time \in times
    OBVIOUS
  <1>5. \A t \in times : t = 0 \/ \E n \in Names : file[h][n].time = t
    OBVIOUS
  <1>6. Newest(h) = Max(times)
    BY DEF Newest
  <1> HIDE DEF times
  <1>7. \E t \in times : \A u \in times : t >= u
    BY <1>2, <1>3, HasLast
  <1>8. Max(times) \in times /\ \A u \in times : Max(times) >= u
    BY <1>7 DEF Max
  <1> QED
    BY <1>1, <1>3, <1>4, <1>5, <1>6, <1>8

LEMMA NewestNext == FileInv' => NewestTold'
  <1>1. FileInv => NewestTold
    BY NewestIsTold
  <1> QED
    BY <1>1, PTL

\* Later is what StampedLater says, to every run past its opening and to a
\* reader that holds no lock.
LaterTold ==
    /\ \A h \in Homes, unread \in BOOLEAN : (unread <=> Unread) => (Later(h) <=> StampedLater(h, unread))
    /\ \A h \in Homes : ~(Later(h) /\ Later(Other(h)))
LEMMA LaterIsTold ==
  ASSUME FileInv
  PROVE  LaterTold
  <1>1. NewestTold
    BY NewestIsTold
  <1>2. \A h \in Homes : stamp[h] \in Nat /\ Other(h) \in Homes /\ Other(Other(h)) = h /\ Other(h) # h
    BY DEF FileInv, Homes, Other
  <1>3. ASSUME NEW h \in Homes, NEW unread \in BOOLEAN, unread <=> Unread
        PROVE  Standing(h, unread) =
                  IF h = "default" /\ Unread THEN [stamped |-> 0, at |-> 0]
                  ELSE IF stamp[h] # 0 THEN [stamped |-> 1, at |-> stamp[h]]
                  ELSE [stamped |-> 0, at |-> Newest(h)]
    BY <1>3 DEF Standing, Readable, Newest, Homes
  <1>4. ASSUME NEW h \in Homes, NEW unread \in BOOLEAN, unread <=> Unread
        PROVE  Later(h) <=> StampedLater(h, unread)
    <2> DEFINE o == Other(h)
    <2>1. /\ stamp[h] \in Nat /\ stamp[o] \in Nat /\ Newest(h) \in Nat /\ Newest(o) \in Nat /\ o \in Homes
      BY <1>1, <1>2 DEF NewestTold
    <2>2. CASE Unread
      <3>1. CASE h = "default"
        <4>1. o = "inroot"
          BY <3>1 DEF Other
        <4>2. Standing(h, unread) = [stamped |-> 0, at |-> 0]
          BY <1>3, <1>4, <2>2, <3>1
        <4>3. Standing(o, unread) = IF stamp[o] # 0 THEN [stamped |-> 1, at |-> stamp[o]]
                                                   ELSE [stamped |-> 0, at |-> Newest(o)]
          BY <1>3, <1>4, <2>1, <4>1
        <4> QED
          BY <2>1, <2>2, <3>1, <4>1, <4>2, <4>3 DEF Later, StampedLater
      <3>2. CASE h = "inroot"
        <4>1. o = "default"
          BY <3>2 DEF Other
        <4>2. Standing(o, unread) = [stamped |-> 0, at |-> 0]
          BY <1>3, <1>4, <2>1, <2>2, <4>1
        <4>3. Standing(h, unread) = IF stamp[h] # 0 THEN [stamped |-> 1, at |-> stamp[h]]
                                                   ELSE [stamped |-> 0, at |-> Newest(h)]
          BY <1>3, <1>4, <3>2
        <4> QED
          BY <2>1, <2>2, <3>2, <4>1, <4>2, <4>3 DEF Later, StampedLater
      <3> QED
        BY <3>1, <3>2 DEF Homes
    <2>3. CASE ~Unread
      BY <1>3, <1>4, <2>1, <2>3 DEF Later, StampedLater
    <2> QED
      BY <2>2, <2>3
  <1>5. ASSUME NEW h \in Homes
        PROVE  ~(Later(h) /\ Later(Other(h)))
    BY <1>1, <1>2 DEF Later, NewestTold
  <1> QED
    BY <1>4, <1>5 DEF LaterTold

\* A home with no file standing is empty.
LEMMA NothingNewest ==
  ASSUME FileInv, TimesTell, NEW h \in Homes, Newest(h) = 0
  PROVE  \A n \in Names : file[h][n] = Absent
  <1>1. NewestTold
    BY NewestIsTold
  <1>2. \A n \in Names : file[h][n].time \in Nat /\ file[h][n].time <= 0
    BY <1>1 DEF NewestTold, FileInv, File
  <1>3. \A n \in Names : file[h][n].time = 0
    BY <1>2
  <1> QED
    BY <1>3 DEF TimesTell

\* An empty home holds no state and names nothing.
LEMMA EmptyReads ==
  ASSUME NEW h \in Homes, \A n \in Names : file[h][n] = Absent
  PROVE  StateOf(h) = NoState /\ Held(h) = {} /\ Named(h) = {}
  BY DEF StateOf, NoState, Held, Named, Absent, Names, Documents

(***************************************************************************)
(* What is read is whole, by a run at work and by a reader without a lock. *)
(***************************************************************************)
LEMMA WholeIsRead ==
  ASSUME HomesInv, TimesTell, IdentTells, HomesRead, RunsRead
  PROVE  ReadsWholeChange
  <1>1. LaterTold
    BY LaterIsTold DEF HomesInv
  <1>2. \A h \in Homes : Other(h) \in Homes /\ Other(Other(h)) = h /\ Other(h) # h
    BY DEF Homes, Other
  \* The home read is one that may be, or both are empty.
  <1>3. ASSUME NEW h \in Homes, NEW unread \in BOOLEAN, unread <=> Unread
        PROVE  LET from == ReadHome(h, unread)
               IN  \/ from \in Homes /\ (from = "inroot" \/ ~Unread) /\ ~Later(Other(from))
                   \/ from = "default" /\ Unread /\ ~Later("inroot")
    <2>1. (Later(Other(h)) <=> StampedLater(Other(h), unread)) /\ ~(Later(h) /\ Later(Other(h)))
      BY <1>1, <1>2, <1>3 DEF LaterTold
    <2>2. CASE Later(Other(h))
      <3>1. ReadHome(h, unread) = Other(h)
        BY <2>1, <2>2 DEF ReadHome
      <3> QED
        BY <1>2, <2>1, <2>2, <3>1 DEF Later
    <2>3. CASE ~Later(Other(h))
      <3>1. ReadHome(h, unread) = h
        BY <2>1, <2>3 DEF ReadHome
      <3> QED
        BY <1>2, <2>3, <3>1 DEF Homes, Other
    <2> QED
      BY <2>2, <2>3
  <1>4. ASSUME NEW h \in Homes, NEW unread \in BOOLEAN, unread <=> Unread
        PROVE  Read(h, unread) \in allowed
    <2> DEFINE from == ReadHome(h, unread)
    <2>1. CASE from \in Homes /\ (from = "inroot" \/ ~Unread) /\ ~Later(Other(from))
      <3>1. Readable(from, unread) /\ StateOf(from) \in allowed
        BY <1>4, <2>1 DEF Readable, HomesRead, Whole
      <3> QED
        BY <3>1 DEF Read
    <2>2. CASE from = "default" /\ Unread /\ ~Later("inroot")
      <3>1. ~Readable(from, unread)
        BY <1>4, <2>2 DEF Readable
      <3>2. "inroot" \in Homes /\ Newest("inroot") = 0 /\ ~Later(Other("inroot"))
        BY <2>2 DEF Later, Homes, Other
      <3>3. StateOf("inroot") = NoState /\ Whole("inroot")
        BY <3>2, NothingNewest, EmptyReads DEF HomesInv, HomesRead
      <3> QED
        BY <3>1, <3>3 DEF Read, Whole
    <2> QED
      BY <1>3, <1>4, <2>1, <2>2
  <1>5. Stale \in BOOLEAN /\ ((\A r \in Runs : pc[r] # "discarding") => (Stale <=> Unread))
    BY DEF Stale, Unread
  <1>6. ASSUME NEW r \in Runs, pc[r] = "work"
        PROVE  /\ Read(home[r], stale[r]) \in allowed
               /\ Named(ReadHome(home[r], stale[r])) \subseteq Held(ReadHome(home[r], stale[r]))
    <2>1. home[r] \in Homes /\ stale[r] \in BOOLEAN
      BY DEF HomesInv, LockInv
    <2>2. (stale[r] <=> Stale) /\ (home[r] = "default" => ident = folder)
      BY <1>6 DEF IdentTells, LockedSteps
    <2>3. \A q \in Runs : pc[q] # "discarding"
      BY <1>6 DEF HomesInv, OneHome
    <2>4. stale[r] <=> Unread
      BY <1>5, <2>2, <2>3
    <2> DEFINE from == ReadHome(home[r], stale[r])
    <2>5. CASE from \in Homes /\ (from = "inroot" \/ ~Unread) /\ ~Later(Other(from))
      BY <1>4, <2>1, <2>4, <2>5 DEF HomesRead, Whole
    <2>6. CASE from = "default" /\ Unread /\ ~Later("inroot")
      <3>1. home[r] = "inroot"
        BY <1>5, <2>1, <2>2, <2>3, <2>6 DEF Homes, Stale
      <3>2. ReadHome("inroot", stale[r]) = "inroot"
        <4>1. ~Later("default")
          BY <2>6 DEF Later
        <4>2. ~StampedLater("default", stale[r])
          BY <1>1, <2>1, <2>4, <4>1 DEF LaterTold, Homes
        <4> QED
          BY <4>2 DEF ReadHome, Other
      <3> QED
        BY <2>6, <3>1, <3>2
    <2> QED
      BY <1>3, <2>1, <2>4, <2>5, <2>6
  <1> QED
    BY <1>4, <1>5, <1>6 DEF ReadsWholeChange, ReadsLastChange, NamedContentStands

-----------------------------------------------------------------------------
(* Times are kept. *)

\* A step that writes nothing new: what stands was there, or is a copy.
LEMMA TimesKept ==
  ASSUME FileInv, TimesTell, clock' \in Nat, clock' >= clock,
         \A h \in Homes, n \in Names :
            file'[h][n] = Absent \/ \E g \in Homes : file'[h][n] = file[g][n],
         \A h \in Homes : stamp'[h] = 0 \/ \E g \in Homes : stamp'[h] = stamp[g]
  PROVE  TimesTell'
  <1>1. clock \in Nat /\ clock > 0 /\ \A h \in Homes : stamp[h] \in Nat
    BY DEF FileInv
  <1>2. \A h \in Homes : stamp'[h] < clock'
    BY <1>1 DEF TimesTell
  <1>3. \A h \in Homes, n \in Names : file'[h][n].time = 0 => file'[h][n] = Absent
    BY DEF TimesTell
  <1>4. Absent.time = 0
    BY DEF Absent
  <1>5. ASSUME NEW h \in Homes, NEW g \in Homes, NEW n \in Names, NEW m \in Names,
               file'[h][n].time = file'[g][m].time, file'[h][n].time # 0
        PROVE  n = m /\ file'[h][n] = file'[g][m]
    <2>1. PICK i \in Homes : file'[h][n] = file[i][n]
      BY <1>4, <1>5
    <2>2. PICK j \in Homes : file'[g][m] = file[j][m]
      BY <1>4, <1>5
    <2> QED
      BY <1>5, <2>1, <2>2 DEF TimesTell
  <1> QED
    BY <1>2, <1>3, <1>5 DEF TimesTell

\* A file written at a time no file or stamp has yet.
LEMMA WrittenTimes ==
  ASSUME FileInv, TimesTell, NEW r \in Runs, NEW n \in Names, NEW names \in SUBSET Contents,
         Writes(r, n, names), UNCHANGED stamp
  PROVE  TimesTell'
  <1>1. clock \in Nat /\ clock > 0 /\ home[r] \in Homes /\ clock' = clock + 1
    BY DEF FileInv, Writes
  <1>2. \A h \in Homes : stamp'[h] < clock'
    BY <1>1 DEF FileInv, TimesTell
  <1>3. \A h \in Homes, m \in Names :
           file'[h][m] = IF h = home[r] /\ m = n THEN [time |-> clock, names |-> names] ELSE file[h][m]
    BY DEF FileInv, Writes
  <1>4. \A h \in Homes, m \in Names : file[h][m].time \in Nat /\ file[h][m].time < clock
    BY DEF FileInv, File
  <1>5. \A h \in Homes, m \in Names : file'[h][m].time = 0 => file'[h][m] = Absent
    BY <1>1, <1>3 DEF TimesTell
  <1>6. ASSUME NEW h \in Homes, NEW g \in Homes, NEW m \in Names, NEW k \in Names,
               file'[h][m].time = file'[g][k].time, file'[h][m].time # 0
        PROVE  m = k /\ file'[h][m] = file'[g][k]
    <2>1. CASE (h = home[r] /\ m = n) /\ (g = home[r] /\ k = n)
      BY <2>1
    <2>2. CASE (h = home[r] /\ m = n) /\ ~(g = home[r] /\ k = n)
      <3>1. file'[h][m].time = clock /\ file'[g][k] = file[g][k]
        BY <1>3, <2>2
      <3>2. file[g][k].time # clock
        BY <1>1, <1>4
      <3> QED
        BY <1>6, <3>1, <3>2
    <2>3. CASE ~(h = home[r] /\ m = n) /\ (g = home[r] /\ k = n)
      <3>1. file'[g][k].time = clock /\ file'[h][m] = file[h][m]
        BY <1>3, <2>3
      <3>2. file[h][m].time # clock
        BY <1>1, <1>4
      <3> QED
        BY <1>6, <3>1, <3>2
    <2>4. CASE ~(h = home[r] /\ m = n) /\ ~(g = home[r] /\ k = n)
      <3>1. file'[g][k] = file[g][k] /\ file'[h][m] = file[h][m]
        BY <1>3, <2>4
      <3> QED
        BY <1>6, <3>1 DEF TimesTell
    <2> QED
      BY <2>1, <2>2, <2>3, <2>4
  <1> QED
    BY <1>2, <1>5, <1>6 DEF TimesTell

LEMMA RemovedTimes ==
  ASSUME FileInv, TimesTell, NEW r \in Runs, NEW gone, Removes(r, gone), UNCHANGED stamp
  PROVE  TimesTell'
  <1>1. clock' \in Nat /\ clock' >= clock
    BY DEF FileInv, Removes
  <1>2. \A h \in Homes, n \in Names : file'[h][n] = Absent \/ file'[h][n] = file[h][n]
    BY DEF FileInv, Removes
  <1> QED
    BY <1>1, <1>2, TimesKept

LEMMA StepKeepsTimes ==
  ASSUME FileInv, TimesTell, [Next]_vars
  PROVE  TimesTell'
  <1>0. clock \in Nat
    BY DEF FileInv
  <1>1. ASSUME UNCHANGED <<file, stamp, clock>>
        PROVE  TimesTell'
    BY <1>0, <1>1, TimesKept
  <1>2. CASE CreatesAgain
    BY <1>0, <1>2, TimesKept DEF CreatesAgain, FileInv, Homes
  <1>3. ASSUME NEW r \in Runs, Opening(r) \/ Kill(r) \/ Settles(r) \/ Settled(r)
        PROVE  TimesTell'
    BY <1>1, <1>3 DEF Opening, OpensDefault, OpensInRoot, Kill, Settles, Settled, disk
  <1>4. ASSUME NEW r \in Runs, Discards(r)
        PROVE  TimesTell'
    <2>1. UNCHANGED clock
      BY <1>4 DEF Discards
    <2>2. \A h \in Homes, n \in Names : file'[h][n] = Absent \/ file'[h][n] = file[h][n]
      BY <1>4 DEF Discards, FileInv
    <2>3. \A h \in Homes : stamp'[h] = 0 \/ stamp'[h] = stamp[h]
      BY <1>4 DEF Discards, FileInv
    <2> QED
      BY <1>0, <2>1, <2>2, <2>3, TimesKept
  <1>5. ASSUME NEW r \in Runs, LocksFirst(r) \/ LocksSecond(r) \/ ComparesStamps(r)
        PROVE  TimesTell'
    BY <1>1, <1>5 DEF LocksFirst, LocksSecond, ComparesStamps, disk
  <1>6. ASSUME NEW r \in Runs, AdoptRemoves(r)
        PROVE  TimesTell'
    BY <1>6, RemovedTimes DEF AdoptRemoves
  <1>7. ASSUME NEW r \in Runs, AdoptCopies(r)
        PROVE  TimesTell'
    <2>1. UNCHANGED <<clock, stamp>> /\ Other(home[r]) \in Homes
      BY <1>7 DEF AdoptCopies, Other, Homes
    <2>2. PICK n \in Names : file' = [file EXCEPT ![home[r]][n] = file[Other(home[r])][n]]
      BY <1>7 DEF AdoptCopies, Uncopied, Held
    <2>3. \A h \in Homes, m \in Names :
             file'[h][m] = file[h][m] \/ file'[h][m] = file[Other(home[r])][m]
      BY <2>2 DEF FileInv
    <2> QED
      BY <1>0, <2>1, <2>3, TimesKept
  <1>8. ASSUME NEW r \in Runs, AdoptStamps(r)
        PROVE  TimesTell'
    <2>1. UNCHANGED <<clock, file>> /\ Other(home[r]) \in Homes
      BY <1>8 DEF AdoptStamps, Other, Homes
    <2>2. \A h \in Homes : stamp'[h] = stamp[h] \/ stamp'[h] = stamp[Other(home[r])]
      BY <1>8 DEF AdoptStamps, FileInv
    <2> QED
      BY <1>0, <2>1, <2>2, TimesKept
  <1>9. ASSUME NEW r \in Runs, NEW d \in Docs, WritesDoc(r, d) \/ RemovesDoc(r, d)
        PROVE  TimesTell'
    BY <1>9, WrittenTimes, RemovedTimes DEF WritesDoc, RemovesDoc, Names, Documents
  <1>10. ASSUME NEW r \in Runs, NEW c \in Contents, StoresContent(r, c)
         PROVE  TimesTell'
    BY <1>10, WrittenTimes DEF StoresContent, Names
  <1>11. ASSUME NEW r \in Runs, NEW s \in Snapshots, SnapshotStep(r, s)
         PROVE  TimesTell'
    <2>1. file[home[r]][s].names \cup stored[r] \subseteq Contents /\ s \in Names
      BY DEF FileInv, File, Names, Documents
    <2> QED
      BY <1>11, <2>1, WrittenTimes, RemovedTimes DEF SnapshotStep
  <1>12. ASSUME NEW r \in Runs, RemovesCreated(r) \/ Prunes(r) \/ SnapshotsFail(r)
         PROVE  TimesTell'
    BY <1>12, RemovedTimes DEF RemovesCreated, Prunes, SnapshotsFail
  <1>13. ASSUME NEW r \in Runs, BeginsWrite(r) \/ BeginsRemoval(r) \/ Pruned(r) \/ Ends(r)
         PROVE  TimesTell'
    BY <1>1, <1>13 DEF BeginsWrite, BeginsRemoval, Pruned, Ends, disk
  <1>14. ASSUME NEW r \in Runs, Stamps(r)
         PROVE  TimesTell'
    <2>1. clock' = clock + 1 /\ UNCHANGED file /\ \A h \in Homes : stamp'[h] = stamp[h] \/ stamp'[h] = clock
      BY <1>14 DEF Stamps, FileInv
    <2>2. ASSUME NEW h \in Homes
          PROVE  stamp'[h] < clock'
      <3>1. stamp[h] \in Nat /\ stamp[h] < clock
        BY DEF FileInv, TimesTell
      <3> QED
        BY <1>0, <2>1, <3>1
    <2> QED
      BY <2>1, <2>2 DEF TimesTell
  <1>15. CASE UNCHANGED vars
    BY <1>1, <1>15 DEF vars, disk
  <1> QED
    BY <1>2, <1>3, <1>4, <1>5, <1>6, <1>7, <1>8, <1>9, <1>10, <1>11, <1>12, <1>13, <1>14, <1>15
       DEF Next, Step, Locking, Changing

\* The memory's types, kept.
LEMMA StepKeepsMemoryTypes ==
  ASSUME FileInv, MemoryTypes, [Next]_vars
  PROVE  MemoryTypes'
  <1>1. ASSUME UNCHANGED <<left, op>>
        PROVE  MemoryTypes'
    BY <1>1 DEF MemoryTypes
  <1>2. ASSUME NEW r \in Runs, Forget(r)
        PROVE  MemoryTypes'
    BY <1>2 DEF MemoryTypes, Forget
  <1>3. CASE UNCHANGED vars \/ CreatesAgain
    BY <1>1, <1>3 DEF vars, memory, CreatesAgain
  <1>4. ASSUME NEW r \in Runs, Opening(r) \/ Kill(r)
        PROVE  MemoryTypes'
    BY <1>1, <1>2, <1>4 DEF Opening, OpensDefault, OpensInRoot, Kill, EndRun, memory
  <1>5. ASSUME NEW r \in Runs, Locking(r)
        PROVE  MemoryTypes'
    <2>1. CASE Settles(r)
      <3>1. /\ Held("default") \cup {"folder"} \cup (IF stamp["default"] # 0 THEN {"stamp"} ELSE {})
                 \in SUBSET (Names \cup {"stamp", "folder"})
            /\ {} \in SUBSET (Names \cup {"stamp", "folder"})
        BY DEF Held
      <3> QED
        BY <2>1, <3>1 DEF MemoryTypes, Settles
    <2>2. CASE Discards(r)
      BY <2>2 DEF MemoryTypes, Discards
    <2> QED
      BY <1>1, <1>5, <2>1, <2>2 DEF Locking, Settled, LocksFirst, LocksSecond, ComparesStamps,
         AdoptRemoves, AdoptCopies, AdoptStamps, memory
  <1>6. ASSUME NEW r \in Runs, Changing(r)
        PROVE  MemoryTypes'
    <2>1. CASE BeginsWrite(r) \/ BeginsRemoval(r)
      <3>1. Snapshots \cap Held(home[r]) \subseteq Names /\ Snapshots \subseteq Names
        BY DEF Names, Documents
      <3>2. PICK some \in SUBSET Snapshots : left' = [left EXCEPT ![r] = some]
        BY <2>1 DEF BeginsWrite, BeginsRemoval
      <3>3. left' \in [Runs -> SUBSET (Names \cup {"stamp", "folder"})]
        BY <3>1, <3>2 DEF MemoryTypes
      <3>4. op' \in [Runs -> {"none", "write", "remove", "prune"}]
        BY <2>1 DEF MemoryTypes, BeginsWrite, BeginsRemoval
      <3> QED
        BY <3>3, <3>4 DEF MemoryTypes
    <2>2. ASSUME NEW s \in Snapshots, SnapshotStep(r, s)
          PROVE  MemoryTypes'
      BY <2>2 DEF MemoryTypes, SnapshotStep
    <2>3. CASE Stamps(r) \/ Pruned(r)
      BY <2>3 DEF MemoryTypes, Stamps, Pruned
    <2> QED
      BY <1>1, <1>2, <1>6, <2>1, <2>2, <2>3 DEF Changing, WritesDoc, RemovesDoc, StoresContent, RemovesCreated,
         Prunes, SnapshotsFail, Ends, EndRun, memory
  <1> QED
    BY <1>3, <1>4, <1>5, <1>6 DEF Next, Step

-----------------------------------------------------------------------------
(* What a run knows of the default home's identity is kept. *)

\* A run past `lock` changes its own home alone.
LEMMA OwnHomeChanged ==
  ASSUME FileInv, NEW r \in Runs,
         \/ ComparesStamps(r) \/ AdoptRemoves(r) \/ AdoptCopies(r) \/ AdoptStamps(r)
         \/ Changing(r)
  PROVE  /\ \A h \in Homes : h # home[r] => file'[h] = file[h] /\ stamp'[h] = stamp[h]
         /\ UNCHANGED <<folder, ident>>
  <1>1. ASSUME UNCHANGED file, \/ UNCHANGED stamp
                               \/ \E t : stamp' = [stamp EXCEPT ![home[r]] = t]
        PROVE  \A h \in Homes : h # home[r] => file'[h] = file[h] /\ stamp'[h] = stamp[h]
    BY <1>1 DEF FileInv
  <1>2. ASSUME UNCHANGED stamp, \/ \E gone : Removes(r, gone)
                                \/ \E n \in Names : \E names : Writes(r, n, names)
        PROVE  \A h \in Homes : h # home[r] => file'[h] = file[h] /\ stamp'[h] = stamp[h]
    BY <1>2 DEF FileInv, Removes, Writes
  <1>3. CASE ComparesStamps(r) \/ AdoptRemoves(r) \/ AdoptCopies(r) \/ AdoptStamps(r)
    BY <1>1, <1>2, <1>3 DEF ComparesStamps, AdoptRemoves, AdoptCopies, AdoptStamps, FileInv, Uncopied, Held, disk
  <1>4. ASSUME NEW d \in Docs, WritesDoc(r, d) \/ RemovesDoc(r, d)
        PROVE  \A h \in Homes : h # home[r] => file'[h] = file[h] /\ stamp'[h] = stamp[h]
    BY <1>2, <1>4 DEF WritesDoc, RemovesDoc, Names, Documents
  <1>5. ASSUME NEW c \in Contents, StoresContent(r, c)
        PROVE  \A h \in Homes : h # home[r] => file'[h] = file[h] /\ stamp'[h] = stamp[h]
    BY <1>2, <1>5 DEF StoresContent, Names
  <1>6. ASSUME NEW s \in Snapshots, SnapshotStep(r, s)
        PROVE  \A h \in Homes : h # home[r] => file'[h] = file[h] /\ stamp'[h] = stamp[h]
    BY <1>2, <1>6 DEF SnapshotStep, Names, Documents
  <1>7. CASE RemovesCreated(r) \/ Prunes(r) \/ SnapshotsFail(r)
    BY <1>2, <1>7 DEF RemovesCreated, Prunes, SnapshotsFail
  <1>8. CASE BeginsWrite(r) \/ BeginsRemoval(r) \/ Pruned(r) \/ Stamps(r) \/ Ends(r)
    BY <1>1, <1>8 DEF BeginsWrite, BeginsRemoval, Pruned, Stamps, Ends, disk
  <1>9. Changing(r) => UNCHANGED <<folder, ident>>
    BY ChangesHold DEF Holding
  <1> QED
    BY <1>3, <1>4, <1>5, <1>6, <1>7, <1>8, <1>9 DEF Changing

\* No run discards while another is past its opening, nor two at once.
LEMMA DiscardsAlone ==
  ASSUME OneHome, NEW r \in Runs, pc[r] # "none", NEW q \in Runs, pc[q] \in {"settling", "discarding"}
  PROVE  r = q /\ folder # 1
  BY DEF OneHome

LEMMA HoldingKeepsIdent ==
  ASSUME HomesInv, IdentTells, NEW r \in Runs, Holding(r),
         \A h \in Homes : h # home[r] => file'[h] = file[h] /\ stamp'[h] = stamp[h]
  PROVE  IdentTells' /\ (Unread' <=> Unread) /\ (Unread <=> Stale)
  <1>1. /\ pc[r] \in LockedSteps /\ pc'[r] \in LockedSteps /\ \A q \in Runs : q # r => pc'[q] = pc[q]
        /\ UNCHANGED <<home, stale, folder, ident>>
    BY DEF Holding, HomesInv, LockInv
  <1>2. \A q \in Runs : pc[q] # "discarding" /\ pc'[q] # "discarding"
    BY <1>1, DiscardsAlone DEF HomesInv, LockedSteps
  <1>3. (Unread' <=> Unread) /\ (Stale' <=> Stale) /\ (Unread <=> Stale)
    BY <1>1, <1>2 DEF Unread, Stale
  <1>4. ident = 0 => home[r] = "inroot"
    <2>1. home[r] \in Homes /\ folder \in Nat \ {0} /\ (home[r] = "default" => ident = folder)
      BY <1>1 DEF HomesInv, LockInv, IdentTells
    <2> QED
      BY <2>1 DEF Homes
  <1>5. ident = 0 /\ ~Unread => Emptied'
    <2>1. ident = 0 => file'["default"] = file["default"] /\ stamp'["default"] = stamp["default"]
      BY <1>4 DEF Homes
    <2> QED
      BY <2>1 DEF IdentTells, Emptied, Held
  <1>6. \A q \in Runs :
          /\ pc'[q] \in {"none", "settling", "discarding"} => home'[q] = "default" /\ ~stale'[q]
          /\ pc'[q] \in {"settling", "discarding"} => ident' # folder'
          /\ pc'[q] \in {"opened", "half"} \cup LockedSteps =>
                (stale'[q] <=> Stale') /\ (home'[q] = "default" => ident' = folder')
    BY <1>1, <1>3 DEF IdentTells, LockedSteps
  <1>7. IdentTells'
    BY <1>1, <1>2, <1>3, <1>5, <1>6 DEF IdentTells
  <1> QED
    BY <1>3, <1>7

\* A run that ends while the default home is whole, gone, or no one's.
LEMMA EndKeepsIdent ==
  ASSUME HomesInv, IdentTells, NEW r \in Runs, EndRun(r), UNCHANGED <<folder, ident>>,
         file'["default"] = file["default"] \/ (home[r] = "default" /\ pc[r] \in LockedSteps),
         UNCHANGED stamp, ~HalfDiscarded(r)
  PROVE  IdentTells'
  <1>1. /\ pc'[r] = "none" /\ home'[r] = "default" /\ ~stale'[r]
        /\ \A q \in Runs : q # r => pc'[q] = pc[q] /\ home'[q] = home[q] /\ stale'[q] = stale[q] /\ left'[q] = left[q]
    BY DEF EndRun, Goto, Forget, HomesInv, LockInv
  <1>2. Stale' <=> Stale
    BY DEF Stale
  <1>3. \A q \in Runs : pc'[q] = "discarding" => q # r /\ pc[q] = "discarding"
    BY <1>1
  <1>4. ASSUME NEW q \in Runs, pc'[q] = "discarding"
        PROVE  file'["default"] = file["default"]
    <2>1. pc[q] = "discarding" /\ q # r
      BY <1>3, <1>4
    <2>2. pc[r] = "none"
      BY <2>1, DiscardsAlone DEF HomesInv
    <2> QED
      BY <2>2 DEF LockedSteps
  <1>5. \A q \in Runs :
          /\ pc'[q] \in {"none", "settling", "discarding"} => home'[q] = "default" /\ ~stale'[q]
          /\ pc'[q] \in {"settling", "discarding"} => ident' # folder'
          /\ pc'[q] \in {"opened", "half"} \cup LockedSteps =>
                (stale'[q] <=> Stale') /\ (home'[q] = "default" => ident' = folder')
    BY <1>1, <1>2 DEF IdentTells, LockedSteps
  <1>6. \A q \in Runs : pc'[q] = "discarding" =>
          Held("default")' \subseteq left'[q] /\ (stamp'["default"] # 0 => "stamp" \in left'[q])
    BY <1>1, <1>3, <1>4 DEF IdentTells, Held
  <1>7. ASSUME ident = 0, ~Unread'
        PROVE  Emptied'
    <2>1. CASE Unread
      <3>1. \A q \in Runs : pc'[q] # "discarding"
        BY <1>7 DEF Unread
      <3>2. PICK q \in Runs : pc[q] = "discarding"
        BY <1>2, <1>7, <2>1 DEF Unread
      <3>3. q = r /\ pc[r] = "discarding" /\ left[r] = {}
        BY <1>1, <1>7, <3>1, <3>2 DEF HalfDiscarded
      <3>4. file'["default"] = file["default"]
        BY <3>3 DEF LockedSteps
      <3>5. Held("default") \subseteq left[r] /\ (stamp["default"] # 0 => "stamp" \in left[r])
        BY <3>3 DEF IdentTells
      <3> QED
        BY <3>3, <3>4, <3>5 DEF Emptied, Held
    <2>2. CASE ~Unread
      <3>1. folder \in Nat \ {0}
        BY DEF HomesInv, LockInv
      <3>2. ~(home[r] = "default" /\ pc[r] \in LockedSteps)
        BY <1>7, <3>1 DEF IdentTells
      <3> QED
        BY <1>7, <2>2, <3>2 DEF IdentTells, Emptied, Held
    <2> QED
      BY <2>1, <2>2
  <1> QED
    BY <1>5, <1>6, <1>7 DEF IdentTells

LEMMA OpeningKeepsIdent ==
  ASSUME HomesInv, IdentTells, NEW r \in Runs,
         Opening(r) \/ LocksFirst(r) \/ LocksSecond(r)
  PROVE  IdentTells' /\ (Unread' <=> Unread)
  <1>1. /\ UNCHANGED <<file, stamp, folder, ident, left>>
        /\ \A q \in Runs : q # r => pc'[q] = pc[q] /\ home'[q] = home[q] /\ stale'[q] = stale[q]
        /\ pc[r] \in {"none", "opened", "half"} /\ pc'[r] \in {"opened", "settling", "half", "locked"}
    BY DEF HomesInv, LockInv, Opening, OpensDefault, OpensInRoot, MayOpen, LocksFirst, LocksSecond, Goto, disk, memory
  <1>2. /\ pc'[r] = "settling" => ident # folder /\ home'[r] = "default" /\ ~stale'[r]
        /\ pc'[r] # "settling" => (stale'[r] <=> Stale) /\ (home'[r] = "default" => ident = folder)
    <2>1. CASE OpensDefault(r)
      <3>1. pc'[r] = IF ident = folder THEN "opened" ELSE "settling"
        BY <2>1 DEF OpensDefault, Goto, HomesInv, LockInv
      <3>2. home'[r] = "default" /\ ~stale'[r]
        BY <2>1 DEF OpensDefault, MayOpen, IdentTells
      <3> QED
        BY <3>1, <3>2 DEF Stale
    <2>2. CASE OpensInRoot(r)
      <3>1. pc'[r] = "opened" /\ home'[r] = "inroot" /\ (stale'[r] <=> Stale)
        BY <2>2 DEF OpensInRoot, Goto, HomesInv, LockInv, Stale
      <3> QED
        BY <3>1
    <2>3. CASE LocksFirst(r) \/ LocksSecond(r)
      <3>1. pc[r] \in {"opened", "half"} /\ UNCHANGED <<home, stale>> /\ pc'[r] # "settling"
        BY <2>3 DEF LocksFirst, LocksSecond, Goto, HomesInv, LockInv
      <3> QED
        BY <3>1 DEF IdentTells
    <2> QED
      BY <2>1, <2>2, <2>3 DEF Opening
  <1>3. (Stale' <=> Stale) /\ (Unread' <=> Unread)
    <2>1. Stale' <=> Stale
      BY <1>1 DEF Stale
    <2>2. \A q \in Runs : pc'[q] = "discarding" <=> pc[q] = "discarding"
      BY <1>1
    <2> QED
      BY <2>1, <2>2 DEF Unread
  <1>4. Held("default")' = Held("default") /\ (Emptied' <=> Emptied)
    BY <1>1 DEF Held, Emptied
  <1>5. \A q \in Runs :
          /\ pc'[q] \in {"none", "settling", "discarding"} => home'[q] = "default" /\ ~stale'[q]
          /\ pc'[q] \in {"settling", "discarding"} => ident' # folder'
          /\ pc'[q] \in {"opened", "half"} \cup LockedSteps =>
                (stale'[q] <=> Stale') /\ (home'[q] = "default" => ident' = folder')
          /\ pc'[q] = "discarding" =>
                Held("default")' \subseteq left'[q] /\ (stamp'["default"] # 0 => "stamp" \in left'[q])
    BY <1>1, <1>2, <1>3, <1>4 DEF IdentTells, LockedSteps
  <1> QED
    BY <1>1, <1>3, <1>4, <1>5 DEF IdentTells

\* Of a later folder the run that settles is alone.
LEMMA SettlingKeepsIdent ==
  ASSUME HomesInv, MemoryTypes, IdentTells, NEW r \in Runs, Settles(r) \/ Discards(r) \/ Settled(r)
  PROVE  /\ IdentTells'
         /\ Settles(r) => Unread' /\ (Unread \/ Emptied)
         /\ Discards(r) => Unread' /\ Unread
         /\ Settled(r) => ~Unread' /\ Unread /\ Emptied
         /\ \A q \in Runs : q # r => pc[q] = "none" /\ pc'[q] = "none"
  <1>1. pc[r] \in {"settling", "discarding"} /\ folder # 1 /\ home[r] = "default" /\ ~stale[r] /\ ident # folder
    BY DiscardsAlone DEF HomesInv, Settles, Discards, Settled, IdentTells
  <1>2. ASSUME NEW q \in Runs, q # r
        PROVE  /\ pc[q] = "none" /\ pc'[q] = "none" /\ home'[q] = "default" /\ ~stale'[q]
    <2>1. pc[q] = "none"
      BY <1>1, <1>2 DEF HomesInv, OneHome
    <2> QED
      BY <1>2, <2>1 DEF IdentTells, Settles, Discards, Settled, Goto, HomesInv, LockInv
  <1>3. UNCHANGED <<home, stale, folder>> /\ folder \in Nat \ {0}
    BY DEF Settles, Discards, Settled, HomesInv, LockInv, disk, memory
  <1>4. CASE Settles(r)
    <2>1. /\ pc'[r] = "discarding" /\ UNCHANGED <<file, stamp, ident>>
          /\ left'[r] = IF Stale THEN Held("default") \cup {"folder"} \cup
                                       (IF stamp["default"] # 0 THEN {"stamp"} ELSE {})
                        ELSE {}
      BY <1>4 DEF Settles, Goto, HomesInv, LockInv, MemoryTypes, disk
    <2>2. Unread' /\ (Unread \/ Emptied)
      <3>1. Unread'
        BY <2>1 DEF Unread
      <3>2. ident = 0 \/ Stale
        BY <1>1 DEF Stale
      <3> QED
        BY <3>1, <3>2 DEF IdentTells, Unread
    <2>3. Held("default")' \subseteq left'[r] /\ (stamp'["default"] # 0 => "stamp" \in left'[r])
      <3>1. CASE Stale
        BY <2>1, <3>1 DEF Held
      <3>2. CASE ~Stale
        <4>1. ident = 0 /\ ~Unread
          <5>1. \A q \in Runs : pc[q] # "discarding"
            BY <1>2, <1>4 DEF Settles
          <5> QED
            BY <1>1, <3>2, <5>1 DEF Stale, Unread
        <4>2. Emptied
          BY <4>1 DEF IdentTells
        <4> QED
          BY <2>1, <4>2 DEF Emptied, Held
      <3> QED
        BY <3>1, <3>2
    <2>4. IdentTells'
      <3>1. \A q \in Runs : q = r \/ (pc'[q] = "none" /\ home'[q] = "default" /\ ~stale'[q])
        BY <1>2
      <3>2. pc'[r] = "discarding" /\ home'[r] = "default" /\ ~stale'[r] /\ ident' # folder'
        BY <1>1, <1>3, <2>1
      <3> QED
        BY <2>2, <2>3, <3>1, <3>2 DEF IdentTells, LockedSteps
    <2> QED
      BY <1>2, <1>4, <2>2, <2>4 DEF Discards, Settled, Settles
  <1>5. CASE Discards(r)
    <2>1. /\ pc[r] = "discarding" /\ pc'[r] = "discarding"
      BY <1>5 DEF Discards
    <2>2. PICK entry \in left[r] :
            /\ left' = [left EXCEPT ![r] = @ \ {entry}]
            /\ file' = IF entry \in Names THEN [file EXCEPT !["default"][entry] = Absent] ELSE file
            /\ stamp' = IF entry = "stamp" THEN [stamp EXCEPT !["default"] = 0] ELSE stamp
            /\ ident' = IF entry = "folder" THEN 0 ELSE ident
      BY <1>5 DEF Discards
    <2>3. left'[r] = left[r] \ {entry}
      BY <2>2 DEF MemoryTypes
    <2>4. Held("default")' \subseteq left'[r]
      <3>1. ASSUME NEW n \in Names, file'["default"][n] # Absent
            PROVE  n # entry /\ file["default"][n] # Absent
        BY <2>2, <3>1 DEF HomesInv, FileInv, Homes
      <3> QED
        BY <2>1, <2>3, <3>1 DEF IdentTells, Held
    <2>5. stamp'["default"] # 0 => "stamp" \in left'[r]
      <3>1. stamp'["default"] # 0 => entry # "stamp" /\ stamp["default"] # 0
        BY <2>2 DEF HomesInv, FileInv, Homes
      <3> QED
        BY <2>1, <2>3, <3>1 DEF IdentTells
    <2>6. Unread /\ Unread'
      BY <2>1 DEF Unread
    <2>7. IdentTells'
      <3>1. \A q \in Runs : q = r \/ (pc'[q] = "none" /\ home'[q] = "default" /\ ~stale'[q])
        BY <1>2
      <3>2. pc'[r] = "discarding" /\ home'[r] = "default" /\ ~stale'[r] /\ ident' # folder'
        BY <1>1, <1>3, <2>1, <2>2
      <3> QED
        BY <2>4, <2>5, <2>6, <3>1, <3>2 DEF IdentTells, LockedSteps
    <2> QED
      BY <1>2, <1>5, <2>1, <2>6, <2>7 DEF Settles, Settled
  <1>6. CASE Settled(r)
    <2>1. pc[r] = "discarding" /\ pc'[r] = "opened" /\ left[r] = {} /\ ident' = folder /\ UNCHANGED <<file, stamp>>
      BY <1>6 DEF Settled, Goto, HomesInv, LockInv
    <2>2. Emptied
      BY <2>1 DEF IdentTells, Emptied
    <2>3. Unread /\ ~Unread' /\ ~Stale'
      BY <1>2, <1>3, <2>1 DEF Unread, Stale
    <2>4. IdentTells'
      <3>1. \A q \in Runs : q = r \/ (pc'[q] = "none" /\ home'[q] = "default" /\ ~stale'[q])
        BY <1>2
      <3>2. pc'[r] = "opened" /\ home'[r] = "default" /\ ~stale'[r] /\ ident' = folder' /\ ident' # 0
        BY <1>1, <1>3, <2>1
      <3> QED
        BY <2>3, <3>1, <3>2 DEF IdentTells, LockedSteps
    <2> QED
      BY <1>2, <1>6, <2>1, <2>2, <2>3, <2>4 DEF Settles, Discards
  <1> QED
    BY <1>4, <1>5, <1>6

LEMMA CreatingKeepsIdent ==
  ASSUME HomesInv, IdentTells, CreatesAgain
  PROVE  /\ IdentTells' /\ UNCHANGED ident
         /\ ident = 0 => ~Unread' /\ Emptied
         /\ ident # 0 => Unread'
  <1>1. /\ UNCHANGED <<pc, home, stale, ident>> /\ folder' = folder + 1 /\ \A r \in Runs : pc[r] = "none"
        /\ file'["default"] = file["default"] /\ stamp'["default"] = stamp["default"]
    BY DEF CreatesAgain, HomesInv, FileInv, Homes
  <1>2. folder \in Nat /\ ident \in Nat /\ ident <= folder
    BY DEF HomesInv, LockInv
  <1>3. (Unread <=> Stale) /\ (Unread' <=> Stale')
    BY <1>1 DEF Unread
  <1>4. (ident = 0 => ~Stale /\ ~Stale') /\ (ident # 0 => Stale')
    BY <1>1, <1>2 DEF Stale
  <1>5. ident = 0 => Emptied /\ Emptied'
    BY <1>1, <1>3, <1>4 DEF IdentTells, Emptied, Held
  <1> QED
    BY <1>1, <1>3, <1>4, <1>5 DEF IdentTells, LockedSteps

-----------------------------------------------------------------------------
(* What the homes hold is read whole. *)

HomesFact == \A h \in Homes : Other(h) \in Homes /\ Other(Other(h)) = h /\ Other(h) # h
LEMMA TwoHomes == HomesFact /\ \A h, g \in Homes : g = h \/ g = Other(h)
  BY DEF HomesFact, Homes, Other

\* A home whose files stand as they did reads as it did.
LEMMA HomeKept ==
  ASSUME NEW h \in Homes, file'[h] = file[h]
  PROVE  /\ Newest(h)' = Newest(h) /\ StateOf(h)' = StateOf(h)
         /\ Held(h)' = Held(h) /\ Named(h)' = Named(h)
  BY DEF Newest, StateOf, Held, Named

LEMMA SameFilesSameRead ==
  ASSUME NEW h \in Homes, NEW g \in Homes, file[h] = file[g]
  PROVE  Newest(h) = Newest(g) /\ (Whole(h) <=> Whole(g))
  BY DEF Newest, Whole, StateOf, Held, Named

LEMMA SameReads ==
  ASSUME UNCHANGED <<file, stamp>>, Unread' <=> Unread
  PROVE  \A h \in Homes : /\ (Later(h)' <=> Later(h)) /\ (Unstamped' <=> Unstamped)
                          /\ NoState' = NoState /\ StateOf(h)' = StateOf(h)
                          /\ (UNCHANGED allowed => (Whole(h)' <=> Whole(h)))
  <1>1. \A h \in Homes : /\ Newest(h)' = Newest(h) /\ StateOf(h)' = StateOf(h)
                         /\ Held(h)' = Held(h) /\ Named(h)' = Named(h)
    BY HomeKept
  <1> QED
    BY <1>1, TwoHomes DEF Later, Unstamped, Whole, NoState, HomesFact

\* Two runs past `lock` are one.
LEMMA OneLocked ==
  ASSUME HomesInv, NEW r \in Runs, NEW q \in Runs, pc[r] \in LockedSteps, pc[q] \in LockedSteps
  PROVE  r = q
  BY DEF HomesInv, LockInv, OneHome, LockedSteps

\* A run past `lock` may read the home it writes.
LEMMA OwnHomeRead ==
  ASSUME HomesInv, IdentTells, NEW r \in Runs, pc[r] \in LockedSteps
  PROVE  /\ home[r] \in Homes /\ (home[r] = "inroot" \/ ~Unread) /\ (stale[r] <=> Unread)
         /\ stale[r] \in BOOLEAN
  <1>1. \A q \in Runs : pc[q] # "discarding"
    BY DiscardsAlone DEF HomesInv, LockedSteps
  <1>2. Unread <=> Stale
    BY <1>1 DEF Unread
  <1> QED
    BY <1>2 DEF HomesInv, LockInv, IdentTells, Stale, Homes

\* A step that changes no home and ends and adopts nothing.
LEMMA ReadKept ==
  ASSUME HomesInv, HomesRead, RunsRead, UNCHANGED <<file, stamp, allowed>>, Unread' <=> Unread,
         \A q \in Runs : \/ pc'[q] = pc[q] /\ home'[q] = home[q]
                         \/ pc[q] \notin {"adopting"} \cup ChangeSteps /\ pc'[q] \notin {"adopting"} \cup ChangeSteps
  PROVE  HomesRead' /\ RunsRead'
  <1>1. \A h \in Homes : /\ (Later(h)' <=> Later(h)) /\ (Unstamped' <=> Unstamped)
                         /\ NoState' = NoState /\ (Whole(h)' <=> Whole(h))
    BY SameReads
  <1>2. \A h \in Homes : Adopts(h)' <=> Adopts(h)
    BY DEF Adopts
  <1>3. HomesRead'
    BY <1>1, <1>2, TwoHomes DEF HomesRead, HomesFact, Homes
  <1>4. RunsRead'
    BY <1>1, TwoHomes DEF RunsRead, HomesFact, HomesInv, LockInv, ChangeSteps
  <1> QED
    BY <1>3, <1>4

LEMMA OpeningKeepsRead ==
  ASSUME HomesInv, IdentTells, HomesRead, RunsRead, NEW r \in Runs,
         Opening(r) \/ LocksFirst(r) \/ LocksSecond(r)
  PROVE  HomesRead' /\ RunsRead'
  <1>1. Unread' <=> Unread
    BY OpeningKeepsIdent
  <1>2. /\ UNCHANGED <<file, stamp, allowed>>
        /\ \A q \in Runs : q # r => pc'[q] = pc[q] /\ home'[q] = home[q]
        /\ pc[r] \in {"none", "opened", "half"} /\ pc'[r] \in {"opened", "settling", "half", "locked"}
    BY DEF HomesInv, LockInv, Opening, OpensDefault, OpensInRoot, MayOpen, LocksFirst, LocksSecond, Goto, disk
  <1> QED
    BY <1>1, <1>2, ReadKept DEF ChangeSteps

\* A home emptied of a removed folder's state is read as one without state.
LEMMA EmptiedRead ==
  ASSUME HomesInv, HomesRead, UNCHANGED <<file, stamp, allowed>>, Unread, ~Unread', Emptied,
         \A q \in Runs : pc'[q] \notin {"adopting"} \cup ChangeSteps
  PROVE  HomesRead' /\ RunsRead'
  <1>1. \A h \in Homes : /\ Newest(h)' = Newest(h) /\ StateOf(h)' = StateOf(h)
                         /\ Held(h)' = Held(h) /\ Named(h)' = Named(h)
    BY HomeKept
  <1>2. \A h \in Homes : Whole(h)' <=> Whole(h)
    BY <1>1 DEF Whole
  <1>3. Whole("inroot") /\ (stamp["inroot"] = 0 => NoState \in allowed)
    BY TwoHomes DEF HomesRead, Later, Homes, Other
  <1>4. stamp["inroot"] = 0 => Whole("default")
    <2>1. \A n \in Names : file["default"][n] = Absent
      BY DEF Emptied, Held
    <2> QED
      BY <1>3, <2>1, EmptyReads DEF Whole, Homes
  <1>5. stamp["inroot"] # 0 => Later("inroot")'
    BY DEF Later, Emptied, Other, HomesInv, FileInv, Homes
  <1>6. NoState' = NoState
    BY DEF NoState
  <1>7. HomesRead'
    BY <1>2, <1>3, <1>4, <1>5, <1>6 DEF HomesRead, Homes, Other, Unstamped
  <1>8. RunsRead'
    BY DEF RunsRead
  <1> QED
    BY <1>7, <1>8

LEMMA SettlingKeepsRead ==
  ASSUME HomesInv, FileInv', MemoryTypes, TimesTell, IdentTells, HomesRead, RunsRead, NEW r \in Runs,
         Settles(r) \/ Discards(r) \/ Settled(r)
  PROVE  HomesRead' /\ RunsRead'
  <1>1. /\ Settles(r) => Unread' /\ (Unread \/ Emptied)
        /\ Discards(r) => Unread' /\ Unread
        /\ Settled(r) => ~Unread' /\ Unread /\ Emptied
        /\ \A q \in Runs : q # r => pc[q] = "none" /\ pc'[q] = "none"
    BY SettlingKeepsIdent
  <1>2. /\ pc[r] \in {"settling", "discarding"} /\ pc'[r] \in {"discarding", "opened"}
        /\ UNCHANGED <<home, allowed>>
    BY DEF Settles, Discards, Settled, Goto, HomesInv, LockInv, memory
  <1>3. \A q \in Runs : pc'[q] \notin {"adopting"} \cup ChangeSteps
    BY <1>1, <1>2 DEF ChangeSteps
  <1>4. CASE Settled(r)
    BY <1>1, <1>3, <1>4, EmptiedRead DEF Settled
  <1>5. CASE Settles(r) \/ Discards(r)
    <2>1. Unread' /\ file'["inroot"] = file["inroot"] /\ stamp'["inroot"] = stamp["inroot"]
      BY <1>1, <1>5 DEF Settles, Discards, HomesInv, FileInv, Homes, disk
    <2>2. Whole("inroot") /\ (stamp["inroot"] = 0 => NoState \in allowed)
      <3>1. CASE Unread
        BY <3>1 DEF HomesRead, Later, Homes, Other
      <3>2. CASE ~Unread /\ Emptied
        <4>1. Newest("default") = 0
          <5>1. NewestTold
            BY NewestIsTold DEF HomesInv
          <5>2. \A n \in Names : file["default"][n].time = 0
            BY <3>2 DEF Emptied, Held, Absent
          <5> QED
            BY <5>1, <5>2 DEF NewestTold, Homes
        <4>2. NewestTold
          BY NewestIsTold DEF HomesInv
        <4>3. ~Later("default")
          BY <3>2, <4>1, <4>2 DEF Later, Emptied, NewestTold, Homes, Other, HomesInv, FileInv
        <4> QED
          BY <3>2, <4>3 DEF HomesRead, Emptied, Homes, Other
      <3> QED
        BY <1>1, <1>5, <3>1, <3>2
    <2>3. Whole("inroot")' /\ NoState' = NoState
      BY <1>2, <2>1, <2>2, HomeKept DEF Whole, NoState, Homes
    <2>4. HomesRead'
      BY <1>2, <2>1, <2>2, <2>3 DEF HomesRead, Unstamped, Homes
    <2>5. RunsRead'
      BY <1>3 DEF RunsRead
    <2> QED
      BY <2>4, <2>5
  <1> QED
    BY <1>4, <1>5

LEMMA CreatingKeepsRead ==
  ASSUME HomesInv, IdentTells, HomesRead, RunsRead, CreatesAgain
  PROVE  HomesRead' /\ RunsRead'
  <1>1. (ident = 0 => ~Unread' /\ Emptied) /\ (ident # 0 => Unread')
    BY CreatingKeepsIdent
  <1>2. /\ \A n \in Names : file'["inroot"][n] = Absent
        /\ file'["default"] = file["default"] /\ stamp'["default"] = stamp["default"]
        /\ allowed' = {NoState} /\ \A q \in Runs : pc'[q] = "none"
    BY DEF CreatesAgain, HomesInv, FileInv, Homes
  <1>3. NoState' = NoState
    BY DEF NoState
  <1>4. Whole("inroot")'
    <2>1. /\ StateOf("inroot")' = NoState /\ Named("inroot")' = {}
      BY <1>2 DEF StateOf, NoState, Named, Absent, Names, Documents
    <2> QED
      BY <1>2, <2>1 DEF Whole
  <1>5. ident = 0 => Whole("default")'
    <2>1. SUFFICES ASSUME ident = 0 PROVE Whole("default")'
      OBVIOUS
    <2>2. \A n \in Names : file["default"][n] = Absent
      BY <1>1, <2>1 DEF Emptied, Held
    <2>3. StateOf("default") = NoState /\ Held("default") = {} /\ Named("default") = {}
      BY <2>2, EmptyReads DEF Homes
    <2> QED
      BY <1>2, <2>3, HomeKept DEF Whole, Homes
  <1>6. HomesRead'
    BY <1>1, <1>2, <1>3, <1>4, <1>5 DEF HomesRead, Unstamped, Homes
  <1>7. RunsRead'
    BY <1>2 DEF RunsRead, ChangeSteps
  <1> QED
    BY <1>6, <1>7

LEMMA ComparingKeepsRead ==
  ASSUME HomesInv, IdentTells, HomesRead, RunsRead, NEW r \in Runs, ComparesStamps(r)
  PROVE  HomesRead' /\ RunsRead'
  <1> DEFINE h == home[r]
             o == Other(h)
  <1>1. /\ pc[r] = "locked" /\ UNCHANGED <<file, stamp, allowed, home>>
        /\ pc'[r] = (IF ReadHome(h, stale[r]) = h THEN "work" ELSE "adopting")
        /\ \A q \in Runs : q # r => pc'[q] = pc[q]
    BY DEF ComparesStamps, Goto, HomesInv, LockInv, disk
  <1>2. Unread' <=> Unread
    BY AdoptionHolds, OwnHomeChanged, HoldingKeepsIdent DEF HomesInv
  <1>3. /\ h \in Homes /\ (h = "inroot" \/ ~Unread) /\ (stale[r] <=> Unread) /\ stale[r] \in BOOLEAN
    BY <1>1, OwnHomeRead DEF LockedSteps
  <1>4. o \in Homes /\ Other(o) = h /\ o # h
    BY <1>3, TwoHomes DEF HomesFact
  <1>5. Later(o) <=> StampedLater(o, stale[r])
    BY <1>3, <1>4, LaterIsTold DEF LaterTold, HomesInv
  <1>6. /\ ReadHome(h, stale[r]) = h => ~Later(o) /\ Whole(h)
        /\ ReadHome(h, stale[r]) # h => Later(o)
    BY <1>3, <1>4, <1>5 DEF ReadHome, HomesRead
  <1>7. \A g \in Homes : /\ (Later(g)' <=> Later(g)) /\ (Unstamped' <=> Unstamped)
                         /\ NoState' = NoState /\ (Whole(g)' <=> Whole(g))
    BY <1>1, <1>2, SameReads
  <1>8. \A g \in Homes : Adopts(g) => Adopts(g)'
    BY <1>1 DEF Adopts
  <1>9. HomesRead'
    BY <1>1, <1>2, <1>7, <1>8, TwoHomes DEF HomesRead, HomesFact, Homes
  <1>10. \A q \in Runs : q # r => pc'[q] \notin {"adopting"} \cup ChangeSteps
    BY <1>1, OneLocked DEF LockedSteps, ChangeSteps
  <1>11. RunsRead'
    <2>1. pc'[r] \in ChangeSteps => Whole(h)'
      BY <1>1, <1>3, <1>6, <1>7 DEF ChangeSteps
    <2>2. pc'[r] = "adopting" => Later(o)'
      BY <1>1, <1>4, <1>6, <1>7
    <2>3. home'[r] = h /\ Later(Other(home[r]))' = Later(o)'
      BY <1>1
    <2> QED
      BY <1>1, <1>10, <2>1, <2>2, <2>3 DEF RunsRead
  <1> QED
    BY <1>9, <1>11

-----------------------------------------------------------------------------
(* Adoption. *)

\* What is adopted may be read, and a home behind it is left so.
LEMMA AdoptingFacts ==
  ASSUME HomesInv, IdentTells, HomesRead, RunsRead, NEW r \in Runs, pc[r] = "adopting"
  PROVE  /\ ~Unread /\ home[r] \in Homes /\ Other(home[r]) \in Homes /\ Other(home[r]) # home[r]
         /\ Other(Other(home[r])) = home[r]
         /\ Whole(Other(home[r])) /\ ~Later(home[r])
         /\ \A q \in Runs : q # r => pc[q] \notin LockedSteps
  <1> DEFINE h == home[r]
             o == Other(h)
  <1>1. /\ h \in Homes /\ (h = "inroot" \/ ~Unread) /\ (stale[r] <=> Unread)
    BY OwnHomeRead DEF LockedSteps
  <1>2. o \in Homes /\ Other(o) = h /\ o # h
    BY <1>1, TwoHomes DEF HomesFact
  <1>3. Later(o) \/ (Unstamped /\ file["default"] = file["inroot"])
    BY DEF RunsRead
  <1>4. ~Unread
    <2>1. o = "inroot" => h = "default"
      BY <1>1, <1>2 DEF Homes, Other
    <2> QED
      BY <1>1, <1>3, <2>1 DEF Later, Unstamped
  <1>5. ~Later(h)
    <2>1. CASE Later(o)
      BY <1>1, <2>1, LaterIsTold DEF LaterTold, HomesInv
    <2>2. CASE Unstamped /\ file["default"] = file["inroot"]
      <3>1. Newest("default") = Newest("inroot") /\ NewestTold
        BY <2>2, SameFilesSameRead, NewestIsTold DEF Homes, HomesInv
      <3> QED
        BY <1>1, <1>2, <2>2, <3>1 DEF Later, Unstamped, Homes, NewestTold
    <2> QED
      BY <1>3, <2>1, <2>2
  <1>6. Whole(o)
    BY <1>2, <1>4, <1>5 DEF HomesRead
  <1> QED
    BY <1>1, <1>2, <1>4, <1>5, <1>6, OneLocked DEF LockedSteps

\* A step of an adoption that leaves the adopted home later, or adopted.
LEMMA AdoptingKeepsRead ==
  ASSUME HomesInv, IdentTells, HomesRead, RunsRead, NEW r \in Runs, pc[r] = "adopting",
         UNCHANGED <<stamp, pc, home, allowed>>, Unread' <=> Unread,
         file'[Other(home[r])] = file[Other(home[r])],
         Later(Other(home[r]))' \/ (Unstamped' /\ file'["default"] = file'["inroot"])
  PROVE  HomesRead' /\ RunsRead'
  <1> DEFINE h == home[r]
             o == Other(h)
  <1>1. /\ ~Unread /\ h \in Homes /\ o \in Homes /\ o # h /\ Other(o) = h /\ Whole(o)
        /\ \A q \in Runs : q # r => pc[q] \notin LockedSteps
    BY AdoptingFacts
  <1>2. Whole(o)' /\ NoState' = NoState
    BY <1>1, HomeKept DEF Whole, NoState
  <1>3. Unstamped' /\ file'["default"] = file'["inroot"] => Whole(h)'
    <2>1. SUFFICES ASSUME Unstamped', file'["default"] = file'["inroot"] PROVE Whole(h)'
      OBVIOUS
    <2>2. file'[h] = file'[o]
      BY <1>1, <2>1 DEF Homes
    <2>3. StateOf(h)' = StateOf(o)' /\ Held(h)' = Held(o)' /\ Named(h)' = Named(o)'
      BY <2>2 DEF StateOf, Held, Named
    <2> QED
      BY <1>2, <2>3 DEF Whole
  <1>4. \A g \in Homes : g = h \/ g = o
    BY <1>1, TwoHomes
  <1>5. Adopts(h)'
    BY DEF Adopts
  <1>6. HomesRead'
    <2>1. \A g \in Homes : (g = "inroot" \/ ~Unread') /\ ~Later(Other(g))' => Whole(g)'
      BY <1>2, <1>3, <1>4
    <2>2. Unstamped' => \A g \in Homes : Adopts(g)' \/ Whole(g)'
      BY <1>2, <1>4, <1>5
    <2>3. (Unread' \/ stamp'["default"] = 0) /\ stamp'["inroot"] = 0 => NoState' \in allowed'
      BY <1>2 DEF HomesRead
    <2> QED
      BY <2>1, <2>2, <2>3 DEF HomesRead
  <1>7. RunsRead'
    BY <1>1 DEF RunsRead, LockedSteps, ChangeSteps
  <1> QED
    BY <1>6, <1>7

LEMMA AdoptRemovesKeepsRead ==
  ASSUME HomesInv, FileInv', IdentTells, HomesRead, RunsRead, NEW r \in Runs, AdoptRemoves(r)
  PROVE  HomesRead' /\ RunsRead'
  <1> DEFINE h == home[r]
             o == Other(h)
  <1>1. /\ ~Unread /\ h \in Homes /\ o \in Homes /\ o # h /\ Other(o) = h
    BY AdoptingFacts DEF AdoptRemoves
  <1>2. /\ pc[r] = "adopting" /\ UNCHANGED <<stamp, pc, home, allowed>> /\ (Unread' <=> Unread)
        /\ file'[o] = file[o]
    <2>1. Unread' <=> Unread
      BY AdoptionHolds, OwnHomeChanged, HoldingKeepsIdent DEF HomesInv
    <2> QED
      BY <1>1, <2>1, OwnHomeChanged DEF AdoptRemoves, HomesInv
  <1>3. PICK n \in Superfluous(r) : file' = [file EXCEPT ![h] = [m \in Names |-> IF m \in {n} THEN Absent ELSE @[m]]]
    BY DEF AdoptRemoves, Removes
  <1>4. \A m \in Names : file'[h][m] = Absent \/ file'[h][m] = file[h][m]
    BY <1>1, <1>3 DEF HomesInv, FileInv
  <1>5. NewestTold /\ NewestTold'
    <2>1. FileInv => NewestTold
      BY NewestIsTold
    <2>2. FileInv' => NewestTold'
      BY NewestNext
    <2> QED
      BY <2>1, <2>2 DEF HomesInv
  <1>6. Later(o)
    <2>1. file[h] # file[o]
      <3>1. file[h][n] # file[o][n]
        BY DEF Superfluous, Held
      <3> QED
        BY <3>1
    <2>2. file["default"] # file["inroot"]
      BY <1>1, <2>1 DEF Homes
    <2> QED
      BY <1>2, <2>2 DEF RunsRead
  <1>7. Newest(o)' = Newest(o)
    BY <1>1, <1>2, HomeKept
  <1>8. Newest(h)' <= Newest(h)
    <2>1. Newest(h)' = 0 \/ \E m \in Names : file'[h][m].time = Newest(h)'
      BY <1>1, <1>2, <1>5 DEF NewestTold
    <2>2. \A m \in Names : file'[h][m].time = 0 \/ file'[h][m].time <= Newest(h)
      BY <1>1, <1>4, <1>5 DEF NewestTold, Absent
    <2> QED
      BY <1>1, <1>5, <2>1, <2>2 DEF NewestTold
  <1>9. Later(o)'
    BY <1>1, <1>2, <1>5, <1>6, <1>7, <1>8 DEF Later, NewestTold
  <1> QED
    BY <1>2, <1>9, AdoptingKeepsRead

LEMMA AdoptCopiesKeepsRead ==
  ASSUME HomesInv, FileInv', TimesTell, IdentTells, HomesRead, RunsRead, NEW r \in Runs, AdoptCopies(r)
  PROVE  HomesRead' /\ RunsRead'
  <1>1. PICK h \in Homes : h = home[r]
    BY DEF HomesInv, FileInv
  <1>2. PICK o \in Homes : o = Other(h)
    BY TwoHomes DEF HomesFact
  <1>3. /\ ~Unread /\ o # h /\ Other(o) = h /\ Other(h) = o
    BY <1>1, <1>2, AdoptingFacts DEF AdoptCopies
  <1>4. /\ pc[r] = "adopting" /\ UNCHANGED <<stamp, pc, home, allowed>> /\ (Unread' <=> Unread)
        /\ file'[o] = file[o]
    <2>1. Unread' <=> Unread
      BY AdoptionHolds, OwnHomeChanged, HoldingKeepsIdent DEF HomesInv
    <2> QED
      BY <1>1, <1>3, <2>1, OwnHomeChanged DEF AdoptCopies, HomesInv
  <1>5. PICK n \in Uncopied(r) :
          /\ \A m \in Uncopied(r) : file[o][n].time <= file[o][m].time
          /\ file' = [file EXCEPT ![h][n] = file[o][n]]
    BY <1>1, <1>2 DEF AdoptCopies
  <1>6. /\ n \in Names /\ file[o][n] # Absent /\ file[h][n] # file[o][n]
        /\ \A m \in Names : file'[h][m] = IF m = n THEN file[o][n] ELSE file[h][m]
        /\ \A m \in Names : file[o][m] # Absent /\ file[h][m] # file[o][m] => m \in Uncopied(r)
        /\ \A m \in Names : file[o][m] = Absent => file[h][m] = Absent
    <2>1. n \in Names /\ file[o][n] # Absent /\ file[h][n] # file[o][n]
      BY <1>1, <1>2, <1>5 DEF Uncopied, Held
    <2>2. \A m \in Names : file[o][m] = Absent => file[h][m] = Absent
      BY <1>1, <1>2 DEF AdoptCopies, Superfluous, Held
    <2> QED
      BY <1>1, <1>2, <1>5, <2>1, <2>2 DEF HomesInv, FileInv, Uncopied, Held
  <1>7. NewestTold /\ NewestTold'
    BY NewestIsTold, NewestNext DEF HomesInv
  <1>8. Later(o)
    <2>1. file["default"] # file["inroot"]
      BY <1>3, <1>6 DEF Homes
    <2> QED
      BY <1>1, <1>2, <1>4, <2>1 DEF RunsRead
  <1>9. Newest(o)' = Newest(o)
    BY <1>4, HomeKept
  <1>10. CASE \E m \in Uncopied(r) : m # n
    <2>1. PICK m \in Uncopied(r) : m # n
      BY <1>10
    <2>2. m \in Names /\ file[o][n].time <= file[o][m].time /\ file[o][m] # Absent
      BY <1>1, <1>2, <1>5, <2>1 DEF Uncopied, Held
    <2>3. file[o][n].time # file[o][m].time
      BY <1>6, <2>1, <2>2 DEF TimesTell
    <2>4. \A k \in Names : file[o][k].time \in Nat /\ file[h][k].time \in Nat
      BY DEF HomesInv, FileInv, File
    <2>5. file[o][n].time < Newest(o)
      BY <1>6, <1>7, <2>2, <2>3, <2>4 DEF NewestTold
    <2>6. CASE stamp[o] = 0 /\ stamp[h] = 0
      <3>1. Newest(h) < Newest(o)
        BY <1>3, <1>7, <1>8, <2>6 DEF Later, NewestTold
      <3>2. \A k \in Names : file'[h][k].time < Newest(o)
        BY <1>6, <1>7, <2>4, <2>5, <3>1 DEF NewestTold
      <3>3. Newest(h)' = 0 \/ \E k \in Names : file'[h][k].time = Newest(h)'
        BY <1>7 DEF NewestTold
      <3>4. Newest(h)' < Newest(o) /\ Newest(h)' \in Nat /\ Newest(o) \in Nat
        BY <1>7, <3>1, <3>2, <3>3 DEF NewestTold
      <3> QED
        BY <1>3, <1>4, <1>9, <2>6, <3>4, <1>1, <1>2, AdoptingKeepsRead DEF Later
    <2>7. CASE ~(stamp[o] = 0 /\ stamp[h] = 0)
      BY <1>1, <1>2, <1>3, <1>4, <1>8, <2>7, AdoptingKeepsRead DEF Later
    <2> QED
      BY <2>6, <2>7
  <1>11. CASE \A m \in Uncopied(r) : m = n
    <2>1. \A m \in Names : file'[h][m] = file[o][m]
      BY <1>6, <1>11
    <2>2. file'[h] = file'[o]
      BY <1>4, <2>1 DEF HomesInv, FileInv
    <2>3. CASE stamp[o] = 0 /\ stamp[h] = 0
      <3>1. Unstamped' /\ file'["default"] = file'["inroot"]
        BY <1>3, <1>4, <2>2, <2>3 DEF Unstamped, Homes
      <3> QED
        BY <1>1, <1>2, <1>4, <3>1, AdoptingKeepsRead
    <2>4. CASE ~(stamp[o] = 0 /\ stamp[h] = 0)
      BY <1>1, <1>2, <1>3, <1>4, <1>8, <2>4, AdoptingKeepsRead DEF Later
    <2> QED
      BY <2>3, <2>4
  <1> QED
    BY <1>10, <1>11

\* An adopted home is as the one it was adopted from, and as late.
LEMMA AdoptedIsSame ==
  ASSUME HomesInv, NEW r \in Runs, Superfluous(r) \cup Uncopied(r) = {}
  PROVE  file[home[r]] = file[Other(home[r])]
  <1>1. home[r] \in Homes /\ Other(home[r]) \in Homes
    BY DEF HomesInv, FileInv, Homes, Other
  <1>2. \A n \in Names : file[home[r]][n] = file[Other(home[r])][n]
    BY DEF Superfluous, Uncopied, Held
  <1> QED
    BY <1>1, <1>2 DEF HomesInv, FileInv

LEMMA AdoptStampsKeepsRead ==
  ASSUME HomesInv, IdentTells, HomesRead, RunsRead, NEW r \in Runs, AdoptStamps(r)
  PROVE  HomesRead' /\ RunsRead'
  <1>1. PICK h \in Homes : h = home[r]
    BY DEF HomesInv, FileInv
  <1>2. PICK o \in Homes : o = Other(h)
    BY TwoHomes DEF HomesFact
  <1>3. /\ ~Unread /\ o # h /\ Other(o) = h /\ Other(h) = o /\ Whole(o)
        /\ \A q \in Runs : q # r => pc[q] \notin LockedSteps
    BY <1>1, <1>2, AdoptingFacts DEF AdoptStamps
  <1>4. /\ pc'[r] = "work" /\ UNCHANGED <<file, home, allowed>> /\ (Unread' <=> Unread)
        /\ \A q \in Runs : q # r => pc'[q] = pc[q]
        /\ stamp' = IF stamp[o] = 0 THEN stamp ELSE [stamp EXCEPT ![h] = stamp[o]]
    <2>1. Unread' <=> Unread
      BY AdoptionHolds, OwnHomeChanged, HoldingKeepsIdent DEF HomesInv
    <2> QED
      BY <1>1, <1>2, <2>1 DEF AdoptStamps, Goto, HomesInv, LockInv
  <1>5. Whole(h) /\ Whole(o)
    <2>1. file[h] = file[o]
      BY <1>1, <1>2, AdoptedIsSame DEF AdoptStamps
    <2> QED
      BY <1>3, <2>1, SameFilesSameRead
  <1>6. Whole(h)' /\ Whole(o)' /\ NoState' = NoState
    BY <1>4, <1>5, HomeKept DEF Whole, NoState
  <1>7. \A g \in Homes : Whole(g)'
    BY <1>2, <1>6, TwoHomes
  <1>8. stamp'["default"] = 0 /\ stamp'["inroot"] = 0 => NoState \in allowed
    <2>1. stamp[o] # 0 => stamp'[h] # 0
      BY <1>4 DEF HomesInv, FileInv
    <2> QED
      BY <1>1, <1>2, <1>3, <1>4, <2>1 DEF HomesRead, Homes
  <1>9. HomesRead'
    BY <1>3, <1>4, <1>6, <1>7, <1>8 DEF HomesRead
  <1>10. RunsRead'
    <2>1. ASSUME NEW q \in Runs, pc'[q] \in {"adopting"} \cup ChangeSteps
          PROVE  q = r
      BY <1>3, <1>4, <2>1 DEF LockedSteps, ChangeSteps
    <2>2. Whole(home[r])' /\ pc'[r] # "adopting"
      BY <1>1, <1>4, <1>6
    <2> QED
      BY <2>1, <2>2 DEF RunsRead
  <1> QED
    BY <1>9, <1>10

-----------------------------------------------------------------------------
(* Changes. *)

\* A change of the home of r that leaves it whole, its stamp as it stands.
LEMMA ChangingKeepsRead ==
  ASSUME HomesInv, IdentTells, HomesRead, RunsRead, NEW r \in Runs,
         Changing(r), Holding(r), pc[r] \in ChangeSteps, pc'[r] \in ChangeSteps, UNCHANGED stamp,
         allowed \subseteq allowed', Whole(home[r])'
  PROVE  HomesRead' /\ RunsRead'
  <1>1. PICK h \in Homes : h = home[r]
    BY DEF HomesInv, FileInv
  <1>2. PICK o \in Homes : o = Other(h)
    BY TwoHomes DEF HomesFact
  <1>3. o # h /\ Other(o) = h /\ Other(h) = o /\ \A g \in Homes : g = h \/ g = o
    BY <1>2, TwoHomes DEF HomesFact
  <1>4. /\ (Unread' <=> Unread) /\ file'[o] = file[o] /\ home' = home
        /\ \A q \in Runs : q # r => pc'[q] = pc[q] /\ pc[q] \notin LockedSteps
    <2>1. Unread' <=> Unread
      BY OwnHomeChanged, HoldingKeepsIdent DEF HomesInv
    <2>2. \A q \in Runs : q # r => pc'[q] = pc[q] /\ pc[q] \notin LockedSteps
      BY OneLocked DEF Holding, HomesInv, LockInv
    <2> QED
      BY <1>1, <1>3, <2>1, <2>2, OwnHomeChanged DEF Holding, HomesInv
  <1>5. (h = "inroot" \/ ~Unread) /\ Whole(h)'
    BY <1>1, <1>4, OwnHomeRead DEF LockedSteps, ChangeSteps
  <1>6. /\ Newest(o)' = Newest(o) /\ StateOf(o)' = StateOf(o)
        /\ Held(o)' = Held(o) /\ Named(o)' = Named(o)
    BY <1>4, HomeKept
  <1>7. NoState' = NoState /\ (Unstamped' <=> Unstamped) /\ (Whole(o) => Whole(o)')
    BY <1>4, <1>6 DEF NoState, Unstamped, Whole
  <1>8. ~Adopts(o)
    BY <1>4 DEF Adopts, LockedSteps, ChangeSteps
  <1>9. (o = "inroot" \/ ~Unread) /\ ~Later(h)' => Whole(o)'
    <2>1. SUFFICES ASSUME o = "inroot" \/ ~Unread, ~Later(h)' PROVE Whole(o)
      BY <1>7
    <2>2. ~Unread
      BY <1>3, <1>5, <2>1
    <2>3. CASE Unstamped
      BY <1>8, <2>3 DEF HomesRead
    <2>4. CASE ~Unstamped
      <3>1. stamp[h] # 0 \/ stamp[o] # 0
        BY <1>3, <2>2, <2>4 DEF Unstamped, Homes
      <3>2. ~Later(h)
        BY <1>3, <1>4, <2>1, <2>2, <3>1 DEF Later
      <3> QED
        BY <1>3, <2>1, <3>2 DEF HomesRead
    <2> QED
      BY <2>3, <2>4
  <1>10. HomesRead'
    <2>1. \A g \in Homes : (g = "inroot" \/ ~Unread') /\ ~Later(Other(g))' => Whole(g)'
      BY <1>3, <1>4, <1>5, <1>9
    <2>2. Unstamped' => \A g \in Homes : Whole(g)'
      BY <1>3, <1>5, <1>7, <1>8 DEF HomesRead
    <2> QED
      BY <1>4, <1>7, <2>1, <2>2 DEF HomesRead
  <1>11. RunsRead'
    BY <1>1, <1>4, <1>5 DEF RunsRead, LockedSteps, ChangeSteps
  <1> QED
    BY <1>10, <1>11

LEMMA StampingKeepsRead ==
  ASSUME HomesInv, TimesTell, IdentTells, HomesRead, RunsRead, NEW r \in Runs, Stamps(r)
  PROVE  HomesRead' /\ RunsRead'
  <1>1. PICK h \in Homes : h = home[r]
    BY DEF HomesInv, FileInv
  <1>2. PICK o \in Homes : o = Other(h)
    BY TwoHomes DEF HomesFact
  <1>3. o # h /\ Other(o) = h /\ Other(h) = o /\ \A g \in Homes : g = h \/ g = o
    BY <1>2, TwoHomes DEF HomesFact
  <1>4. /\ pc[r] = "stamp" /\ pc'[r] = "work" /\ UNCHANGED <<file, home>> /\ allowed' = {StateOf(h)}
        /\ stamp' = [stamp EXCEPT ![h] = clock] /\ (Unread' <=> Unread)
        /\ \A q \in Runs : q # r => pc'[q] = pc[q] /\ pc[q] \notin LockedSteps
    <2>1. Changing(r) /\ Holding(r)
      BY DEF Changing, Stamps, Holding, Goto, LockedSteps, locks
    <2>2. Unread' <=> Unread
      BY <2>1, OwnHomeChanged, HoldingKeepsIdent DEF HomesInv
    <2>3. \A q \in Runs : q # r => pc'[q] = pc[q] /\ pc[q] \notin LockedSteps
      BY <2>1, OneLocked DEF Holding, HomesInv, LockInv
    <2> QED
      BY <1>1, <2>2, <2>3 DEF Stamps, Goto, HomesInv, LockInv
  <1>5. (h = "inroot" \/ ~Unread) /\ Whole(h)
    BY <1>1, <1>4, OwnHomeRead DEF LockedSteps, ChangeSteps, RunsRead
  <1>6. Whole(h)'
    BY <1>4, <1>5, HomeKept DEF Whole
  <1>7. stamp'[h] # 0 /\ stamp'[h] > stamp'[o] /\ stamp'[o] = stamp[o]
    <2>1. clock \in Nat /\ clock > 0 /\ stamp[o] \in Nat /\ stamp[o] < clock
      BY DEF HomesInv, FileInv, TimesTell
    <2> QED
      BY <1>3, <1>4, <2>1 DEF HomesInv, FileInv
  <1>8. ~Unread => Later(h)'
    BY <1>3, <1>4, <1>7 DEF Later
  <1>9. HomesRead'
    <2>1. \A g \in Homes : (g = "inroot" \/ ~Unread') /\ ~Later(Other(g))' => Whole(g)'
      BY <1>3, <1>4, <1>5, <1>6, <1>8
    <2>2. ~Unstamped'
      BY <1>7 DEF Unstamped, Homes
    <2>3. ~((Unread' \/ stamp'["default"] = 0) /\ stamp'["inroot"] = 0)
      BY <1>4, <1>5, <1>7 DEF Homes
    <2> QED
      BY <2>1, <2>2, <2>3 DEF HomesRead
  <1>10. RunsRead'
    BY <1>1, <1>4, <1>6 DEF RunsRead, LockedSteps, ChangeSteps
  <1> QED
    BY <1>9, <1>10

LEMMA EndingKeepsRead ==
  ASSUME HomesInv, IdentTells, HomesRead, RunsRead, NEW r \in Runs, EndRun(r),
         UNCHANGED <<file, stamp, folder, ident, allowed>>, ~HalfDiscarded(r), ~HalfAdopted(r)
  PROVE  HomesRead' /\ RunsRead'
  <1>1. /\ pc'[r] = "none" /\ \A q \in Runs : q # r => pc'[q] = pc[q] /\ home'[q] = home[q]
    BY DEF EndRun, Goto, Forget, HomesInv, LockInv
  <1>2. Stale' <=> Stale
    BY DEF Stale
  <1>3. CASE pc[r] = "discarding" /\ ident = 0
    <2>1. left[r] = {} /\ Emptied
      BY <1>3 DEF HalfDiscarded, IdentTells, Emptied
    <2>2. \A q \in Runs : q # r => pc[q] = "none"
      BY <1>3 DEF HomesInv, OneHome
    <2>3. Unread /\ ~Unread'
      BY <1>1, <1>3, <2>2 DEF Unread, Stale
    <2> QED
      BY <1>1, <2>1, <2>2, <2>3, EmptiedRead DEF ChangeSteps
  <1>4. CASE ~(pc[r] = "discarding" /\ ident = 0)
    <2>1. Unread' <=> Unread
      <3>1. CASE pc[r] = "discarding"
        BY <1>2, <1>4, <3>1 DEF Unread, Stale, IdentTells
      <3>2. CASE pc[r] # "discarding"
        <4>1. \A q \in Runs : pc'[q] = "discarding" <=> pc[q] = "discarding"
          BY <1>1, <3>2
        <4> QED
          BY <1>2, <4>1 DEF Unread
      <3> QED
        BY <3>1, <3>2
    <2>2. \A g \in Homes : /\ (Later(g)' <=> Later(g)) /\ (Unstamped' <=> Unstamped)
                           /\ NoState' = NoState /\ (Whole(g)' <=> Whole(g))
      BY <2>1, SameReads
    <2>3. ASSUME NEW g \in Homes, Unstamped
          PROVE  Adopts(g)' \/ Whole(g)
      <3>1. CASE ~Adopts(g)
        BY <2>3, <3>1 DEF HomesRead
      <3>2. CASE Adopts(g)
        <4>1. PICK q \in Runs : pc[q] = "adopting" /\ home[q] = g
          BY <3>2 DEF Adopts
        <4>2. CASE q # r
          BY <1>1, <4>1, <4>2 DEF Adopts
        <4>3. CASE q = r
          <5>1. Other(g) \in Homes /\ Whole(Other(g))
            BY <4>1, <4>3, AdoptingFacts
          <5>2. stamp[Other(home[r])] = 0
            BY <2>3, <4>1, <4>3, <5>1 DEF Unstamped, Homes
          <5>3. file[g] = file[Other(g)]
            BY <4>1, <4>3, <5>2, AdoptedIsSame DEF HalfAdopted
          <5> QED
            BY <5>1, <5>3, SameFilesSameRead
        <4> QED
          BY <4>2, <4>3
      <3> QED
        BY <3>1, <3>2
    <2>4. HomesRead'
      BY <2>1, <2>2, <2>3, TwoHomes DEF HomesRead, HomesFact, Homes
    <2>5. RunsRead'
      BY <1>1, <2>2, TwoHomes DEF RunsRead, HomesFact, HomesInv, LockInv, ChangeSteps
    <2> QED
      BY <2>4, <2>5
  <1> QED
    BY <1>3, <1>4

-----------------------------------------------------------------------------
(* A change leaves its home whole. *)

\* Documents name contents, which are neither documents nor the reverse.
LEMMA NamesContents ==
  ASSUME HomesAssumption, FileInv, NEW h \in Homes
  PROVE  /\ Named(h) \subseteq Contents /\ Contents \cap Documents = {}
         /\ \A s \in Snapshots : file[h][s].names \subseteq Named(h)
  BY DEF HomesAssumption, FileInv, File, Named, Names, Documents

\* What a removal and a write leave of the home.
LEMMA RemovedHome ==
  ASSUME FileInv, NEW r \in Runs, NEW gone, Removes(r, gone), UNCHANGED home
  PROVE  /\ \A n \in Names : file'[home[r]][n] = IF n \in gone THEN Absent ELSE file[home[r]][n]
         /\ Held(home[r])' = Held(home[r]) \ gone /\ Named(home[r])' \subseteq Named(home[r])
         /\ StateOf(home[r])' = StateAfter(r)
         /\ gone \cap Documents = {} => StateAfter(r) = StateOf(home[r])
  <1>1. \A n \in Names : file'[home[r]][n] = IF n \in gone THEN Absent ELSE file[home[r]][n]
    BY DEF FileInv, Removes
  <1>2. Held(home[r])' = Held(home[r]) \ gone
    BY <1>1 DEF Held
  <1>3. Named(home[r])' \subseteq Named(home[r])
    BY <1>1 DEF Named, Absent, Names, Documents
  <1>4. StateOf(home[r])' = StateAfter(r)
    BY DEF StateOf, StateAfter
  <1>5. gone \cap Documents = {} => StateAfter(r) = StateOf(home[r])
    BY <1>1 DEF StateOf, StateAfter, Names
  <1> QED
    BY <1>1, <1>2, <1>3, <1>4, <1>5

LEMMA WrittenHome ==
  ASSUME FileInv, NEW r \in Runs, NEW n \in Names, NEW names \in SUBSET Contents,
         Writes(r, n, names), UNCHANGED home
  PROVE  /\ \A m \in Names : m # n => file'[home[r]][m] = file[home[r]][m]
         /\ Held(home[r])' = Held(home[r]) \cup {n} /\ Named(home[r])' \subseteq Named(home[r]) \cup names
         /\ StateOf(home[r])' = StateAfter(r)
         /\ n \notin Documents => StateAfter(r) = StateOf(home[r])
         /\ n \notin Snapshots => Named(home[r])' \subseteq Named(home[r])
  <1>1. /\ file'[home[r]][n] = [time |-> clock, names |-> names]
        /\ \A m \in Names : m # n => file'[home[r]][m] = file[home[r]][m]
    BY DEF FileInv, Writes
  <1>2. file'[home[r]][n] # Absent
    BY <1>1 DEF Absent, FileInv
  <1>3. Held(home[r])' = Held(home[r]) \cup {n}
    BY <1>1, <1>2 DEF Held
  <1>4. /\ Named(home[r])' \subseteq Named(home[r]) \cup names
        /\ n \notin Snapshots => Named(home[r])' \subseteq Named(home[r])
    BY <1>1 DEF Named, Names, Documents
  <1>5. StateOf(home[r])' = StateAfter(r)
    BY DEF StateOf, StateAfter
  <1>6. n \notin Documents => StateAfter(r) = StateOf(home[r])
    BY <1>1 DEF StateOf, StateAfter, Names
  <1> QED
    BY <1>1, <1>3, <1>4, <1>5, <1>6

LEMMA RemovedWhole ==
  ASSUME FileInv, NEW r \in Runs, NEW gone, Removes(r, gone), UNCHANGED home,
         Whole(home[r]), gone \cap Named(home[r]) = {}, allowed \subseteq allowed',
         gone \cap Documents = {} \/ StateAfter(r) \in allowed'
  PROVE  Whole(home[r])'
  BY RemovedHome DEF Whole

LEMMA WrittenWhole ==
  ASSUME FileInv, NEW r \in Runs, NEW n \in Names, NEW names \in SUBSET Contents,
         Writes(r, n, names), UNCHANGED home, Whole(home[r]), names \subseteq Held(home[r]),
         allowed \subseteq allowed', n \notin Documents \/ StateAfter(r) \in allowed'
  PROVE  Whole(home[r])'
  BY WrittenHome DEF Whole

LEMMA DocKeepsRead ==
  ASSUME HomesAssumption, HomesInv, IdentTells, HomesRead, RunsRead, NEW r \in Runs, NEW d \in Docs,
         WritesDoc(r, d) \/ RemovesDoc(r, d)
  PROVE  HomesRead' /\ RunsRead'
  <1>1. home[r] \in Homes /\ d \in Names /\ d \in Documents
    BY DEF HomesInv, FileInv, Names, Documents
  <1>2. /\ pc[r] \in ChangeSteps /\ pc'[r] \in ChangeSteps /\ Holding(r) /\ Changing(r)
        /\ UNCHANGED <<stamp, home>> /\ allowed \subseteq allowed' /\ StateAfter(r) \in allowed'
    BY DEF WritesDoc, RemovesDoc, Begin, Goto, Holding, LockedSteps, ChangeSteps, locks, Changing,
       HomesInv, LockInv
  <1>3. Whole(home[r]) /\ {d} \cap Named(home[r]) = {}
    BY <1>1, <1>2, NamesContents DEF RunsRead, HomesInv
  <1>4. Whole(home[r])'
    BY <1>1, <1>2, <1>3, WrittenWhole, RemovedWhole DEF WritesDoc, RemovesDoc, HomesInv
  <1> QED
    BY <1>2, <1>4, ChangingKeepsRead

LEMMA ContentKeepsRead ==
  ASSUME HomesAssumption, HomesInv, IdentTells, HomesRead, RunsRead, NEW r \in Runs, NEW c \in Contents,
         StoresContent(r, c)
  PROVE  HomesRead' /\ RunsRead'
  <1>1. home[r] \in Homes /\ c \in Names /\ c \notin Documents
    BY DEF HomesAssumption, HomesInv, FileInv, Names, Documents
  <1>2. /\ pc[r] \in ChangeSteps /\ pc'[r] \in ChangeSteps /\ Holding(r) /\ Changing(r)
        /\ UNCHANGED <<stamp, home, allowed>>
    BY DEF StoresContent, Begin, Goto, Holding, LockedSteps, ChangeSteps, locks, Changing,
       HomesInv, LockInv
  <1>3. Whole(home[r])
    BY <1>2 DEF RunsRead
  <1>4. Whole(home[r])'
    BY <1>1, <1>2, <1>3, WrittenWhole DEF StoresContent, HomesInv
  <1> QED
    BY <1>2, <1>4, ChangingKeepsRead

LEMMA SnapshotKeepsRead ==
  ASSUME HomesAssumption, HomesInv, IdentTells, HomesRead, RunsRead, MemoryTells,
         NEW r \in Runs, NEW s \in Snapshots, SnapshotStep(r, s)
  PROVE  HomesRead' /\ RunsRead'
  <1>1. home[r] \in Homes /\ s \in Names /\ s \in Documents /\ stored[r] \subseteq Contents
    BY DEF HomesInv, FileInv, Names, Documents
  <1>2. /\ pc[r] \in ChangeSteps /\ pc'[r] \in ChangeSteps /\ Holding(r) /\ Changing(r)
        /\ UNCHANGED <<stamp, home>> /\ allowed \subseteq allowed' /\ StateAfter(r) \in allowed'
    BY DEF SnapshotStep, Holding, LockedSteps, ChangeSteps, locks, Changing
  <1>3. Whole(home[r]) /\ {s} \cap Named(home[r]) = {}
    BY <1>1, <1>2, NamesContents DEF RunsRead, HomesInv
  <1>4. stored[r] \subseteq Held(home[r])
    BY DEF MemoryTells, RunTells, SnapshotStep
  <1>5. file[home[r]][s].names \cup stored[r] \subseteq Held(home[r]) \cap Contents
    BY <1>1, <1>3, <1>4, NamesContents DEF Whole, HomesInv
  <1>6. CASE Removes(r, {s})
    <2>1. Whole(home[r])'
      BY <1>1, <1>2, <1>3, <1>6, RemovedWhole DEF HomesInv
    <2> QED
      BY <1>2, <2>1, ChangingKeepsRead
  <1>7. ASSUME NEW names \in SUBSET (file[home[r]][s].names \cup stored[r]), Writes(r, s, names)
        PROVE  HomesRead' /\ RunsRead'
    <2>1. names \in SUBSET Contents /\ names \subseteq Held(home[r])
      BY <1>5
    <2>2. Whole(home[r])'
      BY <1>1, <1>2, <1>3, <1>7, <2>1, WrittenWhole DEF HomesInv
    <2> QED
      BY <1>2, <2>2, ChangingKeepsRead
  <1> QED
    BY <1>6, <1>7 DEF SnapshotStep

LEMMA RemovalKeepsRead ==
  ASSUME HomesAssumption, HomesInv, IdentTells, HomesRead, RunsRead, MemoryTells,
         NEW r \in Runs, RemovesCreated(r) \/ Prunes(r)
  PROVE  HomesRead' /\ RunsRead'
  <1>1. home[r] \in Homes /\ created[r] \subseteq Contents
    BY DEF HomesInv, FileInv
  <1>2. /\ pc[r] \in ChangeSteps /\ pc'[r] \in ChangeSteps /\ Holding(r) /\ Changing(r)
        /\ UNCHANGED <<stamp, home, allowed>>
    BY DEF RemovesCreated, Prunes, Holding, LockedSteps, ChangeSteps, locks, Changing
  <1>3. Whole(home[r]) /\ Contents \cap Documents = {}
    BY <1>1, <1>2, NamesContents DEF RunsRead, HomesInv
  <1>4. CASE RemovesCreated(r)
    <2>1. created[r] \cap Named(home[r]) = {} /\ created[r] \cap Documents = {}
      BY <1>1, <1>3, <1>4 DEF RemovesCreated, MemoryTells, RunTells
    <2>2. Whole(home[r])'
      BY <1>2, <1>3, <1>4, <2>1, RemovedWhole DEF RemovesCreated, HomesInv
    <2> QED
      BY <1>2, <2>2, ChangingKeepsRead
  <1>5. CASE Prunes(r)
    <2>1. PICK c \in (Contents \cap Held(home[r])) \ Named(home[r]) : Removes(r, {c})
      BY <1>5 DEF Prunes
    <2>2. Whole(home[r])'
      BY <1>2, <1>3, <2>1, RemovedWhole DEF HomesInv
    <2> QED
      BY <1>2, <2>2, ChangingKeepsRead
  <1> QED
    BY <1>4, <1>5

LEMMA PausingKeepsRead ==
  ASSUME HomesInv, IdentTells, HomesRead, RunsRead, NEW r \in Runs,
         BeginsWrite(r) \/ BeginsRemoval(r) \/ Pruned(r)
  PROVE  HomesRead' /\ RunsRead'
  <1>1. /\ pc[r] \in ChangeSteps /\ pc'[r] \in ChangeSteps /\ Holding(r) /\ Changing(r)
        /\ UNCHANGED <<file, stamp, home, allowed>> /\ home[r] \in Homes
    BY DEF BeginsWrite, BeginsRemoval, Pruned, Begin, Goto, Holding, LockedSteps, ChangeSteps, disk, locks,
       Changing, HomesInv, LockInv
  <1>2. Whole(home[r])'
    BY <1>1, HomeKept DEF RunsRead, Whole
  <1> QED
    BY <1>1, <1>2, ChangingKeepsRead

LEMMA FailingKeepsRead ==
  ASSUME HomesInv, IdentTells, HomesRead, RunsRead, ~StampFails, NEW r \in Runs, SnapshotsFail(r)
  PROVE  HomesRead' /\ RunsRead' /\ UNCHANGED file
  <1>1. \A h \in Homes : file'[h] = file[h] /\ file' \in [Homes -> [Names -> File]]
    BY DEF SnapshotsFail, Removes, HomesInv, FileInv
  <1>2. UNCHANGED file
    BY <1>1 DEF HomesInv, FileInv
  <1> QED
    BY <1>2, EndingKeepsRead DEF SnapshotsFail, HalfDiscarded, HalfAdopted

-----------------------------------------------------------------------------
(* The contents a run stored and has yet to name. *)

\* A run with nothing stored and no write of snapshots under way.
LEMMA NothingStored ==
  ASSUME FileInv', NEW q \in Runs, stored'[q] = {}, op'[q] = "none", pc'[q] # "snapshots"
  PROVE  RunTells(q)'
  <1>1. created'[q] = {}
    BY DEF FileInv
  <1> QED
    BY <1>1 DEF RunTells

\* What a step of r leaves of another run's memory.
Elsewhere(r) ==
    \A q \in Runs : q # r =>
        /\ pc'[q] = pc[q] /\ home'[q] = home[q] /\ left'[q] = left[q]
        /\ stored'[q] = stored[q] /\ created'[q] = created[q] /\ op'[q] = op[q]

LEMMA MemoryKept ==
  ASSUME FileInv, FileInv', MemoryTells, NEW r \in Runs, Elsewhere(r), RunTells(r)',
         UNCHANGED file \/ \A q \in Runs : q # r => pc[q] \notin ChangeSteps
  PROVE  MemoryTells'
  <1>1. ASSUME NEW q \in Runs, q # r
        PROVE  RunTells(q)'
    <2>1. RunTells(q)
      BY DEF MemoryTells
    <2>2. CASE pc[q] \notin ChangeSteps
      BY <1>1, <2>1, <2>2, NothingStored DEF RunTells, Elsewhere, ChangeSteps
    <2>3. CASE UNCHANGED file
      <3>1. home[q] \in Homes /\ Named(home[q])' = Named(home[q]) /\ Held(home[q])' = Held(home[q])
        BY <1>1, <2>3 DEF FileInv, Elsewhere, Named, Held
      <3> QED
        BY <1>1, <2>1, <3>1 DEF RunTells, Elsewhere
    <2> QED
      BY <1>1, <2>2, <2>3
  <1> QED
    BY <1>1 DEF MemoryTells

\* A run that ends forgets what it stored.
LEMMA EndKeepsMemory ==
  ASSUME HomesInv, FileInv', MemoryTypes, MemoryTells, NEW r \in Runs, EndRun(r),
         UNCHANGED file \/ pc[r] \in LockedSteps
  PROVE  MemoryTells'
  <1>1. Elsewhere(r)
    BY DEF EndRun, Goto, Forget, Elsewhere, HomesInv, LockInv, FileInv, MemoryTypes
  <1>2. stored'[r] = {} /\ op'[r] = "none" /\ pc'[r] = "none"
    BY DEF EndRun, Goto, Forget, HomesInv, LockInv, FileInv, MemoryTypes
  <1>3. RunTells(r)'
    BY <1>2, NothingStored
  <1>4. UNCHANGED file \/ \A q \in Runs : q # r => pc[q] \notin ChangeSteps
    BY OneLocked DEF ChangeSteps, LockedSteps
  <1> QED
    BY <1>1, <1>3, <1>4, MemoryKept DEF HomesInv

\* Until it has its locks and its home it has stored nothing.
LEMMA LockingKeepsMemory ==
  ASSUME HomesInv, FileInv', MemoryTypes, IdentTells, MemoryTells, NEW r \in Runs, Opening(r) \/ Locking(r)
  PROVE  MemoryTells'
  <1>1. Elsewhere(r) /\ UNCHANGED <<stored, op>>
    <2>1. CASE Opening(r)
      BY <2>1 DEF Opening, OpensDefault, OpensInRoot, Goto, Elsewhere, HomesInv, LockInv, memory
    <2>2. CASE Settles(r)
      BY <2>2 DEF Settles, Goto, Elsewhere, HomesInv, LockInv, MemoryTypes
    <2>3. CASE Discards(r)
      BY <2>3 DEF Discards, Elsewhere, HomesInv, LockInv, MemoryTypes
    <2>4. CASE Settled(r) \/ LocksFirst(r) \/ LocksSecond(r) \/ ComparesStamps(r)
      BY <2>4 DEF Settled, LocksFirst, LocksSecond, ComparesStamps, Goto, Elsewhere, HomesInv, LockInv, memory
    <2>5. CASE AdoptRemoves(r) \/ AdoptCopies(r) \/ AdoptStamps(r)
      BY <2>5 DEF AdoptRemoves, AdoptCopies, AdoptStamps, Goto, Elsewhere, HomesInv, LockInv, memory
    <2> QED
      BY <2>1, <2>2, <2>3, <2>4, <2>5 DEF Locking
  <1>2. pc[r] \notin ChangeSteps /\ pc'[r] # "snapshots"
    BY DEF Opening, OpensDefault, OpensInRoot, MayOpen, Locking, Settles, Discards, Settled, LocksFirst,
       LocksSecond, ComparesStamps, AdoptRemoves, AdoptCopies, AdoptStamps, Goto, ChangeSteps, HomesInv, LockInv
  <1>3. RunTells(r)'
    <2>1. stored'[r] = {} /\ op'[r] = "none"
      BY <1>1, <1>2 DEF MemoryTells, RunTells
    <2> QED
      BY <1>2, <2>1, NothingStored
  <1>4. UNCHANGED file \/ \A q \in Runs : q # r => pc[q] \notin ChangeSteps
    <2>1. CASE Opening(r) \/ LocksFirst(r) \/ LocksSecond(r) \/ ComparesStamps(r) \/ AdoptStamps(r)
      BY <2>1 DEF Opening, OpensDefault, OpensInRoot, LocksFirst, LocksSecond, ComparesStamps, AdoptStamps, disk
    <2>2. CASE Settles(r) \/ Discards(r) \/ Settled(r)
      BY <2>2, SettlingKeepsIdent DEF ChangeSteps
    <2>3. CASE AdoptRemoves(r) \/ AdoptCopies(r)
      <3>1. pc[r] \in LockedSteps
        BY <2>3 DEF AdoptRemoves, AdoptCopies, LockedSteps
      <3> QED
        BY <3>1, OneLocked DEF ChangeSteps, LockedSteps
    <2> QED
      BY <2>1, <2>2, <2>3 DEF Locking
  <1> QED
    BY <1>1, <1>3, <1>4, MemoryKept DEF HomesInv

\* A step of a run that goes on with its changes.
LEMMA ChangingKeepsMemory ==
  ASSUME HomesInv, FileInv', MemoryTypes, MemoryTells, NEW r \in Runs, pc[r] \in LockedSteps,
         Elsewhere(r), RunTells(r)'
  PROVE  MemoryTells'
  <1>1. \A q \in Runs : q # r => pc[q] \notin ChangeSteps
    BY OneLocked DEF ChangeSteps, LockedSteps
  <1> QED
    BY <1>1, MemoryKept DEF HomesInv

LEMMA DocKeepsMemory ==
  ASSUME HomesAssumption, HomesInv, FileInv', MemoryTypes, MemoryTells, NEW r \in Runs, NEW d \in Docs,
         WritesDoc(r, d) \/ RemovesDoc(r, d)
  PROVE  MemoryTells'
  <1>1. /\ pc[r] = "work" /\ pc'[r] = "stamp" /\ UNCHANGED <<left, stored, created, op, home>> /\ Elsewhere(r)
    BY DEF WritesDoc, RemovesDoc, Begin, Goto, Elsewhere, HomesInv, LockInv, memory
  <1>2. /\ home[r] \in Homes /\ stored[r] \subseteq Contents /\ d \notin Contents
        /\ d \in Names /\ d \notin Snapshots /\ {} \in SUBSET Contents
    BY DEF HomesAssumption, HomesInv, FileInv, Names, Documents
  <1>3. Named(home[r])' \subseteq Named(home[r]) /\ Held(home[r]) \ {d} \subseteq Held(home[r])'
    <2>1. CASE WritesDoc(r, d)
      BY <1>1, <1>2, <2>1, WrittenHome DEF WritesDoc, HomesInv
    <2>2. CASE RemovesDoc(r, d)
      BY <1>1, <1>2, <2>2, RemovedHome DEF RemovesDoc, HomesInv
    <2> QED
      BY <2>1, <2>2
  <1>4. /\ op[r] = "none" /\ created[r] \cap Named(home[r]) = {} /\ stored[r] \subseteq Held(home[r])
    BY <1>1 DEF MemoryTells, RunTells
  <1>5. RunTells(r)'
    BY <1>1, <1>2, <1>3, <1>4 DEF RunTells, ChangeSteps
  <1> QED
    BY <1>1, <1>5, ChangingKeepsMemory DEF LockedSteps

LEMMA ContentKeepsMemory ==
  ASSUME HomesAssumption, HomesInv, FileInv', MemoryTypes, RunsRead, MemoryTells, NEW r \in Runs, NEW c \in Contents,
         StoresContent(r, c)
  PROVE  MemoryTells'
  <1>1. /\ pc[r] = "work" /\ pc'[r] = "work" /\ UNCHANGED <<left, op, home>>
        /\ stored' = [stored EXCEPT ![r] = @ \cup {c}]
        /\ created' = [created EXCEPT ![r] = IF file[home[r]][c] = Absent THEN @ \cup {c} ELSE @]
    BY DEF StoresContent, Begin, Goto, HomesInv, LockInv
  <1>2. Elsewhere(r)
    BY DEF StoresContent, Begin, Goto, Elsewhere, HomesInv, LockInv, FileInv
  <1>3. /\ home[r] \in Homes /\ c \in Names /\ c \notin Snapshots /\ {} \in SUBSET Contents
    BY DEF HomesAssumption, HomesInv, FileInv, Names, Documents
  <1>4. Named(home[r])' \subseteq Named(home[r]) /\ Held(home[r])' = Held(home[r]) \cup {c}
    BY <1>1, <1>3, WrittenHome DEF StoresContent, HomesInv
  <1>5. /\ op[r] = "none" /\ created[r] \cap Named(home[r]) = {} /\ stored[r] \subseteq Held(home[r])
        /\ Named(home[r]) \subseteq Held(home[r])
    BY <1>1 DEF MemoryTells, RunTells, RunsRead, Whole, ChangeSteps
  <1>6. /\ stored'[r] = stored[r] \cup {c}
        /\ created'[r] = IF file[home[r]][c] = Absent THEN created[r] \cup {c} ELSE created[r]
    BY <1>1 DEF HomesInv, FileInv
  <1>7. file[home[r]][c] = Absent => c \notin Named(home[r])
    BY <1>5 DEF Held
  <1>8. created'[r] \cap Named(home[r])' = {}
    BY <1>4, <1>5, <1>6, <1>7
  <1>9. stored'[r] \subseteq Held(home[r])'
    BY <1>4, <1>5, <1>6
  <1>10. RunTells(r)'
    BY <1>1, <1>5, <1>8, <1>9 DEF RunTells, ChangeSteps
  <1> QED
    BY <1>1, <1>2, <1>10, ChangingKeepsMemory DEF LockedSteps

LEMMA SnapshotKeepsMemory ==
  ASSUME HomesAssumption, HomesInv, FileInv', MemoryTypes, RunsRead, MemoryTells,
         NEW r \in Runs, NEW s \in Snapshots, SnapshotStep(r, s)
  PROVE  MemoryTells'
  <1>1. /\ pc[r] = "snapshots" /\ pc'[r] = "snapshots" /\ UNCHANGED <<stored, created, op, home>>
        /\ op[r] \in {"remove", "write"} /\ s \in left[r]
    BY DEF SnapshotStep
  <1>2. Elsewhere(r)
    BY DEF SnapshotStep, Elsewhere, MemoryTypes
  <1>3. /\ home[r] \in Homes /\ s \in Names /\ s \notin Contents /\ stored[r] \subseteq Contents
    BY DEF HomesAssumption, HomesInv, FileInv, Names, Documents
  <1>4. stored[r] \subseteq Held(home[r])
    BY <1>1 DEF MemoryTells, RunTells
  <1>5. file[home[r]][s].names \cup stored[r] \subseteq Contents
    BY <1>3 DEF HomesInv, FileInv, File
  <1>6. Held(home[r]) \ {s} \subseteq Held(home[r])'
    <2>1. CASE Removes(r, {s})
      BY <1>1, <2>1, RemovedHome DEF HomesInv
    <2>2. ASSUME NEW names \in SUBSET (file[home[r]][s].names \cup stored[r]), Writes(r, s, names)
          PROVE  Held(home[r]) \ {s} \subseteq Held(home[r])'
      BY <1>1, <1>3, <1>5, <2>2, WrittenHome DEF HomesInv
    <2> QED
      BY <2>1, <2>2 DEF SnapshotStep
  <1>7. stored[r] \subseteq Held(home[r])'
    BY <1>3, <1>4, <1>6
  <1>8. RunTells(r)'
    BY <1>1, <1>7 DEF RunTells, ChangeSteps
  <1> QED
    BY <1>1, <1>2, <1>8, ChangingKeepsMemory DEF LockedSteps

LEMMA RemovalKeepsMemory ==
  ASSUME HomesInv, FileInv', MemoryTypes, MemoryTells, NEW r \in Runs, RemovesCreated(r) \/ Prunes(r)
  PROVE  MemoryTells'
  <1>1. CASE RemovesCreated(r)
    <2>1. Elsewhere(r) /\ pc[r] = "work" /\ pc'[r] = "work" /\ stored'[r] = {} /\ op'[r] = op[r]
      BY <1>1 DEF RemovesCreated, Elsewhere, HomesInv, FileInv
    <2>2. RunTells(r)'
      BY <2>1, NothingStored DEF MemoryTells, RunTells
    <2> QED
      BY <2>1, <2>2, ChangingKeepsMemory DEF LockedSteps
  <1>2. CASE Prunes(r)
    <2>1. Elsewhere(r) /\ pc[r] = "snapshots" /\ left[r] = {} /\ UNCHANGED <<pc, left, stored, created, op>>
      BY <1>2 DEF Prunes, Elsewhere, memory
    <2>2. RunTells(r)'
      BY <2>1 DEF MemoryTells, RunTells, ChangeSteps
    <2> QED
      BY <2>1, <2>2, ChangingKeepsMemory DEF LockedSteps
  <1> QED
    BY <1>1, <1>2

LEMMA BeginningKeepsMemory ==
  ASSUME HomesInv, FileInv', MemoryTypes, MemoryTells, NEW r \in Runs, BeginsWrite(r) \/ BeginsRemoval(r)
  PROVE  MemoryTells'
  <1>1. /\ pc[r] = "work" /\ pc'[r] = "snapshots" /\ UNCHANGED <<file, stored, created, home>> /\ Elsewhere(r)
    BY DEF BeginsWrite, BeginsRemoval, Begin, Goto, Elsewhere, HomesInv, LockInv, MemoryTypes, disk
  <1>2. /\ op'[r] \in {"write", "remove", "prune"}
        /\ op'[r] = "prune" => stored[r] = {}
    BY DEF BeginsWrite, BeginsRemoval, MemoryTypes
  <1>3. Held(home[r])' = Held(home[r]) /\ stored[r] \subseteq Held(home[r])
    BY <1>1 DEF Held, MemoryTells, RunTells
  <1>4. RunTells(r)'
    BY <1>1, <1>2, <1>3 DEF RunTells, ChangeSteps
  <1> QED
    BY <1>1, <1>4, ChangingKeepsMemory DEF LockedSteps

LEMMA EndingKeepsMemory ==
  ASSUME HomesInv, FileInv', MemoryTypes, MemoryTells, NEW r \in Runs, Pruned(r) \/ Stamps(r)
  PROVE  MemoryTells'
  <1>1. CASE Pruned(r)
    <2>1. /\ pc[r] = "snapshots" /\ UNCHANGED <<stored, created, home, left, file>> /\ Elsewhere(r)
          /\ pc'[r] = (IF op[r] = "prune" THEN "work" ELSE "stamp")
          /\ op'[r] = (IF op[r] = "prune" THEN "none" ELSE op[r])
      BY <1>1 DEF Pruned, Goto, Elsewhere, HomesInv, LockInv, MemoryTypes, disk
    <2>2. op[r] # "none" /\ (op[r] = "prune" => stored[r] = {})
      BY <2>1 DEF MemoryTells, RunTells
    <2>3. RunTells(r)'
      <3>1. CASE op[r] = "prune"
        BY <2>1, <2>2, <3>1, NothingStored
      <3>2. CASE op[r] # "prune"
        BY <2>1, <2>2, <3>2 DEF RunTells, ChangeSteps
      <3> QED
        BY <3>1, <3>2
    <2> QED
      BY <2>1, <2>3, ChangingKeepsMemory DEF LockedSteps
  <1>2. CASE Stamps(r)
    <2>1. /\ pc[r] = "stamp" /\ pc'[r] = "work" /\ UNCHANGED <<file, home>> /\ Elsewhere(r)
          /\ op'[r] = "none"
          /\ stored'[r] = (IF op[r] = "none" THEN stored[r] ELSE {})
          /\ created'[r] = (IF op[r] = "none" THEN created[r] ELSE {})
      BY <1>2 DEF Stamps, Goto, Elsewhere, HomesInv, LockInv, FileInv, MemoryTypes
    <2>2. RunTells(r)'
      <3>1. CASE op[r] = "none"
        <4>1. /\ Named(home[r])' = Named(home[r]) /\ Held(home[r])' = Held(home[r])
              /\ created[r] \cap Named(home[r]) = {} /\ stored[r] \subseteq Held(home[r])
          BY <2>1, <3>1 DEF Named, Held, MemoryTells, RunTells
        <4> QED
          BY <2>1, <3>1, <4>1 DEF RunTells, ChangeSteps
      <3>2. CASE op[r] # "none"
        BY <2>1, <3>2, NothingStored
      <3> QED
        BY <3>1, <3>2
    <2> QED
      BY <2>1, <2>2, ChangingKeepsMemory DEF LockedSteps
  <1> QED
    BY <1>1, <1>2

LEMMA StepKeepsMemory ==
  ASSUME HomesAssumption, HomesInv, FileInv', MemoryTypes, IdentTells, RunsRead, MemoryTells, [Next]_vars
  PROVE  MemoryTells'
  <1>1. CASE UNCHANGED vars
    <2>1. \A r \in Runs : Named(home[r])' = Named(home[r]) /\ Held(home[r])' = Held(home[r])
      BY <1>1 DEF vars, disk, Named, Held
    <2> QED
      BY <1>1, <2>1 DEF vars, memory, MemoryTells, RunTells
  <1>2. CASE CreatesAgain
    <2>1. ASSUME NEW q \in Runs
          PROVE  RunTells(q)'
      <3>1. pc[q] = "none" /\ UNCHANGED <<pc, stored, op>>
        BY <1>2 DEF CreatesAgain, memory
      <3> QED
        BY <3>1, NothingStored DEF MemoryTells, RunTells, ChangeSteps
    <2> QED
      BY <2>1 DEF MemoryTells
  <1>3. ASSUME NEW r \in Runs, Kill(r) \/ Ends(r) \/ SnapshotsFail(r)
        PROVE  MemoryTells'
    BY <1>3, EndKeepsMemory DEF Kill, Ends, SnapshotsFail, disk, LockedSteps
  <1>4. ASSUME NEW r \in Runs, Changing(r)
        PROVE  MemoryTells'
    BY <1>3, <1>4, DocKeepsMemory, ContentKeepsMemory, SnapshotKeepsMemory, RemovalKeepsMemory,
       BeginningKeepsMemory, EndingKeepsMemory DEF Changing
  <1> QED
    BY <1>1, <1>2, <1>3, <1>4, LockingKeepsMemory DEF Next, Step

-----------------------------------------------------------------------------
(* Every step. *)

LEMMA StepKeepsIdent ==
  ASSUME HomesAssumption, ~DiscardsCut, ~StampFails, HomesInv, MemoryTypes, IdentTells, HomesRead, RunsRead,
         [Next]_vars
  PROVE  IdentTells'
  <1>1. CASE UNCHANGED vars
    BY <1>1 DEF vars, disk, memory, IdentTells, Unread, Stale, Emptied, Held
  <1>2. ASSUME NEW r \in Runs, Changing(r)
        PROVE  IdentTells'
    <2>1. CASE Holding(r)
      BY <1>2, <2>1, OwnHomeChanged, HoldingKeepsIdent DEF HomesInv
    <2>2. CASE SnapshotsFail(r)
      <3>1. UNCHANGED file
        BY <2>2, FailingKeepsRead
      <3> QED
        BY <2>2, <3>1, EndKeepsIdent DEF SnapshotsFail, HalfDiscarded
    <2>3. CASE Ends(r)
      BY <2>3, EndKeepsIdent DEF Ends, HalfDiscarded, disk
    <2> QED
      BY <1>2, <2>1, <2>2, <2>3, ChangesHold
  <1>3. ASSUME NEW r \in Runs, Locking(r) \/ Opening(r)
        PROVE  IdentTells'
    BY <1>3, OpeningKeepsIdent, SettlingKeepsIdent, AdoptionHolds, OwnHomeChanged, HoldingKeepsIdent
       DEF Locking, HomesInv
  <1>4. ASSUME NEW r \in Runs, Kill(r)
        PROVE  IdentTells'
    BY <1>4, EndKeepsIdent DEF Kill, disk
  <1> QED
    BY <1>1, <1>2, <1>3, <1>4, CreatingKeepsIdent DEF Next, Step

LEMMA StepKeepsRead ==
  ASSUME HomesAssumption, ~DiscardsCut, ~AdoptionsCut, ~StampFails, HomesInv, FileInv', ReadInv, [Next]_vars
  PROVE  HomesRead' /\ RunsRead'
  <1> USE DEF ReadInv
  <1>1. CASE UNCHANGED vars
    <2>1. UNCHANGED <<file, stamp, allowed, pc, home>> /\ (Unread' <=> Unread)
      BY <1>1 DEF vars, disk, Unread, Stale
    <2> QED
      BY <2>1, ReadKept
  <1>2. CASE CreatesAgain
    BY <1>2, CreatingKeepsRead
  <1>3. ASSUME NEW r \in Runs, Opening(r) \/ Locking(r)
        PROVE  HomesRead' /\ RunsRead'
    BY <1>3, OpeningKeepsRead, SettlingKeepsRead, ComparingKeepsRead, AdoptRemovesKeepsRead,
       AdoptCopiesKeepsRead, AdoptStampsKeepsRead DEF Locking
  <1>4. ASSUME NEW r \in Runs, Kill(r) \/ Ends(r)
        PROVE  HomesRead' /\ RunsRead'
    BY <1>4, EndingKeepsRead DEF Kill, Ends, HalfDiscarded, HalfAdopted, disk
  <1>5. ASSUME NEW r \in Runs, Changing(r)
        PROVE  HomesRead' /\ RunsRead'
    BY <1>4, <1>5, DocKeepsRead, ContentKeepsRead, SnapshotKeepsRead, RemovalKeepsRead, PausingKeepsRead,
       StampingKeepsRead, FailingKeepsRead DEF Changing
  <1> QED
    BY <1>1, <1>2, <1>3, <1>4, <1>5 DEF Next, Step

\* Nothing stands and nothing is under way.
LEMMA InitReads ==
  ASSUME HomesAssumption, ~FirstUse, Init
  PROVE  HomesInv /\ ReadInv
  <1>1. LockInv /\ FileInv /\ OneHome
    BY DEF HomesAssumption, Init, LockInv, FileInv, OneHome, LockedSteps, Steps, HolderSteps, Homes, File, Absent
  <1>2. MemoryTypes
    BY DEF Init, MemoryTypes
  <1>3. /\ \A h \in Homes, n \in Names : file[h][n] = Absent
        /\ \A h \in Homes : stamp[h] = 0
        /\ \A r \in Runs : pc[r] = "none" /\ home[r] = "default" /\ ~stale[r] /\ stored[r] = {}
                           /\ created[r] = {} /\ op[r] = "none"
        /\ ident = 1 /\ folder = 1 /\ clock = 1 /\ allowed = {NoState}
    BY DEF Init
  <1>4. TimesTell
    BY <1>3 DEF TimesTell, Absent
  <1>5. IdentTells
    BY <1>3 DEF IdentTells, LockedSteps
  <1>6. \A h \in Homes : Whole(h)
    BY <1>3, EmptyReads DEF Whole
  <1>7. HomesRead /\ RunsRead
    BY <1>3, <1>6 DEF HomesRead, RunsRead, ChangeSteps
  <1>8. MemoryTells
    BY <1>3 DEF MemoryTells, RunTells
  <1> QED
    BY <1>1, <1>2, <1>4, <1>5, <1>7, <1>8 DEF HomesInv, ReadInv

(***************************************************************************)
(* Every run, and every reader without a lock, reads a state the last      *)
(* completed change left or one begun since, with every content it names,  *)
(* whichever of the two homes each run writes and wherever it is killed    *)
(* (lock, adopt, restamp, write_snapshots, settle_folder_identity).  The   *)
(* first two assumptions give that two runs never change a state at once;  *)
(* without any one of the other four TLC finds a state read that no change *)
(* left, or a named content gone.                                          *)
(***************************************************************************)
THEOREM ReadsWhole ==
  ASSUME ~FirstUse, ~Overlaps, ~DiscardsCut, ~AdoptionsCut, ~StampFails
  PROVE  Spec => []ReadsWholeChange
  <1>1. Init => HomesInv /\ ReadInv
    BY HomesAssumption, InitReads
  <1>2. HomesInv /\ ReadInv /\ [Next]_vars => HomesInv' /\ ReadInv'
    <2> SUFFICES ASSUME HomesInv, ReadInv, [Next]_vars
                 PROVE  HomesInv' /\ ReadInv'
      OBVIOUS
    <2>1. LockInv' /\ FileInv' /\ OneHome'
      BY HomesAssumption, StepKeepsLocks, StepKeepsFiles, StepKeepsOneHome DEF HomesInv
    <2>2. MemoryTypes' /\ TimesTell'
      BY StepKeepsMemoryTypes, StepKeepsTimes DEF HomesInv, ReadInv
    <2>3. IdentTells'
      BY HomesAssumption, StepKeepsIdent DEF ReadInv
    <2>4. HomesRead' /\ RunsRead'
      BY <2>1, HomesAssumption, StepKeepsRead
    <2>5. MemoryTells'
      BY <2>1, HomesAssumption, StepKeepsMemory DEF ReadInv
    <2> QED
      BY <2>1, <2>2, <2>3, <2>4, <2>5 DEF HomesInv, ReadInv
  <1>3. HomesInv /\ ReadInv => ReadsWholeChange
    BY WholeIsRead DEF ReadInv
  <1> QED
    BY <1>1, <1>2, <1>3, PTL DEF Spec
=============================================================================
