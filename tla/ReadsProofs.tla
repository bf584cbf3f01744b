----------------------------- MODULE ReadsProofs ----------------------------
(***************************************************************************)
(* What holds of the read store, of the views kept in it and of the HTTP   *)
(* client, for every set of processes, calls, connections and paths and    *)
(* every bound: that the directory a live run stages content in outlives   *)
(* every other run's sweep, that a call sends only what it may send again, *)
(* that the gate holds requests back only until the first answer, that     *)
(* what a run reads through views is what the server shows it, and that a  *)
(* listing prints a tree the server showed, whole.                         *)
(***************************************************************************)
EXTENDS Staging, Transport, Views, Listings, FiniteSetTheorems, SequenceTheorems, NaturalsInduction,
    WellFoundedInduction, TLAPS

(***************************************************************************)
(* The staging directories.  A run that opened its directory holds the     *)
(* lock on the file under its name; a sweeper that sees the directory      *)
(* opens that same file, so its try fails.  The sweeper's two reads, of    *)
(* the directory and of the file, are steps of its own, which is why the   *)
(* invariant has to say what it knows between them.                        *)
(***************************************************************************)
StagerSteps == {"idle", "sweep", "try", "remove", "unlink", "staging", "left", "gone"}
StagerType == [at : StagerSteps, todo : SUBSET Stagers, of : SUBSET Stagers,
               file : Nat, made : 0 .. 3]
StagingType ==
    /\ dirs \in SUBSET Stagers
    /\ lockFiles \in [Stagers -> Nat]
    /\ held \in [Stagers -> SUBSET Nat] /\ \A s \in Stagers : IsFiniteSet(held[s])
    /\ stager \in [Stagers -> StagerType]

\* A process whose lock file stands, whose directory has stood, and whose
\* directory it has not given up.
Named(s) == stager[s].made # 0
HadDir(s) == stager[s].made = 3 \/ stager[s].at = "gone"
Lives(s) == stager[s].made = 3

Stands(s) ==
    /\ stager[s].at \in {"idle", "try", "remove", "unlink", "gone"} => ~Named(s)
    /\ stager[s].at \in {"staging", "left"} => Lives(s)
    /\ Named(s) => /\ stager[s].todo = {}
                   /\ stager[s].file # 0 /\ lockFiles[s] = stager[s].file
    /\ stager[s].made \in {2, 3} => stager[s].file \in held[s]
    /\ Lives(s) /\ stager[s].at # "left" => s \in dirs
    /\ s \in dirs => HadDir(s)
Sweeps(s, d) ==
    /\ d \in stager[s].todo => HadDir(d)
    /\ stager[s].at \in {"try", "remove", "unlink"} /\ d \in stager[s].of => HadDir(d)
    /\ stager[s].at = "try" /\ d \in stager[s].of /\ Lives(d) =>
         stager[s].file = stager[d].file
    /\ stager[s].at \in {"remove", "unlink"} /\ d \in stager[s].of => ~Lives(d)

StagingInv ==
    /\ StagingType
    /\ \A s \in Stagers : Stands(s)
    /\ \A s, d \in Stagers : Sweeps(s, d)

\* The file created under a name is a file, and none that stands, is open
\* or is locked.
LEMMA NewFileIsNew ==
  ASSUME StagingType
  PROVE  NewFile \in Nat \ {0} /\ NewFile \notin Files
  <1> DEFINE open == {stager[s].file : s \in Stagers}
             standing == {lockFiles[s] : s \in Stagers}
             locked == UNION {held[s] : s \in Stagers}
  <1>1. IsFiniteSet(open)
    <2> DEFINE f == [s \in Stagers |-> stager[s].file]
    <2>1. f \in Surjection(Stagers, open)
      BY DEF Surjection
    <2> QED
      BY <2>1, StagersFinite, FS_Surjection
  <1>2. IsFiniteSet(standing)
    <2> DEFINE f == [s \in Stagers |-> lockFiles[s]]
    <2>1. f \in Surjection(Stagers, standing)
      BY DEF Surjection
    <2> QED
      BY <2>1, StagersFinite, FS_Surjection
  <1>3. IsFiniteSet(locked)
    <2> DEFINE f == [s \in Stagers |-> held[s]]
               all == {held[s] : s \in Stagers}
    <2>1. f \in Surjection(Stagers, all)
      BY DEF Surjection
    <2>2. IsFiniteSet(all)
      BY <2>1, StagersFinite, FS_Surjection
    <2>3. \A T \in all : IsFiniteSet(T)
      BY DEF StagingType
    <2> HIDE DEF all
    <2>4. IsFiniteSet(UNION all)
      BY <2>2, <2>3, FS_UNION
    <2> QED
      BY <2>4 DEF all
  <1>4. IsFiniteSet(Files)
    <2>1. Files = standing \cup open \cup locked
      BY DEF Files
    <2> HIDE DEF open, standing, locked
    <2>2. IsFiniteSet(standing \cup open)
      BY <1>1, <1>2, FS_Union
    <2>3. IsFiniteSet((standing \cup open) \cup locked)
      BY <1>3, <2>2, FS_Union
    <2> QED
      BY <2>1, <2>3
  <1> HIDE DEF open, standing, locked
  <1> DEFINE some == 1 .. Cardinality(Files) + 1
  <1>5. Cardinality(Files) \in Nat
    BY <1>4, FS_CardinalityType
  <1>6. IsFiniteSet(some) /\ Cardinality(some) = Cardinality(Files) + 1
    BY <1>5, FS_Interval
  <1>7. ~(some \subseteq Files)
    BY <1>4, <1>5, <1>6, FS_Subset
  <1>8. \E n \in some : n \notin Files
    BY <1>7
  <1> QED
    BY <1>5, <1>8 DEF NewFile

\* A step of a process changes what that process is doing and no other.
LEMMA Moves ==
  ASSUME StagingType, NEW s \in Stagers, NEW to \in StagerType,
         stager' = [stager EXCEPT ![s] = to]
  PROVE  /\ stager' \in [Stagers -> StagerType] /\ stager'[s] = to
         /\ \A t \in Stagers \ {s} : stager'[t] = stager[t]
  BY DEF StagingType

GoesTo(s, at) ==
    /\ stager' \in [Stagers -> StagerType]
    /\ stager'[s].at = at
    /\ stager'[s].todo = stager[s].todo /\ stager'[s].of = stager[s].of
    /\ stager'[s].file = stager[s].file /\ stager'[s].made = stager[s].made
    /\ \A t \in Stagers \ {s} : stager'[t] = stager[t]
OpensTo(s, made, file) ==
    /\ stager' \in [Stagers -> StagerType]
    /\ stager'[s].at = "sweep" /\ stager'[s].todo = {}
    /\ stager'[s].made = made /\ stager'[s].file = file
    /\ \A t \in Stagers \ {s} : stager'[t] = stager[t]

\* Every step of every process keeps the invariant.
LEMMA StagingStep == StagingInv /\ [StagingNext]_stagingVars => StagingInv'
  <1> SUFFICES ASSUME StagingInv, [StagingNext]_stagingVars
               PROVE  StagingInv'
    OBVIOUS
  <1> USE DEF StagerSteps, HadDir, Lives, Named
  <1>0. ASSUME NEW s \in Stagers
        PROVE  /\ stager[s] \in StagerType
               /\ stager[s].todo \subseteq Stagers /\ stager[s].of \subseteq Stagers
    BY DEF StagingInv, StagingType, StagerType
  <1>g. ASSUME NEW s \in Stagers, NEW at \in StagerSteps, Goes(s, at)
        PROVE  GoesTo(s, at)
    <2>1. [stager[s] EXCEPT !.at = at] \in StagerType
      BY <1>0 DEF StagerType
    <2>2. stager' = [stager EXCEPT ![s] = [stager[s] EXCEPT !.at = at]]
      BY <1>g DEF Goes, StagingInv, StagingType
    <2>3. /\ stager' \in [Stagers -> StagerType]
          /\ stager'[s] = [stager[s] EXCEPT !.at = at]
          /\ \A t \in Stagers \ {s} : stager'[t] = stager[t]
      BY <2>1, <2>2, Moves DEF StagingInv
    <2> QED
      BY <1>0, <2>3 DEF StagerType, GoesTo
  <1>1. ASSUME NEW s \in Stagers, BeginSweep(s)
        PROVE  StagingInv'
    <2> DEFINE begun == [stager[s] EXCEPT !.at = "sweep"]
               to == [begun EXCEPT !.todo = dirs]
    <2>0. /\ begun \in StagerType /\ begun.at = "sweep" /\ begun.of = stager[s].of
          /\ begun.file = stager[s].file /\ begun.made = stager[s].made
      BY <1>0 DEF StagerType
    <2>1. /\ to \in StagerType /\ to.at = "sweep" /\ to.todo = dirs /\ to.of = stager[s].of
          /\ to.file = stager[s].file /\ to.made = stager[s].made
      <3> HIDE DEF begun
      <3>1. dirs \in SUBSET Stagers
        BY DEF StagingInv, StagingType
      <3> QED
        BY <2>0, <3>1 DEF StagerType
    <2>2. stager' = [stager EXCEPT ![s] = to]
      BY <1>1 DEF BeginSweep, StagingInv, StagingType
    <2>3. /\ stager' \in [Stagers -> StagerType] /\ stager'[s] = to
          /\ \A t \in Stagers \ {s} : stager'[t] = stager[t]
      BY <2>1, <2>2, Moves DEF StagingInv
    <2>4. StagingType' /\ stager[s].made = 0
      BY <1>1, <2>3 DEF BeginSweep, StagingInv, StagingType, Stands
    <2>5. ASSUME NEW t \in Stagers PROVE Stands(t)'
      BY <1>1, <2>1, <2>3, <2>4 DEF BeginSweep, StagingInv, Stands
    <2>6. ASSUME NEW t \in Stagers, NEW d \in Stagers PROVE Sweeps(t, d)'
      BY <1>1, <2>1, <2>3, <2>4 DEF BeginSweep, StagingInv, Stands, Sweeps
    <2> QED
      BY <2>4, <2>5, <2>6 DEF StagingInv
  <1>2. ASSUME NEW s \in Stagers, NEW d \in Stagers, OpenLock(s, d)
        PROVE  StagingInv'
    <2> DEFINE tries == [stager[s] EXCEPT !.at = "try"]
               less == [tries EXCEPT !.todo = @ \ {d}]
               of == [less EXCEPT !.of = {d}]
               to == [of EXCEPT !.file = lockFiles'[d]]
    <2>1. NewFile \in Nat \ {0}
      BY NewFileIsNew DEF StagingInv
    <2>2. /\ lockFiles' \in [Stagers -> Nat]
          /\ \A t \in Stagers : lockFiles[t] # 0 => lockFiles'[t] = lockFiles[t]
          /\ UNCHANGED <<dirs, held>>
      BY <1>2, <2>1 DEF OpenLock, StagingInv, StagingType
    <2>3. /\ to \in StagerType /\ to.at = "try" /\ to.todo = stager[s].todo \ {d}
          /\ to.of = {d} /\ to.file = lockFiles'[d] /\ to.made = stager[s].made
      <3>1. /\ stager[s].todo \ {d} \in SUBSET Stagers /\ {d} \in SUBSET Stagers
            /\ lockFiles'[d] \in Nat
        BY <1>0, <2>2
      <3>2. /\ tries \in StagerType /\ tries.at = "try" /\ tries.todo = stager[s].todo
            /\ tries.made = stager[s].made
        BY <1>0 DEF StagerType
      <3> HIDE DEF tries
      <3>3. /\ less \in StagerType /\ less.at = "try" /\ less.todo = stager[s].todo \ {d}
            /\ less.made = stager[s].made
        BY <3>1, <3>2 DEF StagerType
      <3> HIDE DEF less
      <3>4. /\ of \in StagerType /\ of.at = "try" /\ of.todo = stager[s].todo \ {d}
            /\ of.of = {d} /\ of.made = stager[s].made
        BY <3>1, <3>3 DEF StagerType
      <3> HIDE DEF of
      <3> QED
        BY <3>1, <3>4 DEF StagerType
    <2>4. stager' = [stager EXCEPT ![s] = to]
      BY <1>2 DEF OpenLock, StagingInv, StagingType
    <2>5. /\ stager' \in [Stagers -> StagerType] /\ stager'[s] = to
          /\ \A t \in Stagers \ {s} : stager'[t] = stager[t]
      BY <2>3, <2>4, Moves DEF StagingInv
    <2>6. StagingType'
      BY <2>2, <2>5 DEF StagingInv, StagingType
    <2>7. HadDir(d) /\ ~Named(s) /\ stager[s].at = "sweep"
      BY <1>2 DEF OpenLock, StagingInv, Stands, Sweeps
    <2> HIDE DEF to, of, less, tries
    <2>8. ASSUME NEW t \in Stagers PROVE Stands(t)'
      <3>1. CASE t = s
        <4>1. /\ stager'[s].at = "try" /\ stager'[s].made = 0 /\ Stands(s) /\ s \notin dirs
              /\ stager[s].made = 0
          BY <2>3, <2>5, <2>7 DEF StagingInv, Stands
        <4> QED
          BY <2>2, <3>1, <4>1 DEF Stands
      <3>2. CASE t # s
        <4>1. stager'[t] = stager[t] /\ held'[t] = held[t] /\ Stands(t)
              /\ (lockFiles[t] # 0 => lockFiles'[t] = lockFiles[t])
          BY <2>2, <2>5, <3>2 DEF StagingInv
        <4> QED
          BY <2>2, <4>1 DEF Stands
      <3> QED
        BY <3>1, <3>2
    <2>9. ASSUME NEW t \in Stagers, NEW e \in Stagers PROVE Sweeps(t, e)'
      <3>1. /\ (HadDir(e)' <=> HadDir(e)) /\ (Lives(e)' <=> Lives(e))
            /\ Lives(e) => stager'[e].file = stager[e].file /\ lockFiles'[e] = stager[e].file
        <4>1. CASE e = s
          <5>1. /\ stager[s].made = 0 /\ stager[s].at = "sweep"
                /\ stager'[s].made = 0 /\ stager'[s].at = "try"
            BY <2>3, <2>5, <2>7
          <5> QED
            BY <4>1, <5>1
        <4>2. CASE e # s
          <5>1. stager'[e] = stager[e] /\ Stands(e)
            BY <2>5, <4>2 DEF StagingInv
          <5> QED
            BY <2>2, <5>1 DEF Stands
        <4> QED
          BY <4>1, <4>2
      <3>2. CASE t = s
        BY <2>3, <2>5, <2>7, <3>1, <3>2 DEF StagingInv, Sweeps
      <3>3. CASE t # s
        <4>1. stager'[t] = stager[t] /\ Sweeps(t, e)
          BY <2>5, <3>3 DEF StagingInv
        <4> QED
          BY <3>1, <4>1 DEF Sweeps
      <3> QED
        BY <3>2, <3>3
    <2> QED
      BY <2>6, <2>8, <2>9 DEF StagingInv
  <1>3. ASSUME NEW s \in Stagers, TryLock(s)
        PROVE  StagingInv'
    <2>1. ~Named(s) /\ stager[s].at = "try"
      BY <1>3 DEF TryLock, StagingInv, Stands
    <2>2. CASE LockedByOther(s, stager[s].file)
      <3>1. Goes(s, "sweep") /\ UNCHANGED <<dirs, lockFiles, held>>
        BY <1>3, <2>2 DEF TryLock
      <3>g. GoesTo(s, "sweep")
        BY <1>g, <3>1
      <3>2. StagingType'
        BY <3>g, <3>1 DEF GoesTo, StagingInv, StagingType
      <3>3. ASSUME NEW t \in Stagers PROVE Stands(t)'
        BY <3>g, <2>1, <3>1 DEF GoesTo, StagingInv, Stands
      <3>4. ASSUME NEW t \in Stagers, NEW d \in Stagers PROVE Sweeps(t, d)'
        BY <3>g, <2>1, <3>1, <1>3 DEF GoesTo, TryLock, StagingInv, Sweeps
      <3> QED
        BY <3>2, <3>3, <3>4 DEF StagingInv
    <2>3. CASE ~LockedByOther(s, stager[s].file)
      <3>1. /\ Goes(s, "remove") /\ UNCHANGED <<dirs, lockFiles>>
            /\ held' = [held EXCEPT ![s] = @ \cup {stager[s].file}]
        BY <1>3, <2>3 DEF TryLock
      <3>2. /\ held' \in [Stagers -> SUBSET Nat] /\ \A t \in Stagers : held[t] \subseteq held'[t]
            /\ \A t \in Stagers : IsFiniteSet(held'[t])
        <4>1. /\ held \in [Stagers -> SUBSET Nat] /\ \A t \in Stagers : IsFiniteSet(held[t])
              /\ stager[s].file \in Nat
          BY <1>0 DEF StagingInv, StagingType, StagerType
        <4>2. IsFiniteSet(held[s] \cup {stager[s].file})
          BY <4>1, FS_AddElement
        <4> QED
          BY <3>1, <4>1, <4>2
      <3>g. GoesTo(s, "remove")
        BY <1>g, <3>1
      <3>3. StagingType'
        BY <3>g, <3>1, <3>2 DEF GoesTo, StagingInv, StagingType
      <3>4. \A d \in stager[s].of : ~Lives(d)
        <4> SUFFICES ASSUME NEW d \in stager[s].of, Lives(d)
                     PROVE  FALSE
          OBVIOUS
        <4>1. d \in Stagers /\ d # s
          BY <1>0, <2>1
        <4>2. stager[s].file = stager[d].file /\ stager[d].file \in held[d]
          BY <1>3, <4>1 DEF TryLock, StagingInv, Stands, Sweeps
        <4> QED
          BY <2>3, <4>1, <4>2 DEF LockedByOther
      <3>5. ASSUME NEW t \in Stagers PROVE Stands(t)'
        BY <3>g, <2>1, <3>1, <3>2 DEF GoesTo, StagingInv, Stands
      <3>6. ASSUME NEW t \in Stagers, NEW d \in Stagers PROVE Sweeps(t, d)'
        BY <3>g, <2>1, <3>1, <3>4, <1>3 DEF GoesTo, TryLock, StagingInv, Sweeps
      <3> QED
        BY <3>3, <3>5, <3>6 DEF StagingInv
    <2> QED
      BY <2>2, <2>3
  <1>4. ASSUME NEW s \in Stagers, RemoveDir(s)
        PROVE  StagingInv'
    <2>1. PICK at \in {"unlink", "sweep"} : Goes(s, at)
      BY <1>4 DEF RemoveDir
    <2>2. ~Named(s) /\ stager[s].at = "remove" /\ dirs' = dirs \ stager[s].of
          /\ UNCHANGED lockFiles
      BY <1>4 DEF RemoveDir, StagingInv, Stands
    <2>3. /\ held' \in [Stagers -> SUBSET Nat]
          /\ \A t \in Stagers \ {s} : held'[t] = held[t]
          /\ \A t \in Stagers : IsFiniteSet(held'[t])
      <3>1. held' = [held EXCEPT ![s] = @ \ {stager[s].file}]
        BY <1>4 DEF RemoveDir
      <3>2. held \in [Stagers -> SUBSET Nat] /\ \A t \in Stagers : IsFiniteSet(held[t])
        BY DEF StagingInv, StagingType
      <3>3. IsFiniteSet(held[s] \ {stager[s].file})
        BY <3>2, FS_RemoveElement
      <3> QED
        BY <3>1, <3>2, <3>3
    <2>g. GoesTo(s, at)
      BY <1>g, <2>1
    <2>4. StagingType'
      BY <2>g, <2>1, <2>2, <2>3 DEF GoesTo, StagingInv, StagingType
    <2>5. \A d \in stager[s].of : ~Lives(d)
      BY <1>0, <2>2 DEF StagingInv, Sweeps
    <2>6. ASSUME NEW t \in Stagers PROVE Stands(t)'
      BY <2>g, <2>1, <2>2, <2>3, <2>5 DEF GoesTo, StagingInv, Stands
    <2>7. ASSUME NEW t \in Stagers, NEW d \in Stagers PROVE Sweeps(t, d)'
      BY <2>g, <2>1, <2>2, <2>5 DEF GoesTo, StagingInv, Sweeps
    <2> QED
      BY <2>4, <2>6, <2>7 DEF StagingInv
  <1>5. ASSUME NEW s \in Stagers, Unlink(s)
        PROVE  StagingInv'
    <2>1. ~Named(s) /\ stager[s].at = "unlink" /\ Goes(s, "sweep") /\ UNCHANGED <<dirs, held>>
      BY <1>5 DEF Unlink, StagingInv, Stands
    <2>2. /\ lockFiles' \in [Stagers -> Nat]
          /\ \A t \in Stagers \ stager[s].of : lockFiles'[t] = lockFiles[t]
      BY <1>5 DEF Unlink, StagingInv, StagingType
    <2>g. GoesTo(s, "sweep")
      BY <1>g, <2>1
    <2>3. StagingType'
      BY <2>g, <2>1, <2>2 DEF GoesTo, StagingInv, StagingType
    <2>4. \A d \in stager[s].of : HadDir(d) /\ ~Lives(d)
      BY <1>0, <2>1 DEF StagingInv, Sweeps
    <2>5. \A d \in stager[s].of : ~Named(d)
      BY <1>0, <2>4 DEF StagingInv, Stands
    <2>6. ASSUME NEW t \in Stagers PROVE Stands(t)'
      BY <2>g, <2>1, <2>2, <2>5 DEF GoesTo, StagingInv, Stands
    <2>7. ASSUME NEW t \in Stagers, NEW d \in Stagers PROVE Sweeps(t, d)'
      BY <2>g, <2>1 DEF GoesTo, StagingInv, Sweeps
    <2> QED
      BY <2>3, <2>6, <2>7 DEF StagingInv
  <1>6. ASSUME NEW s \in Stagers, OpenStep(s)
        PROVE  StagingInv'
    <2>1. /\ stager[s].at = "sweep" /\ stager[s].todo = {}
          /\ stager[s].made \in {0, 1, 2}
      <3>1. stager[s].made \in 0 .. 3
        BY <1>0 DEF StagerType
      <3>2. /\ stager[s].at = "sweep" /\ stager[s].todo = {}
            /\ stager[s].made < 3
        BY <1>6 DEF OpenStep, Opening
      <3> QED
        BY <3>1, <3>2
    <2>n. ASSUME NEW made \in 1 .. 3, NEW file \in Nat,
                 stager' = [stager EXCEPT ![s].made = made, ![s].file = file]
          PROVE  OpensTo(s, made, file)
      <3> DEFINE makes == [stager[s] EXCEPT !.made = made]
                 to == [makes EXCEPT !.file = file]
      <3>1. /\ to \in StagerType /\ to.at = "sweep" /\ to.todo = {}
            /\ to.made = made /\ to.file = file
        <4>1. made \in 0 .. 3
          OBVIOUS
        <4>2. /\ makes \in StagerType /\ makes.at = "sweep" /\ makes.todo = {}
              /\ makes.made = made
          BY <1>0, <2>1, <4>1 DEF StagerType
        <4> HIDE DEF makes
        <4> QED
          BY <4>2 DEF StagerType
      <3>2. stager' = [stager EXCEPT ![s] = to]
        BY <2>n DEF StagingInv, StagingType
      <3> QED
        BY <3>1, <3>2, Moves DEF StagingInv, OpensTo
    <2>2. CASE stager[s].made = 0
      <3>1. /\ lockFiles' = [lockFiles EXCEPT ![s] = NewFile]
            /\ stager' = [stager EXCEPT ![s].made = 1, ![s].file = NewFile]
            /\ UNCHANGED <<dirs, held>>
        BY <1>6, <2>2 DEF OpenStep, Opening
      <3>2. NewFile \in Nat \ {0}
        BY NewFileIsNew DEF StagingInv
      <3>3. OpensTo(s, 1, NewFile)
        <4>1. 1 \in 1 .. 3
          OBVIOUS
        <4> QED
          BY <2>n, <3>1, <3>2, <4>1
      <3>4. /\ lockFiles' \in [Stagers -> Nat] /\ lockFiles'[s] = NewFile
            /\ \A t \in Stagers \ {s} : lockFiles'[t] = lockFiles[t]
        BY <3>1, <3>2 DEF StagingInv, StagingType
      <3>5. StagingType'
        BY <3>1, <3>3, <3>4 DEF OpensTo, StagingInv, StagingType
      <3>6. ASSUME NEW t \in Stagers PROVE Stands(t)'
        BY <2>1, <2>2, <3>1, <3>2, <3>3, <3>4 DEF OpensTo, StagingInv, Stands
      <3>7. ASSUME NEW t \in Stagers, NEW d \in Stagers PROVE Sweeps(t, d)'
        BY <2>1, <2>2, <3>1, <3>3 DEF OpensTo, StagingInv, Sweeps
      <3> QED
        BY <3>5, <3>6, <3>7 DEF StagingInv
    <2>3. CASE stager[s].made = 1
      <3>1. /\ held' = [held EXCEPT ![s] = @ \cup {stager[s].file}]
            /\ stager' = [stager EXCEPT ![s].made = 2]
            /\ UNCHANGED <<dirs, lockFiles>>
        BY <1>6, <2>3 DEF OpenStep, Opening
      <3>2. stager' = [stager EXCEPT ![s].made = 2, ![s].file = stager[s].file]
        BY <1>0, <3>1 DEF StagingInv, StagingType, StagerType
      <3>3. OpensTo(s, 2, stager[s].file)
        <4>1. 2 \in 1 .. 3 /\ stager[s].file \in Nat
          BY <1>0 DEF StagerType
        <4> QED
          BY <2>n, <3>2, <4>1
      <3>4. /\ held' \in [Stagers -> SUBSET Nat] /\ stager[s].file \in held'[s]
            /\ \A t \in Stagers : held[t] \subseteq held'[t]
            /\ \A t \in Stagers : IsFiniteSet(held'[t])
        <4>1. /\ held \in [Stagers -> SUBSET Nat] /\ \A t \in Stagers : IsFiniteSet(held[t])
              /\ stager[s].file \in Nat
          BY <1>0 DEF StagingInv, StagingType, StagerType
        <4>2. IsFiniteSet(held[s] \cup {stager[s].file})
          BY <4>1, FS_AddElement
        <4> QED
          BY <3>1, <4>1, <4>2
      <3>5. StagingType'
        BY <3>1, <3>3, <3>4 DEF OpensTo, StagingInv, StagingType
      <3>6. ASSUME NEW t \in Stagers PROVE Stands(t)'
        BY <2>1, <2>3, <3>1, <3>3, <3>4 DEF OpensTo, StagingInv, Stands
      <3>7. ASSUME NEW t \in Stagers, NEW d \in Stagers PROVE Sweeps(t, d)'
        BY <2>1, <2>3, <3>1, <3>3 DEF OpensTo, StagingInv, Sweeps
      <3> QED
        BY <3>5, <3>6, <3>7 DEF StagingInv
    <2>4. CASE stager[s].made = 2
      <3>1. /\ dirs' = dirs \cup {s}
            /\ stager' = [stager EXCEPT ![s].made = 3]
            /\ UNCHANGED <<lockFiles, held>>
        BY <1>6, <2>4 DEF OpenStep, Opening
      <3>2. stager' = [stager EXCEPT ![s].made = 3, ![s].file = stager[s].file]
        BY <1>0, <3>1 DEF StagingInv, StagingType, StagerType
      <3>3. OpensTo(s, 3, stager[s].file)
        <4>1. 3 \in 1 .. 3 /\ stager[s].file \in Nat
          BY <1>0 DEF StagerType
        <4> QED
          BY <2>n, <3>2, <4>1
      <3>4. StagingType' /\ ~HadDir(s)
        BY <2>1, <2>4, <3>1, <3>3 DEF OpensTo, StagingInv, StagingType
      <3>5. ASSUME NEW t \in Stagers PROVE Stands(t)'
        BY <2>1, <2>4, <3>1, <3>3 DEF OpensTo, StagingInv, Stands
      <3>6. ASSUME NEW t \in Stagers, NEW d \in Stagers PROVE Sweeps(t, d)'
        BY <2>1, <2>4, <3>1, <3>3, <3>4 DEF OpensTo, StagingInv, Sweeps
      <3> QED
        BY <3>4, <3>5, <3>6 DEF StagingInv
    <2> QED
      BY <2>1, <2>2, <2>3, <2>4
  <1>7. ASSUME NEW s \in Stagers, Opened(s) \/ Leave(s)
        PROVE  StagingInv'
    <2>1. /\ Lives(s) /\ stager[s].at \in {"sweep", "staging"} /\ UNCHANGED <<lockFiles, held>>
      BY <1>7 DEF Opened, Leave, Opening, StagingInv, Stands
    <2>2. CASE Goes(s, "staging") /\ dirs' = dirs
      <3>g. GoesTo(s, "staging")
        BY <1>g, <2>2
      <3>1. StagingType'
        BY <3>g, <2>1, <2>2 DEF GoesTo, StagingInv, StagingType
      <3>2. ASSUME NEW t \in Stagers PROVE Stands(t)'
        BY <3>g, <2>1, <2>2 DEF GoesTo, StagingInv, Stands
      <3>3. ASSUME NEW t \in Stagers, NEW d \in Stagers PROVE Sweeps(t, d)'
        BY <3>g, <2>1, <2>2 DEF GoesTo, StagingInv, Sweeps
      <3> QED
        BY <3>1, <3>2, <3>3 DEF StagingInv
    <2>3. CASE Goes(s, "left") /\ dirs' = dirs \ {s}
      <3>g. GoesTo(s, "left")
        BY <1>g, <2>3
      <3>1. StagingType'
        BY <3>g, <2>1, <2>3 DEF GoesTo, StagingInv, StagingType
      <3>2. ASSUME NEW t \in Stagers PROVE Stands(t)'
        BY <3>g, <2>1, <2>3 DEF GoesTo, StagingInv, Stands
      <3>3. ASSUME NEW t \in Stagers, NEW d \in Stagers PROVE Sweeps(t, d)'
        BY <3>g, <2>1, <2>3 DEF GoesTo, StagingInv, Sweeps
      <3> QED
        BY <3>1, <3>2, <3>3 DEF StagingInv
    <2> QED
      BY <1>7, <2>2, <2>3 DEF Opened, Leave
  <1>8. ASSUME NEW s \in Stagers, Unname(s) \/ Killed(s)
        PROVE  StagingInv'
    <2> DEFINE to == [Nobody EXCEPT !.at = "gone"]
    <2>1. /\ stager' = [stager EXCEPT ![s] = to]
          /\ held' = [held EXCEPT ![s] = {}]
          /\ lockFiles' \in {lockFiles, [lockFiles EXCEPT ![s] = 0]}
          /\ dirs' = dirs
      BY <1>8 DEF Unname, Killed
    <2>2. /\ to \in StagerType /\ to.at = "gone" /\ to.todo = {} /\ to.of = {} /\ to.made = 0
      BY DEF Nobody, StagerType
    <2>3. /\ stager' \in [Stagers -> StagerType] /\ stager'[s] = to
          /\ \A t \in Stagers \ {s} : stager'[t] = stager[t]
      BY <2>1, <2>2, Moves DEF StagingInv
    <2>4. /\ held' \in [Stagers -> SUBSET Nat] /\ lockFiles' \in [Stagers -> Nat]
          /\ \A t \in Stagers \ {s} : held'[t] = held[t] /\ lockFiles'[t] = lockFiles[t]
          /\ \A t \in Stagers : IsFiniteSet(held'[t])
      BY <2>1, FS_EmptySet DEF StagingInv, StagingType
    <2>5. StagingType'
      BY <2>1, <2>3, <2>4 DEF StagingInv, StagingType
    <2>6. ASSUME NEW t \in Stagers PROVE Stands(t)'
      BY <2>1, <2>2, <2>3, <2>4 DEF StagingInv, Stands
    <2>7. ASSUME NEW t \in Stagers, NEW d \in Stagers PROVE Sweeps(t, d)'
      <3> HIDE DEF to
      <3>1. stager'[d].at = IF d = s THEN "gone" ELSE stager[d].at
        BY <2>2, <2>3
      <3>2. stager'[d].made = IF d = s THEN 0 ELSE stager[d].made
        BY <2>2, <2>3
      <3>3. d # s => stager'[d] = stager[d]
        BY <2>3
      <3>4. CASE t = s
        BY <2>2, <2>3, <3>4 DEF Sweeps
      <3>5. CASE t # s
        <4>1. stager'[t] = stager[t] /\ Sweeps(t, d)
          BY <2>3, <3>5 DEF StagingInv
        <4> QED
          BY <3>1, <3>2, <3>3, <4>1 DEF Sweeps
      <3> QED
        BY <3>4, <3>5
    <2> QED
      BY <2>5, <2>6, <2>7 DEF StagingInv
  <1>9. CASE UNCHANGED stagingVars
    BY <1>9 DEF stagingVars, StagingInv, StagingType, Stands, Sweeps
  <1> QED
    BY <1>1, <1>2, <1>3, <1>4, <1>5, <1>6, <1>7, <1>8, <1>9 DEF StagingNext

\* A live run's directory stands from its opening to the run's end,
\* whatever the sweeps, the ends and the kills of other runs.
THEOREM LiveDirectoryKept == StagingSpec => []LiveDirectoryStands
  <1>1. StagingInit => StagingInv
    BY FS_EmptySet DEF StagingInit, StagingInv, StagingType, StagerType, StagerSteps, Nobody,
       Stands, Sweeps, HadDir, Lives, Named
  <1>2. StagingInv => LiveDirectoryStands
    BY DEF StagingInv, Stands, LiveDirectoryStands, Named, Lives
  <1> QED
    BY <1>1, <1>2, StagingStep, PTL DEF StagingSpec

-----------------------------------------------------------------------------
(***************************************************************************)
(* The HTTP client.  What may be sent is decided by what was sent and      *)
(* counted and by where the call stands: a call that waits to send again   *)
(* has a send left, and is one that may.                                   *)
(***************************************************************************)
SentAsCounted(t) ==
    /\ shape[t].entry = "once" \/ ~shape[t].read =>
         /\ sent[t] <= 1 /\ pc[t] \notin {"waiting", "pausing"}
         /\ pc[t] = "send" => sent[t] = 0
    /\ shape[t].entry # "once" =>
         /\ sent[t] = sends[t] /\ sent[t] <= ReadAttempts
         /\ pc[t] \in {"send", "waiting", "pausing"} => More(t)

SendsInv == TypeOK /\ \A t \in Calls : SentAsCounted(t)

(***************************************************************************)
(* The gate.  Under HTTP/2 a connection that carried a request stood in    *)
(* the pool, and what put it there took every request from the connect it  *)
(* waited on: since then the gate's own error reaches none.                *)
(***************************************************************************)
Gated == {"queued", "unlocked", "enabled", "awaiting"}
PastLock == {"unlocked", "enabled", "awaiting", "direct", "opened"}
Carried == http2 /\ (pool \/ gate.answered \/ \E t \in Calls : pc[t] = "head")

GateState ==
    /\ gate.first = gate.settled
    /\ gate.h2 => http2 /\ gate.settled
    /\ gate.answered => gate.h2
    /\ gate.notifies => gate.answered
    /\ http2 => idle = 0
    /\ ~http2 => ~pool /\ history.opened = 0
    /\ Carried => gate.settled
ConnectStands(c) ==
    /\ connect[c] \in PastLock => gate.settled
    /\ connect[c] = "opened" => http2
    /\ connect[c] = "first" => gate.holder = c /\ ~gate.first
    /\ Carried /\ connect[c] \in Gated => waits[c] = NoCall
    /\ connect[c] \in {"enabled", "awaiting"} /\ c \notin listeners => gate.answered
    /\ connect[c] = "awaiting" /\ c \in listeners /\ gate.answered => gate.notifies
HandshakesCounted ==
    ~history.excused /\ http2 =>
        /\ \A c \in Connects : connect[c] # "direct"
        /\ gate.settled => gate.h2
        /\ history.opened <= IF gate.settled THEN 1 ELSE 0

GateInv ==
    /\ GateNeverRefuses /\ GateState /\ HandshakesCounted
    /\ \A c \in Connects : ConnectStands(c)

\* What `resend_read` reads is a read.
LEMMA ResentIsRead ==
  ASSUME NEW s \in Shapes, s.entry = "resent"
  PROVE  s.read
  <1>1. \A r \in RequestsOf(RawCalls) \ {HeadVerb} : r.verb \in {"GET", "HEAD"}
    BY DEF RequestsOf, RawCalls, Get, HeadVerb
  <1>2. \A r : Shape(r, "bounded").entry = "bounded" /\ Shape(r, "once").entry = "once"
    BY DEF Shape
  <1>3. PICK r \in RequestsOf(RawCalls) \ {HeadVerb} : s = Shape(r, "resent")
    BY <1>2 DEF Shapes
  <1>4. s.read = (r.verb \in {"GET", "HEAD"})
    BY <1>3 DEF Shape
  <1> QED
    BY <1>1, <1>3, <1>4

\* The end of a call: it is done, or its read is to be sent again.
LEMMA EndCounts ==
  ASSUME SendsInv, NEW t \in Calls, NEW result, Ends(t, result), UNCHANGED counts
  PROVE  /\ pc' \in [Calls -> {"send", "connecting", "head", "waiting", "body",
                               "refusal", "pausing", "done"}]
         /\ alive' \in [Calls -> BOOLEAN]
         /\ \A u \in Calls : SentAsCounted(u)'
  <1>1. PICK again \in {"pausing", "done"} :
              /\ again = "pausing" => Resendable(t, result)
              /\ pc' = [pc EXCEPT ![t] = again]
    BY DEF Ends
  <1>2. again = "pausing" => shape[t].entry = "resent" /\ shape[t].read /\ More(t)
    BY <1>1, ResentIsRead DEF Resendable, SendsInv, TypeOK
  <1>3. \A u \in Calls : u # t => pc'[u] = pc[u]
    BY <1>1 DEF SendsInv, TypeOK
  <1>4. pc'[t] = again
    BY <1>1 DEF SendsInv, TypeOK
  <1>5. \A u \in Calls : SentAsCounted(u)'
    <2> SUFFICES ASSUME NEW u \in Calls PROVE SentAsCounted(u)'
      OBVIOUS
    <2>1. CASE u # t
      BY <1>3, <2>1 DEF SendsInv, SentAsCounted, counts, More
    <2>2. CASE u = t
      BY <1>2, <1>4, <2>2 DEF SendsInv, SentAsCounted, counts, More
    <2> QED
      BY <2>1, <2>2
  <1> QED
    BY <1>1, <1>5 DEF SendsInv, TypeOK, Ends

\* A step that leaves every call where it stands counts nothing.
LEMMA StandingCounts ==
  ASSUME SendsInv, UNCHANGED <<counts, pc>>
  PROVE  \A u \in Calls : SentAsCounted(u)'
  BY DEF SendsInv, SentAsCounted, counts, More

LEMMA SendCounts ==
  ASSUME SendsInv, NEW t \in Calls, NEW next \in {"head", "connecting"}, pc[t] = "send",
         sends' = [sends EXCEPT ![t] = Counted(t)], sent' = [sent EXCEPT ![t] = @ + 1],
         pc' = [pc EXCEPT ![t] = next], UNCHANGED shape
  PROVE  /\ sends' \in [Calls -> Nat] /\ sent' \in [Calls -> Nat]
         /\ \A u \in Calls : SentAsCounted(u)'
  <1>1. Counted(t) \in Nat /\ sent[t] + 1 \in Nat
    BY DEF Counted, SendsInv, TypeOK
  <1>2. sends' \in [Calls -> Nat] /\ sent' \in [Calls -> Nat]
    BY <1>1 DEF SendsInv, TypeOK
  <1>3. \A u \in Calls : SentAsCounted(u)'
    <2> SUFFICES ASSUME NEW u \in Calls PROVE SentAsCounted(u)'
      OBVIOUS
    <2>1. CASE u # t
      <3>1. sends'[u] = sends[u] /\ sent'[u] = sent[u] /\ pc'[u] = pc[u]
        BY <2>1 DEF SendsInv, TypeOK
      <3> QED
        BY <3>1 DEF SendsInv, SentAsCounted, More
    <2>2. CASE u = t
      <3>1. sends'[t] = Counted(t) /\ sent'[t] = sent[t] + 1 /\ pc'[t] = next
        BY DEF SendsInv, TypeOK
      <3>2. SentAsCounted(t) /\ sends[t] \in Nat /\ sent[t] \in Nat /\ ReadAttempts \in Nat \ {0}
        BY AttemptsAssumption DEF SendsInv, TypeOK
      <3> QED
        BY <2>2, <3>1, <3>2 DEF SentAsCounted, More, Counted
    <2> QED
      BY <2>1, <2>2
  <1> QED
    BY <1>2, <1>3

\* A call that goes on to a place where nothing is to be sent.
LEMMA MoveCounts ==
  ASSUME SendsInv, UNCHANGED counts, NEW moves \in SUBSET Calls, NEW to \in {"head", "body", "refusal"},
         pc' = [t \in Calls |-> IF t \in moves THEN to ELSE pc[t]]
  PROVE  \A u \in Calls : SentAsCounted(u)'
  BY DEF SendsInv, SentAsCounted, counts, More

LEMMA SendsStep == SendsInv /\ [Next]_vars => SendsInv'
  <1> SUFFICES ASSUME SendsInv, [Next]_vars PROVE SendsInv'
    OBVIOUS
  <1> DEFINE states == {"send", "connecting", "head", "waiting", "body", "refusal", "pausing", "done"}
             places == {"none", "queued", "first", "unlocked", "enabled", "awaiting", "direct", "opened"}
  <1>0. TypeOK /\ NoCall \notin Calls \cup Connects
    BY NoCallAssumption DEF SendsInv
  <1>1. ASSUME NEW t \in Calls, SendPooled(t) PROVE SendsInv'
    <2>1. idle' \in Nat
      BY <1>0, <1>1 DEF SendPooled, TypeOK
    <2>2. \A u \in Calls : SentAsCounted(u)'
      BY <1>1, SendCounts DEF SendPooled
    <2>3. sends' \in [Calls -> Nat] /\ sent' \in [Calls -> Nat]
      BY <1>1, SendCounts DEF SendPooled
    <2> QED
      BY <1>0, <1>1, <2>1, <2>2, <2>3 DEF SendPooled, SendsInv, TypeOK
  <1>2. ASSUME NEW t \in Calls, SendConnecting(t) PROVE SendsInv'
    <2>1. PICK c \in Connects : /\ connect' = [connect EXCEPT ![c] = Entry]
                                /\ waits' = [waits EXCEPT ![c] = t]
      <3>1. (CHOOSE x \in FreeConnects : TRUE) \in Connects
        BY <1>2 DEF SendConnecting, FreeConnects
      <3> QED
        BY <1>2, <3>1 DEF SendConnecting
    <2>2. \A u \in Calls : SentAsCounted(u)'
      BY <1>2, SendCounts DEF SendConnecting
    <2>3. sends' \in [Calls -> Nat] /\ sent' \in [Calls -> Nat]
      BY <1>2, SendCounts DEF SendConnecting
    <2>4. connect' \in [Connects -> places] /\ waits' \in [Connects -> Calls \cup {NoCall}]
      BY <1>0, <2>1 DEF TypeOK, Entry
    <2>5. history' \in [opened : Nat, excused : BOOLEAN, refused : BOOLEAN]
      BY <1>0, <1>2 DEF SendConnecting, TypeOK
    <2> QED
      BY <1>0, <1>2, <2>2, <2>3, <2>4, <2>5 DEF SendConnecting, SendsInv, TypeOK
  <1>3. ASSUME NEW t \in Calls, ConnectDeadline(t) PROVE SendsInv'
    <2>1. /\ pc' \in [Calls -> states] /\ alive' \in [Calls -> BOOLEAN]
          /\ \A u \in Calls : SentAsCounted(u)'
      BY <1>3, EndCounts DEF ConnectDeadline
    <2>2. connect' \in [Connects -> places] /\ waits' \in [Connects -> Calls \cup {NoCall}]
      BY <1>0, <1>3 DEF ConnectDeadline, DropConnects, TypeOK
    <2>3. /\ listeners' \subseteq Connects /\ gate'.holder \in Connects \cup {NoCall}
          /\ gate' = [gate EXCEPT !.holder = gate'.holder]
      BY <1>0, <1>3 DEF ConnectDeadline, DropConnects, TypeOK
    <2>4. gate' \in [holder : Connects \cup {NoCall}, first : BOOLEAN, settled : BOOLEAN,
                     h2 : BOOLEAN, answered : BOOLEAN, notifies : BOOLEAN]
      BY <1>0, <2>3 DEF TypeOK
    <2>5. history' \in [opened : Nat, excused : BOOLEAN, refused : BOOLEAN]
      BY <1>0, <1>3 DEF ConnectDeadline, TypeOK
    <2> QED
      BY <1>0, <1>3, <2>1, <2>2, <2>3, <2>4, <2>5 DEF ConnectDeadline, SendsInv, TypeOK, counts
  <1>4. ASSUME NEW t \in Calls, HeadLost(t) \/ BodyLost(t) \/ BodyWhole(t) PROVE SendsInv'
    <2>1. UNCHANGED counts /\ \E result : Ends(t, result)
      BY <1>4 DEF HeadLost, BodyLost, BodyWhole
    <2>2. /\ pc' \in [Calls -> states] /\ alive' \in [Calls -> BOOLEAN]
          /\ \A u \in Calls : SentAsCounted(u)'
      BY <2>1, EndCounts
    <2>3. idle' \in Nat
      BY <1>0, <1>4 DEF HeadLost, BodyLost, BodyWhole, connVars, TypeOK
    <2> QED
      BY <1>0, <1>4, <2>2, <2>3 DEF HeadLost, BodyLost, BodyWhole, counts, connVars, SendsInv, TypeOK
  <1>5. ASSUME NEW t \in Calls, HeadArrives(t) PROVE SendsInv'
    <2>1. /\ pc' \in [Calls -> states] /\ alive' \in [Calls -> BOOLEAN]
          /\ \A u \in Calls : SentAsCounted(u)'
      <3> PICK status \in {"busy", "auth", "refusal", "body"} :
            IF status = "busy" /\ Retries(t)
              THEN /\ pc' = [pc EXCEPT ![t] = "waiting"]
                   /\ alive' = [alive EXCEPT ![t] = FALSE]
            ELSE IF status = "auth"
              THEN Ends(t, "refused")
            ELSE IF shape[t].bodyless
              THEN Ends(t, IF status = "body" THEN "answered" ELSE "refused")
            ELSE /\ pc' = [pc EXCEPT ![t] = IF status = "body" THEN "body" ELSE "refusal"]
                 /\ UNCHANGED alive
        BY <1>5 DEF HeadArrives
      <3>0. UNCHANGED counts
        BY <1>5 DEF HeadArrives
      <3>1. CASE status = "busy" /\ Retries(t)
        <4>1. pc' = [pc EXCEPT ![t] = "waiting"] /\ alive' = [alive EXCEPT ![t] = FALSE]
          BY <3>1
        <4>2. \A u \in Calls : SentAsCounted(u)'
          BY <1>0, <3>0, <3>1, <4>1 DEF SendsInv, SentAsCounted, counts, More, Retries, TypeOK
        <4> QED
          BY <1>0, <4>1, <4>2 DEF TypeOK
      <3>2. CASE \E result : Ends(t, result)
        BY <3>0, <3>2, EndCounts
      <3>3. CASE \E to \in {"body", "refusal"} : pc' = [pc EXCEPT ![t] = to] /\ UNCHANGED alive
        <4> PICK to \in {"body", "refusal"} : pc' = [pc EXCEPT ![t] = to] /\ UNCHANGED alive
          BY <3>3
        <4>1. pc' = [u \in Calls |-> IF u \in {t} THEN to ELSE pc[u]]
          BY <1>0 DEF TypeOK
        <4>2. to \in {"head", "body", "refusal"} /\ {t} \in SUBSET Calls
          BY <1>5
        <4>3. \A u \in Calls : SentAsCounted(u)'
          BY <3>0, <4>1, <4>2, MoveCounts
        <4> QED
          BY <1>0, <4>3 DEF TypeOK
      <3> QED
        BY <3>1, <3>2, <3>3
    <2>2. gate' \in [holder : Connects \cup {NoCall}, first : BOOLEAN, settled : BOOLEAN,
                     h2 : BOOLEAN, answered : BOOLEAN, notifies : BOOLEAN]
      BY <1>0, <1>5 DEF HeadArrives, Swap, TypeOK
    <2> QED
      BY <1>0, <1>5, <2>1, <2>2 DEF HeadArrives, counts, SendsInv, TypeOK
  <1>6. ASSUME NEW t \in Calls, RetryAfterPasses(t) \/ Resend(t) PROVE SendsInv'
    <2>1. /\ pc[t] \in {"waiting", "pausing"} /\ pc' = [pc EXCEPT ![t] = "send"]
          /\ UNCHANGED <<counts, alive, connVars, http2, cuts, history>>
      BY <1>6 DEF RetryAfterPasses, Resend
    <2>2. \A u \in Calls : SentAsCounted(u)'
      BY <1>0, <2>1 DEF SendsInv, SentAsCounted, counts, More, TypeOK
    <2> QED
      BY <1>0, <2>1, <2>2 DEF counts, connVars, SendsInv, TypeOK
  <1>7. ASSUME NEW c \in Connects, TakeLock(c) \/ Listen(c) PROVE SendsInv'
    <2>1. /\ UNCHANGED <<callVars, waits, pool, idle, http2, cuts, history>>
          /\ connect' \in [Connects -> places] /\ listeners' \subseteq Connects
      BY <1>0, <1>7 DEF TakeLock, Listen, TypeOK
    <2>2. gate' \in [holder : Connects \cup {NoCall}, first : BOOLEAN, settled : BOOLEAN,
                     h2 : BOOLEAN, answered : BOOLEAN, notifies : BOOLEAN]
      BY <1>0, <1>7 DEF TakeLock, Listen, TypeOK
    <2>3. \A u \in Calls : SentAsCounted(u)'
      BY <2>1, StandingCounts DEF callVars
    <2> QED
      BY <1>0, <2>1, <2>2, <2>3 DEF callVars, counts, SendsInv, TypeOK
  <1>8. ASSUME NEW c \in Connects, GateEnds(c) PROVE SendsInv'
    <2>1. /\ connect' \in [Connects -> places] /\ waits' \in [Connects -> Calls \cup {NoCall}]
          /\ listeners' \subseteq Connects /\ UNCHANGED <<counts, gate, pool, idle, http2, cuts>>
          /\ history' \in [opened : Nat, excused : BOOLEAN, refused : BOOLEAN]
      BY <1>0, <1>8 DEF GateEnds, TypeOK
    <2>2. /\ pc' \in [Calls -> states] /\ alive' \in [Calls -> BOOLEAN]
          /\ \A u \in Calls : SentAsCounted(u)'
      <3>1. CASE waits[c] \in Calls
        BY <1>8, <2>1, <3>1, EndCounts DEF GateEnds
      <3>2. CASE waits[c] \notin Calls
        <4>1. UNCHANGED <<counts, pc>> /\ alive' = alive
          BY <1>8, <3>2 DEF GateEnds
        <4> QED
          BY <1>0, <4>1, StandingCounts DEF TypeOK
      <3> QED
        BY <3>1, <3>2
    <2> QED
      BY <1>0, <2>1, <2>2 DEF counts, SendsInv, TypeOK
  <1>9. ASSUME NEW c \in Connects, CheckAnswered(c) \/ Notified(c) PROVE SendsInv'
    <2>1. CASE GateEnds(c)
      BY <1>8, <2>1
    <2>2. CASE ~GateEnds(c)
      <3>1. /\ connect' = [connect EXCEPT ![c] = "awaiting"]
            /\ UNCHANGED <<callVars, waits, gate, listeners, pool, idle, http2, cuts, history>>
        BY <1>9, <2>2 DEF CheckAnswered, Notified
      <3>2. \A u \in Calls : SentAsCounted(u)'
        BY <3>1, StandingCounts DEF callVars
      <3> QED
        BY <1>0, <3>1, <3>2 DEF callVars, counts, SendsInv, TypeOK
    <2> QED
      BY <2>1, <2>2
  <1>10. ASSUME NEW c \in Connects, GateDeadline(c) PROVE SendsInv'
    <2>1. /\ connect' \in [Connects -> places] /\ listeners' \subseteq Connects
          /\ history' \in [opened : Nat, excused : BOOLEAN, refused : BOOLEAN]
          /\ UNCHANGED <<callVars, waits, gate, pool, idle, http2, cuts>>
      BY <1>0, <1>10 DEF GateDeadline, TypeOK
    <2>2. \A u \in Calls : SentAsCounted(u)'
      BY <2>1, StandingCounts DEF callVars
    <2> QED
      BY <1>0, <2>1, <2>2 DEF callVars, counts, SendsInv, TypeOK
  <1>11. \A c : GateAfter(c) \in [holder : Connects \cup {NoCall}, first : BOOLEAN,
                     settled : BOOLEAN, h2 : BOOLEAN, answered : BOOLEAN, notifies : BOOLEAN]
    BY <1>0 DEF GateAfter, Settle, TypeOK
  <1>12. ASSUME NEW c \in Connects, OpenHttp2(c) PROVE SendsInv'
    <2>1. /\ connect' \in [Connects -> places]
          /\ history' \in [opened : Nat, excused : BOOLEAN, refused : BOOLEAN]
      BY <1>0, <1>12 DEF OpenHttp2, TypeOK
    <2>2. \A u \in Calls : SentAsCounted(u)'
      BY <1>12, StandingCounts DEF OpenHttp2, callVars
    <2> QED
      BY <1>0, <1>11, <1>12, <2>1, <2>2 DEF OpenHttp2, callVars, counts, SendsInv, TypeOK
  <1>13. ASSUME NEW c \in Connects, PoolHttp2(c) PROVE SendsInv'
    <2>1. \A u \in Calls : SentAsCounted(u)'
      <3>1. Waiting \in SUBSET Calls
        BY DEF Waiting
      <3> QED
        BY <1>13, <3>1, MoveCounts DEF PoolHttp2
    <2>2. /\ connect' \in [Connects -> places] /\ waits' \in [Connects -> Calls \cup {NoCall}]
          /\ pc' \in [Calls -> states] /\ alive' \in [Calls -> BOOLEAN]
      BY <1>0, <1>13 DEF PoolHttp2, TypeOK
    <2> QED
      BY <1>0, <1>13, <2>1, <2>2 DEF PoolHttp2, counts, SendsInv, TypeOK
  <1>14. ASSUME NEW c \in Connects, OpenHttp1(c) PROVE SendsInv'
    <2>1. /\ connect' \in [Connects -> places] /\ waits' \in [Connects -> Calls \cup {NoCall}]
          /\ idle' \in Nat
      BY <1>0, <1>14 DEF OpenHttp1, TypeOK
    <2>2. /\ pc' \in [Calls -> states] /\ alive' \in [Calls -> BOOLEAN]
          /\ \A u \in Calls : SentAsCounted(u)'
      <3>1. CASE waits[c] \in Calls
        <4>1. /\ pc' = [pc EXCEPT ![waits[c]] = "head"] /\ alive' = [alive EXCEPT ![waits[c]] = TRUE]
              /\ UNCHANGED counts
          BY <1>14, <3>1 DEF OpenHttp1
        <4>2. pc' = [u \in Calls |-> IF u \in {waits[c]} THEN "head" ELSE pc[u]]
          BY <1>0, <4>1 DEF TypeOK
        <4>m. {waits[c]} \in SUBSET Calls
          BY <3>1
        <4>3. \A u \in Calls : SentAsCounted(u)'
          BY <4>1, <4>2, <4>m, MoveCounts
        <4> QED
          BY <1>0, <3>1, <4>1, <4>3 DEF TypeOK
      <3>2. CASE waits[c] \notin Calls
        <4>1. UNCHANGED <<counts, pc>> /\ alive' = alive
          BY <1>14, <3>2 DEF OpenHttp1
        <4> QED
          BY <1>0, <4>1, StandingCounts DEF TypeOK
      <3> QED
        BY <3>1, <3>2
    <2> QED
      BY <1>0, <1>11, <1>14, <2>1, <2>2 DEF OpenHttp1, counts, SendsInv, TypeOK
  <1>15. ASSUME NEW c \in Connects, ConnectFails(c) PROVE SendsInv'
    <2>1. /\ connect' \in [Connects -> places] /\ waits' \in [Connects -> Calls \cup {NoCall}]
          /\ history' \in [opened : Nat, excused : BOOLEAN, refused : BOOLEAN]
      BY <1>0, <1>15 DEF ConnectFails, TypeOK
    <2>2. /\ pc' \in [Calls -> states] /\ alive' \in [Calls -> BOOLEAN]
          /\ \A u \in Calls : SentAsCounted(u)'
      <3>1. CASE waits[c] \in Calls
        BY <1>15, <3>1, EndCounts DEF ConnectFails
      <3>2. CASE waits[c] \notin Calls
        <4>1. UNCHANGED <<counts, pc>> /\ alive' = alive
          BY <1>15, <3>2 DEF ConnectFails
        <4> QED
          BY <1>0, <4>1, StandingCounts DEF TypeOK
      <3> QED
        BY <3>1, <3>2
    <2>3. gate' \in [holder : Connects \cup {NoCall}, first : BOOLEAN, settled : BOOLEAN,
                     h2 : BOOLEAN, answered : BOOLEAN, notifies : BOOLEAN]
      <3>1. gate.h2 \in BOOLEAN
        BY <1>0 DEF TypeOK
      <3> QED
        BY <1>11, <1>15, <3>1 DEF ConnectFails
    <2> QED
      BY <1>0, <1>15, <2>1, <2>2, <2>3 DEF ConnectFails, counts, SendsInv, TypeOK
  <1>16. CASE Notify
    <2>1. \A u \in Calls : SentAsCounted(u)'
      BY <1>16, StandingCounts DEF Notify, callVars
    <2> QED
      BY <1>0, <1>16, <2>1 DEF Notify, callVars, counts, SendsInv, TypeOK
  <1>17. CASE Cut
    <2>1. \A u \in Calls : SentAsCounted(u)'
      BY <1>17, StandingCounts DEF Cut
    <2>2. cuts' \in 0 .. MaxCuts
      BY <1>0, <1>17, AttemptsAssumption DEF Cut, TypeOK
    <2>3. history' \in [opened : Nat, excused : BOOLEAN, refused : BOOLEAN]
      BY <1>0, <1>17 DEF Cut, TypeOK
    <2> QED
      BY <1>0, <1>17, <2>1, <2>2, <2>3 DEF Cut, counts, SendsInv, TypeOK
  <1>18. CASE UNCHANGED vars
    BY <1>18 DEF vars, callVars, connVars, counts, SendsInv, SentAsCounted, TypeOK, More
  <1> QED
    BY <1>1, <1>2, <1>3, <1>4, <1>5, <1>6, <1>7, <1>9, <1>10, <1>12, <1>13, <1>14, <1>15,
       <1>16, <1>17, <1>18
    DEF Next, CallStep, CallFails, ConnectStep

\* Where the gate, the connects and what was carried stand as they stood.
LEMMA GateStands ==
  ASSUME TypeOK, GateInv, Carried' => Carried, history'.opened = history.opened,
         history.excused => history'.excused, history'.refused = history.refused,
         UNCHANGED <<connect, waits, gate, listeners, http2>>,
         http2 => idle' = 0, ~http2 => ~pool'
  PROVE  GateInv'
  <1>1. history' \in [opened : Nat, excused : BOOLEAN, refused : BOOLEAN] => HandshakesCounted'
    BY DEF GateInv, HandshakesCounted, TypeOK
  <1>2. HandshakesCounted'
    BY DEF GateInv, HandshakesCounted, TypeOK
  <1>3. \A c \in Connects : ConnectStands(c)'
    BY DEF GateInv, ConnectStands
  <1> QED
    BY <1>2, <1>3 DEF GateInv, GateState, GateNeverRefuses

LEMMA GateStep == TypeOK /\ GateInv /\ [Next]_vars => GateInv'
  <1> SUFFICES ASSUME TypeOK, GateInv, [Next]_vars PROVE GateInv'
    OBVIOUS
  <1>0. NoCall \notin Calls \cup Connects
    BY NoCallAssumption
  <1>1. ASSUME NEW t \in Calls, SendPooled(t) PROVE GateInv'
    <2>1. Carried' => Carried
      BY <1>1 DEF SendPooled, Carried, GateInv, GateState, TypeOK
    <2> QED
      BY <1>1, <2>1, GateStands DEF SendPooled, GateInv, GateState
  <1>2. ASSUME NEW t \in Calls, SendConnecting(t) PROVE GateInv'
    <2>1. PICK c \in Connects : /\ connect[c] = "none"
                                /\ connect' = [connect EXCEPT ![c] = Entry]
                                /\ waits' = [waits EXCEPT ![c] = t]
      <3>1. (CHOOSE x \in FreeConnects : TRUE) \in FreeConnects
        BY <1>2 DEF SendConnecting
      <3> QED
        BY <1>2, <3>1 DEF SendConnecting, FreeConnects
    <2>2. Carried' => Carried
      BY <1>2 DEF SendConnecting, Carried, TypeOK
    <2>3. /\ UNCHANGED <<gate, listeners, http2, pool, idle>>
          /\ history'.opened = history.opened /\ history'.refused = history.refused
          /\ history'.excused = (history.excused \/ gate.settled)
      BY <1>2 DEF SendConnecting, TypeOK
    <2>4. /\ connect'[c] = (IF gate.settled THEN "direct" ELSE "queued")
          /\ \A x \in Connects \ {c} : connect'[x] = connect[x] /\ waits'[x] = waits[x]
      BY <2>1 DEF TypeOK, Entry
    <2>5. GateState'
      BY <2>2, <2>3 DEF GateInv, GateState
    <2>6. HandshakesCounted'
      BY <2>3, <2>4 DEF GateInv, HandshakesCounted, GateState, TypeOK
    <2>7. \A x \in Connects : ConnectStands(x)'
      <3> SUFFICES ASSUME NEW x \in Connects PROVE ConnectStands(x)'
        OBVIOUS
      <3>1. CASE x = c
        BY <2>2, <2>3, <2>4, <3>1 DEF GateInv, GateState, ConnectStands, Gated, PastLock
      <3>2. CASE x # c
        BY <2>2, <2>3, <2>4, <3>2 DEF GateInv, ConnectStands
      <3> QED
        BY <3>1, <3>2
    <2> QED
      BY <2>3, <2>5, <2>6, <2>7 DEF GateInv, GateNeverRefuses
  <1>3. ASSUME NEW t \in Calls, ConnectDeadline(t) PROVE GateInv'
    <2>1. Carried' => Carried
      BY <1>3 DEF ConnectDeadline, Ends, Carried, DropConnects, TypeOK
    <2>2. /\ gate'.first = gate.first /\ gate'.settled = gate.settled /\ gate'.h2 = gate.h2
          /\ gate'.answered = gate.answered /\ gate'.notifies = gate.notifies
          /\ gate'.holder = IF gate.holder \in Mine(t) THEN NoCall ELSE gate.holder
      BY <1>3 DEF ConnectDeadline, DropConnects, TypeOK
    <2>3. \A x \in Connects : x \in Mine(t) => connect'[x] = "none"
      BY <1>3 DEF ConnectDeadline, DropConnects
    <2>4. \A x \in Connects : x \notin Mine(t) => /\ connect'[x] = connect[x] /\ waits'[x] = waits[x]
                                                /\ (x \in listeners' <=> x \in listeners)
      BY <1>3 DEF ConnectDeadline, DropConnects
    <2>5. /\ UNCHANGED <<http2, pool, idle>> /\ history'.excused
          /\ history'.opened = history.opened /\ history'.refused = history.refused
      BY <1>3 DEF ConnectDeadline, TypeOK
    <2>6. \A x \in Connects : ConnectStands(x)'
      <3> SUFFICES ASSUME NEW x \in Connects PROVE ConnectStands(x)'
        OBVIOUS
      <3>1. CASE x \in Mine(t)
        BY <2>3, <3>1 DEF ConnectStands, Gated, PastLock
      <3>2. CASE x \notin Mine(t)
        BY <2>1, <2>2, <2>4, <2>5, <3>2 DEF GateInv, ConnectStands
      <3> QED
        BY <3>1, <3>2
    <2>7. GateState'
      BY <2>1, <2>2, <2>5 DEF GateInv, GateState
    <2> QED
      BY <2>5, <2>6, <2>7 DEF GateInv, GateNeverRefuses, HandshakesCounted
  <1>4. ASSUME NEW t \in Calls, HeadLost(t) \/ BodyLost(t) \/ BodyWhole(t) PROVE GateInv'
    <2>1. /\ UNCHANGED <<connect, waits, gate, listeners, pool, http2, history>>
          /\ \E result : Ends(t, result)
      BY <1>4 DEF HeadLost, BodyLost, BodyWhole, connVars
    <2>2. Carried' => Carried
      BY <2>1 DEF Ends, Carried, TypeOK
    <2>3. http2 => idle' = 0
      BY <1>4 DEF HeadLost, BodyLost, BodyWhole, connVars, GateInv, GateState
    <2> QED
      BY <2>1, <2>2, <2>3, GateStands DEF GateInv, GateState
  <1>5. ASSUME NEW t \in Calls, HeadArrives(t) PROVE GateInv'
    <2>1. UNCHANGED <<connect, waits, listeners, pool, idle, http2, history>> /\ pc[t] = "head"
      BY <1>5 DEF HeadArrives
    <2>2. \A u \in Calls : pc'[u] = "head" => pc[u] = "head"
      BY <1>5 DEF HeadArrives, Ends, TypeOK
    <2>3. CASE gate.h2 /\ ~gate.answered
      <3>1. gate' = [gate EXCEPT !.answered = TRUE, !.notifies = TRUE]
        BY <1>5, <2>3 DEF HeadArrives, Swap
      <3>2. /\ gate'.first = gate.first /\ gate'.settled = gate.settled /\ gate'.h2 = gate.h2
            /\ gate'.answered /\ gate'.notifies /\ gate'.holder = gate.holder
        BY <3>1 DEF TypeOK
      <3>3. Carried
        BY <2>1, <2>3 DEF GateInv, GateState, Carried
      <3>4. GateState'
        BY <2>1, <2>3, <3>2, <3>3 DEF GateInv, GateState
      <3>5. \A x \in Connects : ConnectStands(x)'
        BY <2>1, <3>2, <3>3 DEF GateInv, ConnectStands
      <3>6. HandshakesCounted'
        BY <2>1, <3>2 DEF GateInv, HandshakesCounted
      <3> QED
        BY <2>1, <3>4, <3>5, <3>6 DEF GateInv, GateNeverRefuses
    <2>4. CASE ~(gate.h2 /\ ~gate.answered)
      <3>1. gate' = gate
        BY <1>5, <2>4 DEF HeadArrives, Swap
      <3>2. Carried' => Carried
        BY <2>1, <2>2, <3>1 DEF Carried
      <3> QED
        BY <2>1, <3>1, <3>2, GateStands DEF GateInv, GateState
    <2> QED
      BY <2>3, <2>4
  <1>6. ASSUME NEW t \in Calls, RetryAfterPasses(t) \/ Resend(t) PROVE GateInv'
    <2>1. pc' = [pc EXCEPT ![t] = "send"] /\ UNCHANGED <<connVars, http2, history>>
      BY <1>6 DEF RetryAfterPasses, Resend
    <2>2. Carried' => Carried
      BY <2>1 DEF Carried, connVars, TypeOK
    <2> QED
      BY <2>1, <2>2, GateStands DEF connVars, GateInv, GateState
  <1>7. ASSUME NEW c \in Connects, TakeLock(c) PROVE GateInv'
    <2>1. /\ UNCHANGED <<callVars, waits, listeners, pool, idle, http2, cuts, history>>
          /\ connect[c] = "queued" /\ gate.holder = NoCall
      BY <1>7 DEF TakeLock
    <2>2. \A x \in Connects \ {c} : connect'[x] = connect[x] /\ connect[x] # "first"
      BY <1>0, <1>7 DEF TakeLock, GateInv, ConnectStands, TypeOK
    <2>3. /\ gate'.first = gate.first /\ gate'.settled = gate.settled /\ gate'.h2 = gate.h2
          /\ gate'.answered = gate.answered /\ gate'.notifies = gate.notifies
          /\ ~gate.first => gate'.holder = c
          /\ connect'[c] = IF gate.first THEN "unlocked" ELSE "first"
      BY <1>7 DEF TakeLock, TypeOK
    <2>4. Carried' => Carried
      BY <2>1, <2>3 DEF Carried, callVars
    <2>5. \A x \in Connects : ConnectStands(x)'
      <3> SUFFICES ASSUME NEW x \in Connects PROVE ConnectStands(x)'
        OBVIOUS
      <3>1. CASE x = c
        BY <2>1, <2>3, <2>4, <3>1 DEF GateInv, GateState, ConnectStands, Gated, PastLock
      <3>2. CASE x # c
        BY <2>1, <2>2, <2>3, <2>4, <3>2 DEF GateInv, ConnectStands
      <3> QED
        BY <3>1, <3>2
    <2>6. GateState'
      BY <2>1, <2>3, <2>4 DEF GateInv, GateState
    <2>7. HandshakesCounted'
      BY <2>1, <2>2, <2>3 DEF GateInv, HandshakesCounted
    <2> QED
      BY <2>1, <2>5, <2>6, <2>7 DEF GateInv, GateNeverRefuses
  <1>8. ASSUME NEW c \in Connects, Listen(c) PROVE GateInv'
    <2>1. /\ UNCHANGED <<callVars, waits, gate, pool, idle, http2, cuts, history>>
          /\ connect[c] = "unlocked"
      BY <1>8 DEF Listen
    <2>2. \A x \in Connects \ {c} : connect'[x] = connect[x] /\ (x \in listeners' <=> x \in listeners)
      BY <1>8 DEF Listen, TypeOK
    <2>3. /\ gate.h2 => connect'[c] = "enabled" /\ c \in listeners'
          /\ ~gate.h2 => connect'[c] = "direct"
      BY <1>8 DEF Listen, TypeOK
    <2>4. Carried' => Carried
      BY <2>1 DEF Carried, callVars
    <2>5. \A x \in Connects : ConnectStands(x)'
      <3> SUFFICES ASSUME NEW x \in Connects PROVE ConnectStands(x)'
        OBVIOUS
      <3>1. CASE x = c
        BY <2>1, <2>3, <2>4, <3>1 DEF GateInv, GateState, ConnectStands, Gated, PastLock, TypeOK
      <3>2. CASE x # c
        BY <2>1, <2>2, <2>4, <3>2 DEF GateInv, ConnectStands
      <3> QED
        BY <3>1, <3>2
    <2>6. GateState'
      BY <2>1, <2>4 DEF GateInv, GateState
    <2>7. HandshakesCounted'
      BY <2>1, <2>2, <2>3 DEF GateInv, HandshakesCounted, ConnectStands, PastLock, TypeOK
    <2> QED
      BY <2>1, <2>5, <2>6, <2>7 DEF GateInv, GateNeverRefuses
  <1>9. ASSUME NEW c \in Connects, GateEnds(c), connect[c] \in {"enabled", "awaiting"},
               gate.answered
        PROVE  GateInv'
    <2>1. waits[c] = NoCall
      <3>1. Carried
        BY <1>9 DEF GateInv, GateState, Carried
      <3> QED
        BY <1>9, <3>1 DEF GateInv, ConnectStands, Gated
    <2>2. /\ UNCHANGED <<pc, alive, history, counts, gate, pool, idle, http2, cuts>>
          /\ connect'[c] = "none"
          /\ \A x \in Connects \ {c} : /\ connect'[x] = connect[x] /\ waits'[x] = waits[x]
                                       /\ (x \in listeners' <=> x \in listeners)
      BY <1>0, <1>9, <2>1 DEF GateEnds, TypeOK
    <2>3. Carried' => Carried
      BY <2>2 DEF Carried
    <2>4. \A x \in Connects : ConnectStands(x)'
      <3> SUFFICES ASSUME NEW x \in Connects PROVE ConnectStands(x)'
        OBVIOUS
      <3>1. CASE x = c
        BY <2>2, <3>1 DEF ConnectStands, Gated, PastLock
      <3>2. CASE x # c
        BY <2>2, <2>3, <3>2 DEF GateInv, ConnectStands
      <3> QED
        BY <3>1, <3>2
    <2>5. GateState' /\ HandshakesCounted'
      BY <2>2, <2>3 DEF GateInv, GateState, HandshakesCounted
    <2> QED
      BY <2>2, <2>4, <2>5 DEF GateInv, GateNeverRefuses
  <1>10. ASSUME NEW c \in Connects, CheckAnswered(c) PROVE GateInv'
    <2>1. CASE gate.answered
      BY <1>9, <1>10, <2>1 DEF CheckAnswered
    <2>2. CASE ~gate.answered
      <3>1. /\ UNCHANGED <<callVars, waits, gate, listeners, pool, idle, http2, cuts, history>>
            /\ connect[c] = "enabled" /\ connect'[c] = "awaiting"
            /\ \A x \in Connects \ {c} : connect'[x] = connect[x]
        BY <1>10, <2>2 DEF CheckAnswered, TypeOK
      <3>2. Carried' => Carried
        BY <3>1 DEF Carried, callVars
      <3>3. \A x \in Connects : ConnectStands(x)'
        <4> SUFFICES ASSUME NEW x \in Connects PROVE ConnectStands(x)'
          OBVIOUS
        <4>1. CASE x = c
          BY <2>2, <3>1, <3>2, <4>1 DEF GateInv, ConnectStands, Gated, PastLock
        <4>2. CASE x # c
          BY <3>1, <3>2, <4>2 DEF GateInv, ConnectStands
        <4> QED
          BY <4>1, <4>2
      <3>4. GateState' /\ HandshakesCounted'
        BY <3>1, <3>2 DEF GateInv, GateState, HandshakesCounted
      <3> QED
        BY <3>1, <3>3, <3>4 DEF GateInv, GateNeverRefuses
    <2> QED
      BY <2>1, <2>2
  <1>11. ASSUME NEW c \in Connects, Notified(c) PROVE GateInv'
    <2>1. gate.answered
      BY <1>11 DEF Notified, GateInv, ConnectStands
    <2> QED
      BY <1>9, <1>11, <2>1 DEF Notified
  <1>12. ASSUME NEW c \in Connects, GateDeadline(c) PROVE GateInv'
    <2>1. /\ UNCHANGED <<callVars, waits, gate, pool, idle, http2, cuts>> /\ history'.excused
          /\ history'.opened = history.opened /\ history'.refused = history.refused
          /\ connect[c] \in {"enabled", "awaiting"} /\ connect'[c] = "direct"
          /\ \A x \in Connects \ {c} : connect'[x] = connect[x] /\ (x \in listeners' <=> x \in listeners)
      BY <1>12 DEF GateDeadline, TypeOK
    <2>2. Carried' => Carried
      BY <2>1 DEF Carried, callVars
    <2>3. \A x \in Connects : ConnectStands(x)'
      <3> SUFFICES ASSUME NEW x \in Connects PROVE ConnectStands(x)'
        OBVIOUS
      <3>1. CASE x = c
        BY <2>1, <2>2, <3>1 DEF GateInv, ConnectStands, Gated, PastLock
      <3>2. CASE x # c
        BY <2>1, <2>2, <3>2 DEF GateInv, ConnectStands
      <3> QED
        BY <3>1, <3>2
    <2>4. GateState'
      BY <2>1, <2>2 DEF GateInv, GateState
    <2> QED
      BY <2>1, <2>3, <2>4 DEF GateInv, GateNeverRefuses, HandshakesCounted
  <1>13. ASSUME NEW c \in Connects, OpenHttp2(c) PROVE GateInv'
    <2>1. /\ UNCHANGED <<callVars, waits, listeners, pool, idle, http2, cuts>> /\ http2
          /\ connect[c] \in {"first", "direct"} /\ connect'[c] = "opened"
          /\ \A x \in Connects \ {c} : connect'[x] = connect[x]
      BY <1>13 DEF OpenHttp2, TypeOK
    <2>2. /\ history'.opened = history.opened + 1 /\ history'.excused = history.excused
          /\ history'.refused = history.refused /\ history.opened \in Nat
      BY <1>13 DEF OpenHttp2, TypeOK
    <2>3. /\ gate'.first /\ gate'.settled /\ (gate.h2 => gate'.h2)
          /\ gate'.answered = gate.answered /\ gate'.notifies = gate.notifies
          /\ connect[c] = "first" => gate'.h2
          /\ connect[c] = "direct" => gate' = gate
      BY <1>13, <2>1 DEF OpenHttp2, GateAfter, Settle, GateInv, GateState, ConnectStands,
                         PastLock, TypeOK
    <2>4. Carried' => Carried
      BY <2>1, <2>3 DEF Carried, callVars
    <2>5. \A x \in Connects : ConnectStands(x)'
      <3> SUFFICES ASSUME NEW x \in Connects PROVE ConnectStands(x)'
        OBVIOUS
      <3>1. CASE x = c
        BY <2>1, <2>3, <2>4, <3>1 DEF GateInv, ConnectStands, Gated, PastLock
      <3>2. CASE x # c
        <4>1. connect[x] # "first" \/ gate' = gate
          BY <2>1, <2>3, <3>2 DEF GateInv, ConnectStands
        <4> QED
          BY <2>1, <2>3, <2>4, <3>2, <4>1 DEF GateInv, ConnectStands
      <3> QED
        BY <3>1, <3>2
    <2>6. GateState'
      BY <2>1, <2>2, <2>3, <2>4 DEF GateInv, GateState
    <2>7. HandshakesCounted'
      <3> SUFFICES ASSUME ~history.excused PROVE HandshakesCounted'
        BY <2>2 DEF HandshakesCounted
      <3>1. connect[c] = "first"
        BY <2>1 DEF GateInv, HandshakesCounted
      <3>2. history.opened = 0
        BY <2>1, <2>2, <3>1 DEF GateInv, HandshakesCounted, GateState, ConnectStands
      <3>3. \A x \in Connects : connect'[x] # "direct"
        BY <2>1 DEF GateInv, HandshakesCounted
      <3> QED
        BY <2>2, <2>3, <3>1, <3>2, <3>3 DEF HandshakesCounted
    <2> QED
      BY <2>2, <2>5, <2>6, <2>7 DEF GateInv, GateNeverRefuses
  <1>14. ASSUME NEW c \in Connects, PoolHttp2(c) PROVE GateInv'
    <2>1. /\ UNCHANGED <<counts, gate, listeners, idle, http2, cuts, history>>
          /\ connect[c] = "opened" /\ connect'[c] = "none" /\ pool'
          /\ \A x \in Connects \ {c} : connect'[x] = connect[x]
          /\ \A x \in Connects : waits'[x] = NoCall
      BY <1>14 DEF PoolHttp2, TypeOK
    <2>2. gate.settled /\ http2
      BY <2>1 DEF GateInv, ConnectStands, PastLock
    <2>3. \A x \in Connects : ConnectStands(x)'
      <3> SUFFICES ASSUME NEW x \in Connects PROVE ConnectStands(x)'
        OBVIOUS
      <3>1. CASE x = c
        BY <2>1, <3>1 DEF ConnectStands, Gated, PastLock
      <3>2. CASE x # c
        BY <2>1, <3>2 DEF GateInv, ConnectStands
      <3> QED
        BY <3>1, <3>2
    <2>4. GateState' /\ HandshakesCounted'
      BY <2>1, <2>2 DEF GateInv, GateState, HandshakesCounted
    <2> QED
      BY <2>1, <2>3, <2>4 DEF GateInv, GateNeverRefuses
  <1>15. ASSUME NEW c \in Connects, OpenHttp1(c) \/ ConnectFails(c) PROVE GateInv'
    <2>1. /\ UNCHANGED <<counts, listeners, pool, http2, cuts>>
          /\ connect[c] \in {"first", "direct"} /\ connect'[c] = "none"
          /\ \A x \in Connects \ {c} : connect'[x] = connect[x] /\ waits'[x] = waits[x]
          /\ history'.opened = history.opened /\ history'.refused = history.refused
          /\ (~http2 \/ history'.excused)
      BY <1>15 DEF OpenHttp1, ConnectFails, TypeOK
    <2>2. /\ gate'.first /\ gate'.settled /\ (gate'.h2 => http2) /\ (gate.h2 => gate'.h2)
          /\ gate'.answered = gate.answered /\ gate'.notifies = gate.notifies
          /\ connect[c] = "direct" => gate' = gate
      <3>1. /\ connect[c] = "first" => GateAfter(c) = Settle(c)
            /\ connect[c] = "direct" => GateAfter(c) = gate
        BY DEF GateAfter
      <3>2. connect[c] = "direct" => gate.settled /\ gate.first
        BY DEF GateInv, GateState, ConnectStands, PastLock
      <3>3. CASE OpenHttp1(c)
        BY <2>1, <3>1, <3>2, <3>3 DEF OpenHttp1, Settle, GateInv, GateState, TypeOK
      <3>4. CASE ConnectFails(c)
        <4>1. CASE connect[c] = "first"
          BY <3>1, <3>4, <4>1 DEF ConnectFails, Settle, GateInv, GateState, TypeOK
        <4>2. CASE connect[c] = "direct"
          BY <3>1, <3>2, <3>4, <4>2 DEF ConnectFails, GateInv, GateState, TypeOK
        <4> QED
          BY <2>1, <4>1, <4>2
      <3> QED
        BY <1>15, <3>3, <3>4
    <2>3. Carried' => Carried
      BY <1>15, <2>1, <2>2 DEF OpenHttp1, ConnectFails, Ends, Carried, TypeOK
    <2>4. http2 => idle' = 0
      BY <1>15 DEF OpenHttp1, ConnectFails, GateInv, GateState
    <2>5. \A x \in Connects : ConnectStands(x)'
      <3> SUFFICES ASSUME NEW x \in Connects PROVE ConnectStands(x)'
        OBVIOUS
      <3>1. CASE x = c
        BY <2>1, <3>1 DEF ConnectStands, Gated, PastLock
      <3>2. CASE x # c
        <4>1. connect[x] # "first" \/ gate' = gate
          BY <2>1, <2>2, <3>2 DEF GateInv, ConnectStands
        <4> QED
          BY <2>1, <2>2, <2>3, <3>2, <4>1 DEF GateInv, ConnectStands
      <3> QED
        BY <3>1, <3>2
    <2>6. GateState'
      BY <2>1, <2>2, <2>3, <2>4 DEF GateInv, GateState
    <2>7. HandshakesCounted'
      BY <2>1 DEF HandshakesCounted
    <2> QED
      BY <2>1, <2>5, <2>6, <2>7 DEF GateInv, GateNeverRefuses
  <1>16. CASE Notify
    <2>1. /\ UNCHANGED <<callVars, connect, waits, pool, idle, http2, cuts, history>>
          /\ listeners' = {} /\ gate.notifies
          /\ gate'.first = gate.first /\ gate'.settled = gate.settled /\ gate'.h2 = gate.h2
          /\ gate'.answered = gate.answered /\ gate'.holder = gate.holder
      BY <1>16 DEF Notify, TypeOK
    <2>2. Carried' => Carried
      BY <2>1 DEF Carried, callVars
    <2>3. \A x \in Connects : ConnectStands(x)'
      BY <2>1, <2>2 DEF GateInv, GateState, ConnectStands
    <2>4. GateState' /\ HandshakesCounted'
      BY <2>1, <2>2 DEF GateInv, GateState, HandshakesCounted
    <2> QED
      BY <2>1, <2>3, <2>4 DEF GateInv, GateNeverRefuses
  <1>17. CASE Cut
    <2>1. /\ UNCHANGED <<connect, waits, gate, listeners, http2, idle, pc>> /\ ~pool'
          /\ history'.opened = history.opened /\ history'.refused = history.refused /\ history'.excused
      BY <1>17 DEF Cut, TypeOK
    <2>2. Carried' => Carried
      BY <2>1 DEF Carried
    <2> QED
      BY <2>1, <2>2, GateStands DEF GateInv, GateState
  <1>18. CASE UNCHANGED vars
    <2>1. Carried' => Carried
      BY <1>18 DEF vars, callVars, connVars, Carried
    <2> QED
      BY <1>18, <2>1, GateStands DEF vars, connVars, GateInv, GateState
  <1> QED
    BY <1>1, <1>2, <1>3, <1>4, <1>5, <1>6, <1>7, <1>8, <1>10, <1>11, <1>12, <1>13, <1>14,
       <1>15, <1>16, <1>17, <1>18
    DEF Next, CallStep, CallFails, ConnectStep

(***************************************************************************)
(* A write and a bulk read reach the wire once at most and every other     *)
(* read READ_ATTEMPTS times at most, whatever is answered, lost or cut     *)
(* off, for every number of calls and connects.                            *)
(***************************************************************************)
LEMMA SendsInvariant == Spec => []SendsInv
  <1>1. Init => SendsInv
    <2> SUFFICES ASSUME Init PROVE SendsInv
      OBVIOUS
    <2>1. ReadAttempts \in Nat \ {0} /\ MaxCuts \in Nat
      BY AttemptsAssumption
    <2>2. TypeOK
      <3>1. gate \in [holder : Connects \cup {NoCall}, first : BOOLEAN, settled : BOOLEAN,
                      h2 : BOOLEAN, answered : BOOLEAN, notifies : BOOLEAN]
        BY DEF Init, FreshGate
      <3>2. /\ connect \in [Connects -> {"none", "queued", "first", "unlocked", "enabled",
                                         "awaiting", "direct", "opened"}]
            /\ waits \in [Connects -> Calls \cup {NoCall}] /\ listeners \subseteq Connects
        BY DEF Init
      <3>3. /\ pc \in [Calls -> {"send", "connecting", "head", "waiting", "body",
                                 "refusal", "pausing", "done"}]
            /\ sends \in [Calls -> Nat] /\ sent \in [Calls -> Nat] /\ alive \in [Calls -> BOOLEAN]
        BY DEF Init
      <3>4. /\ shape \in [Calls -> Shapes] /\ http2 \in BOOLEAN /\ pool = FALSE
            /\ idle = 0 /\ cuts = 0
        BY DEF Init
      <3>5. history \in [opened : Nat, excused : BOOLEAN, refused : BOOLEAN]
        BY DEF Init
      <3>6. cuts \in 0 .. MaxCuts
        BY <2>1, <3>4
      <3>7. pool \in BOOLEAN /\ idle \in Nat
        BY <3>4
      <3> QED
        BY <3>1, <3>2, <3>3, <3>4, <3>5, <3>6, <3>7 DEF TypeOK
    <2>3. \A t \in Calls : SentAsCounted(t)
      BY <2>1 DEF Init, SentAsCounted, More
    <2> QED
      BY <2>2, <2>3 DEF SendsInv
  <1> QED
    BY <1>1, SendsStep, PTL DEF Spec

THEOREM SendsWhatItMay == Spec => []SendsAsAllowed
  <1>1. SendsInv => SendsAsAllowed
    <2> SUFFICES ASSUME SendsInv PROVE SendsAsAllowed
      OBVIOUS
    <2>1. ReadAttempts \in Nat \ {0}
      BY AttemptsAssumption
    <2> QED
      BY <2>1 DEF SendsInv, SendsAsAllowed, WritesSentOnce, ReadsWithinBudget, SentAsCounted, TypeOK
  <1> QED
    BY <1>1, SendsInvariant, PTL

(***************************************************************************)
(* The gate's own error reaches no request, the first answer wakes every   *)
(* connect that listens for it, and requests sent at once pay one          *)
(* handshake where nothing failed.                                         *)
(***************************************************************************)
THEOREM GateHoldsAlways == Spec => []GateHolds
  <1>1. Init => GateInv
    BY DEF Init, GateInv, GateState, GateNeverRefuses, HandshakesCounted, ConnectStands,
           Carried, FreshGate, PastLock, Gated
  <1>2. SendsInv => TypeOK
    BY DEF SendsInv
  <1>3. TypeOK /\ GateInv => GateHolds
    BY DEF TypeOK, GateInv, GateHolds, GateNeverRefuses, NoLostWakeup, OneHandshake, ConnectStands,
           HandshakesCounted, GateState
  <1> QED
    BY <1>1, <1>2, <1>3, GateStep, SendsInvariant, PTL DEF Spec

(***************************************************************************)
(* The head read through views.  While what the server hides does not      *)
(* change, a view wherever it lies (kept, asked about, read or being        *)
(* derived) lists what the server shows at its own commit; and whatever    *)
(* was named to a run was answered to it.                                  *)
(***************************************************************************)
FilesOver(places) == UNION {[dom -> Contents] : dom \in SUBSET places}
IgnoreValues == Contents \cup {Unknown, Gone}
ViewSpace == [commit : Nat, tag : Nat \X SUBSET Served, fresh : BOOLEAN, masked : BOOLEAN,
              ignore : IgnoreValues, files : FilesOver(ScopePaths), unsettled : SUBSET ScopePaths]
FetchSpace ==
    [at : {"idle", "head", "closure", "changes", "settle", "blobs", "read"},
     hint : ViewSpace \cup {NoView}, from : ViewSpace \cup {NoView},
     asked : SUBSET ScopePaths, changed : SUBSET Served, head : ViewSpace \cup {NoView},
     viewHead : Seq(Nat), restarted : BOOLEAN, named : FilesOver(ScopePaths),
     ignore : Nat \X IgnoreValues, handed : SUBSET (ScopePaths \X Contents),
     shown : SUBSET (ScopePaths \X Contents)]
ShelfSpace == [trees : Seq(FilesOver(Served)), hidden : SUBSET Served, masks : Nat, events : Nat]
KeptSpace == [views : [1 .. MaxCommits -> ViewSpace \cup {NoView}], blobs : SUBSET Contents]
ViewsTypeOK ==
    /\ shelf \in ShelfSpace /\ Tip \in 1 .. MaxCommits
    /\ kept \in KeptSpace /\ base \in 0 .. Tip /\ fetch \in FetchSpace

(* A view tells what is shown at its commit.                                *)
Tells(view) ==
    /\ view.commit \in 1 .. Tip /\ view.tag[1] = view.commit
    /\ shelf.masks = 0 =>
         /\ view.unsettled = {} /\ view.files = InScope(ShownAt(view.commit))
         /\ view.ignore \in {Unknown, At(ShownAt(view.commit), Ignore)}
TellsIfAny(view) == view = NoView \/ Tells(view)
StoreTells(store) ==
    /\ store \in KeptSpace
    /\ \A c \in 1 .. MaxCommits :
         store.views[c] = NoView \/ (Tells(store.views[c]) /\ store.views[c].commit = c)

(* The `.synsignore` a run read, at the commit it was read at.              *)
IgnoreTells(ignore) ==
    ignore[1] # 0 =>
      /\ ignore[1] \in 1 .. Tip
      /\ shelf.masks = 0 => ignore[2] \in {Unknown, At(ShownAt(ignore[1]), Ignore)}

FetchTells(x) ==
    /\ TellsIfAny(x.hint)
    /\ x.at \in {"changes", "settle"} => x.from \in ViewSpace /\ Tells(x.from)
    /\ x.at \in {"settle", "blobs", "read"} => x.head \in ViewSpace /\ Tells(x.head)
    /\ x.at = "settle" =>
         /\ x.asked \subseteq DOMAIN x.head.files
         /\ Pairs(Restrict(x.head.files, x.asked)) \subseteq x.shown
         /\ shelf.masks = 0 => x.asked \subseteq DOMAIN ShownAt(x.head.commit)
    /\ IgnoreTells(x.ignore)
    /\ Pairs(x.named) \subseteq x.shown /\ x.handed \subseteq x.shown

ViewsInv == ViewsTypeOK /\ StoreTells(kept) /\ FetchTells(fetch)

-----------------------------------------------------------------------------
(* Files of some paths: restricted, laid over others, in pairs.             *)

LEMMA FilesOverShape ==
    ASSUME NEW places, NEW files
    PROVE  files \in FilesOver(places) <=>
             /\ DOMAIN files \subseteq places
             /\ files \in [DOMAIN files -> Contents]
BY DEF FilesOver

LEMMA RestrictFiles ==
    ASSUME NEW places, NEW files \in FilesOver(places), NEW S, S \subseteq DOMAIN files
    PROVE  /\ Restrict(files, S) \in FilesOver(places) /\ DOMAIN Restrict(files, S) = S
           /\ \A p \in S : Restrict(files, S)[p] = files[p]
<1>1. Restrict(files, S) \in [S -> Contents] /\ S \subseteq places
  BY FilesOverShape DEF Restrict
<1> QED BY <1>1 DEF Restrict, FilesOver

LEMMA OverFiles ==
    ASSUME NEW places, NEW upper \in FilesOver(places), NEW lower \in FilesOver(places)
    PROVE  /\ LaidOver(upper, lower) \in FilesOver(places)
           /\ DOMAIN LaidOver(upper, lower) = DOMAIN upper \cup DOMAIN lower
           /\ \A p \in DOMAIN upper \cup DOMAIN lower :
                LaidOver(upper, lower)[p] = IF p \in DOMAIN upper THEN upper[p] ELSE lower[p]
<1>1. LaidOver(upper, lower) \in [DOMAIN upper \cup DOMAIN lower -> Contents]
      /\ DOMAIN upper \cup DOMAIN lower \subseteq places
  BY FilesOverShape DEF LaidOver
<1> QED BY <1>1 DEF LaidOver, FilesOver

LEMMA PairsTyped ==
    ASSUME NEW places, NEW files \in FilesOver(places)
    PROVE  /\ Pairs(files) \subseteq places \X Contents
           /\ \A p \in DOMAIN files : <<p, files[p]>> \in Pairs(files)
BY FilesOverShape DEF Pairs

LEMMA OverPairs ==
    ASSUME NEW places, NEW upper \in FilesOver(places), NEW lower \in FilesOver(places)
    PROVE  Pairs(LaidOver(upper, lower)) \subseteq Pairs(upper) \cup Pairs(lower)
<1>1. SUFFICES ASSUME NEW p \in DOMAIN LaidOver(upper, lower)
               PROVE  <<p, LaidOver(upper, lower)[p]>> \in Pairs(upper) \cup Pairs(lower)
  BY DEF Pairs
<1>2. CASE p \in DOMAIN upper
  <2>1. LaidOver(upper, lower)[p] = upper[p] BY <1>2, OverFiles
  <2> QED BY <1>2, <2>1 DEF Pairs
<1>3. CASE p \notin DOMAIN upper
  <2>0. DOMAIN LaidOver(upper, lower) = DOMAIN upper \cup DOMAIN lower BY DEF LaidOver
  <2>1. p \in DOMAIN lower BY <1>3, <2>0
  <2>2. LaidOver(upper, lower)[p] = lower[p] BY <1>3, <2>1 DEF LaidOver
  <2> QED BY <2>1, <2>2 DEF Pairs
<1> QED BY <1>2, <1>3

LEMMA SameFiles ==
    ASSUME NEW places, NEW one \in FilesOver(places), NEW other \in FilesOver(places),
           DOMAIN one = DOMAIN other, \A p \in DOMAIN one : one[p] = other[p]
    PROVE  one = other
<1>1. one \in [DOMAIN one -> Contents] /\ other \in [DOMAIN one -> Contents] BY FilesOverShape
<1> QED BY <1>1

LEMMA AtFiles ==
    ASSUME ViewsAssumption, NEW places, NEW files \in FilesOver(places), NEW p
    PROVE  /\ At(files, p) \in Contents \cup {Gone}
           /\ At(files, p) = Gone <=> p \notin DOMAIN files
BY FilesOverShape DEF At, ViewsAssumption

LEMMA ShownFiles ==
    ASSUME ViewsInv, NEW c \in 1 .. Tip
    PROVE  /\ ShownAt(c) \in FilesOver(Served)
           /\ InScope(ShownAt(c)) \in FilesOver(ScopePaths)
           /\ DOMAIN InScope(ShownAt(c)) = DOMAIN ShownAt(c) \cap ScopePaths
           /\ \A p \in DOMAIN ShownAt(c) \cap ScopePaths : InScope(ShownAt(c))[p] = ShownAt(c)[p]
<1>1. shelf.trees[c] \in FilesOver(Served)
  BY DEF ViewsInv, ViewsTypeOK, ShelfSpace, Tip
<1>2. ShownAt(c) \in FilesOver(Served)
  BY <1>1, RestrictFiles DEF ShownAt
<1>3. InScope(ShownAt(c)) = Restrict(ShownAt(c), DOMAIN ShownAt(c) \cap ScopePaths) BY DEF InScope
<1>4. InScope(ShownAt(c)) \in [DOMAIN ShownAt(c) \cap ScopePaths -> Contents]
  BY <1>2, <1>3, FilesOverShape DEF Restrict
<1> HIDE DEF InScope
<1>5. InScope(ShownAt(c)) \in FilesOver(ScopePaths)
  BY <1>4 DEF FilesOver
<1> QED BY <1>2, <1>3, <1>4, <1>5, RestrictFiles

-----------------------------------------------------------------------------
(* A step in which the server's commits and masks stay.                     *)

LEMMA RunSteps ==
    ASSUME ViewsInv, UNCHANGED shelf, base' \in 0 .. Tip,
           StoreTells(kept'),
           fetch' \in FetchSpace, FetchTells(fetch')
    PROVE  ViewsInv'
<1>1. Tip' = Tip BY DEF Tip
<1>2. ViewsTypeOK' BY <1>1 DEF ViewsInv, ViewsTypeOK, StoreTells
<1>3. StoreTells(kept)'
  BY <1>1 DEF StoreTells, Tells, ShownAt
<1>4. FetchTells(fetch)'
  BY <1>1 DEF TellsIfAny, Tells, FetchTells, IgnoreTells, ShownAt
<1> QED BY <1>2, <1>3, <1>4 DEF ViewsInv

(* The store: it keeps a view that tells, forgets one, holds a blob more.   *)
LEMMA StoredView ==
    ASSUME ViewsInv, NEW c \in 1 .. MaxCommits, kept.views[c] # NoView
    PROVE  kept.views[c] \in ViewSpace /\ Tells(kept.views[c]) /\ kept.views[c].commit = c
BY DEF ViewsInv, StoreTells, KeptSpace

LEMMA KeepsOne ==
    ASSUME ViewsInv, NEW view \in ViewSpace, Tells(view)
    PROVE  StoreTells(Keep(view))
<1>1. view.commit \in 1 .. MaxCommits
  BY ViewsAssumption DEF ViewsAssumption, Tells, ViewsInv, ViewsTypeOK
<1> QED BY <1>1 DEF Keep, KeptSpace, StoreTells, ViewsInv

LEMMA HoldsBlobs ==
    ASSUME NEW store, StoreTells(store), NEW blobs, blobs \subseteq Contents
    PROVE  StoreTells(WithBlobs(store, blobs))
BY DEF WithBlobs, KeptSpace, StoreTells

LEMMA DropsViews ==
    ASSUME NEW store, StoreTells(store), NEW commits
    PROVE  StoreTells([store EXCEPT !.views = Dropped(@, commits)])
<1>1. Dropped(store.views, commits) \in [1 .. MaxCommits -> ViewSpace \cup {NoView}]
      /\ \A c \in 1 .. MaxCommits : Dropped(store.views, commits)[c] \in {NoView, store.views[c]}
  BY DEF Dropped, KeptSpace, StoreTells
<1> QED BY <1>1 DEF KeptSpace, StoreTells

LEMMA NoReadTells == NoRead \in FetchSpace /\ FetchTells(NoRead)
<1>1. <<>> \in FilesOver(ScopePaths) /\ Pairs(<<>>) = {}
  <2>1. DOMAIN <<>> = {} /\ <<>> \in [{} -> Contents] OBVIOUS
  <2> QED BY <2>1 DEF FilesOver, Pairs
<1>2. <<0, Unknown>> \in Nat \X IgnoreValues BY DEF IgnoreValues
<1>3. NoRead \in FetchSpace BY <1>1, <1>2 DEF NoRead, FetchSpace
<1>4. FetchTells(NoRead) BY <1>1 DEF NoRead, FetchTells, TellsIfAny, IgnoreTells
<1> QED BY <1>3, <1>4

LEMMA RunFails ==
    ASSUME ViewsInv, Fails, UNCHANGED shelf, base' \in 0 .. Tip,
           StoreTells(kept')
    PROVE  ViewsInv'
BY NoReadTells, RunSteps DEF Fails

LEMMA BaseStays == ASSUME ViewsInv, UNCHANGED base PROVE base' \in 0 .. Tip
BY DEF ViewsInv, ViewsTypeOK

LEMMA BeginRunKept == ASSUME ViewsAssumption, ViewsInv, BeginRun PROVE ViewsInv'
<1>. DEFINE at == IF base = 0 THEN Tip ELSE base
            found == At(ShownAt(at), Ignore)
<1>1. at \in 1 .. Tip /\ at \in 1 .. MaxCommits /\ Tip \in Nat /\ base \in 0 .. Tip
      /\ base \in Nat
  BY DEF ViewsInv, ViewsTypeOK
<1>2. found \in Contents \cup {Gone} BY <1>1, ShownFiles, AtFiles
<1>3. UNCHANGED <<shelf, base>> BY DEF BeginRun
<1>4. ASSUME NEW ignore \in Nat \X IgnoreValues, IgnoreTells(ignore),
             fetch' = [[NoRead EXCEPT !.at = "head"] EXCEPT !.ignore = ignore]
      PROVE  fetch' \in FetchSpace /\ FetchTells(fetch')
  <2>1. fetch' \in FetchSpace BY <1>4, NoReadTells DEF FetchSpace
  <2>2. FetchTells(fetch')
    BY <1>4, NoReadTells DEF FetchTells, NoRead
  <2> QED BY <2>1, <2>2
<1>5. CASE /\ IgnoreKept /\ UNCHANGED kept
           /\ fetch' = [[NoRead EXCEPT !.at = "head"] EXCEPT !.ignore = <<base, ViewAt(base).ignore>>]
  <2>1. base # 0 /\ ViewAt(base) = kept.views[base] /\ ViewAt(base) # NoView
        /\ base \in 1 .. MaxCommits
    BY <1>1, <1>5 DEF IgnoreKept, ViewAt, ViewsInv, ViewsTypeOK
  <2>2. kept.views[base] \in ViewSpace /\ Tells(kept.views[base]) /\ kept.views[base].commit = base
    BY <2>1, StoredView
  <2>3. <<base, ViewAt(base).ignore>> \in Nat \X IgnoreValues
        /\ IgnoreTells(<<base, ViewAt(base).ignore>>)
    BY <1>1, <2>1, <2>2 DEF IgnoreTells, Tells, ViewSpace
  <2> QED BY <1>3, <1>4, <1>5, <2>3, BaseStays, RunSteps DEF ViewsInv
<1>6. CASE /\ ~IgnoreKept
           /\ fetch' = [[NoRead EXCEPT !.at = "head"] EXCEPT !.ignore = <<at, found>>]
           /\ LET noted == IF ViewAt(at) = NoView THEN kept
                           ELSE Keep([ViewAt(at) EXCEPT !.ignore = found])
              IN kept' = WithBlobs(noted, {found} \ {Gone})
  <2>1. <<at, found>> \in Nat \X IgnoreValues /\ IgnoreTells(<<at, found>>)
    BY <1>1, <1>2 DEF IgnoreTells, IgnoreValues
  <2>. DEFINE noted == IF ViewAt(at) = NoView THEN kept ELSE Keep([ViewAt(at) EXCEPT !.ignore = found])
  <2>2. StoreTells(noted)
    <3>1. CASE ViewAt(at) = NoView BY <3>1 DEF ViewsInv
    <3>2. CASE ViewAt(at) # NoView
      <4>1. ViewAt(at) = kept.views[at] BY <1>1 DEF ViewAt
      <4>2. ViewAt(at) \in ViewSpace /\ Tells(ViewAt(at)) /\ ViewAt(at).commit = at
        BY <1>1, <3>2, <4>1, StoredView
      <4>3. PICK view : view = [ViewAt(at) EXCEPT !.ignore = found] OBVIOUS
      <4>4. view \in ViewSpace BY <1>2, <4>2, <4>3 DEF ViewSpace, IgnoreValues
      <4>6. Tells(view) BY <1>2, <4>2, <4>3 DEF Tells, ViewSpace
      <4> QED BY <3>2, <4>3, <4>4, <4>6, KeepsOne
    <3> QED BY <3>1, <3>2
  <2>3. {found} \ {Gone} \subseteq Contents BY <1>2
  <2> HIDE DEF noted
  <2>4. kept' = WithBlobs(noted, {found} \ {Gone}) BY <1>6 DEF noted
  <2>5. StoreTells(kept')
    BY <2>2, <2>3, <2>4, HoldsBlobs
  <2> QED BY <1>3, <1>4, <1>6, <2>1, <2>5, BaseStays, RunSteps
<1> QED BY <1>5, <1>6 DEF BeginRun

(* Which view a run asks about: one kept, or none.                          *)
LEMMA ReadHeadKept == ASSUME ViewsAssumption, ViewsInv, ReadHead PROVE ViewsInv'
<1>1. PICK view : view = ViewAt(base) OBVIOUS
<1>2. view = NoView \/ (view \in ViewSpace /\ Tells(view))
  <2>1. CASE base = 0 BY <1>1, <2>1 DEF ViewAt
  <2>2. CASE base # 0
    <3>1. base \in 1 .. MaxCommits /\ view = kept.views[base]
      BY <1>1, <2>2, ViewsAssumption DEF ViewAt, ViewsInv, ViewsTypeOK, ViewsAssumption
    <3> QED BY <3>1, StoredView
  <2> QED BY <2>1, <2>2
<1>3. fetch \in FetchSpace /\ FetchTells(fetch) /\ UNCHANGED <<shelf, kept, base>>
  BY DEF ViewsInv, ViewsTypeOK, ReadHead
<1>4. CASE Fresh(view) /\ fetch' = [[fetch EXCEPT !.viewHead = <<>>, !.head = NoView]
                                       EXCEPT !.at = "changes", !.from = view]
  <2>1. view # NoView BY <1>4 DEF Fresh
  <2>2. fetch' \in FetchSpace
    <3>0. <<>> \in Seq(Nat) OBVIOUS
    <3>1. PICK none : none = <<>> /\ none \in Seq(Nat) BY <3>0
    <3>2. fetch' = [fetch EXCEPT !.viewHead = none, !.head = NoView, !.at = "changes", !.from = view]
      BY <1>4, <3>1
    <3> QED BY <1>2, <1>3, <2>1, <3>1, <3>2 DEF FetchSpace
  <2>3. FetchTells(fetch') BY <1>2, <1>3, <1>4, <2>1 DEF FetchTells, FetchSpace
  <2> QED BY <1>3, <2>2, <2>3, BaseStays, RunSteps DEF ViewsInv
<1>5. ASSUME NEW hint, hint = NoView \/ (hint \in ViewSpace /\ Tells(hint)),
             fetch' = [[fetch EXCEPT !.viewHead = <<>>, !.head = NoView]
                         EXCEPT !.at = "closure", !.hint = hint]
      PROVE  ViewsInv'
  <2>2. fetch' \in FetchSpace
    <3>0. <<>> \in Seq(Nat) OBVIOUS
    <3>1. PICK none : none = <<>> /\ none \in Seq(Nat) BY <3>0
    <3>2. fetch' = [fetch EXCEPT !.viewHead = none, !.head = NoView, !.at = "closure", !.hint = hint]
      BY <1>5, <3>1
    <3>3. hint \in ViewSpace \cup {NoView} /\ NoView \in ViewSpace \cup {NoView} BY <1>5
    <3> QED BY <1>3, <3>1, <3>2, <3>3 DEF FetchSpace
  <2>3. FetchTells(fetch') BY <1>3, <1>5 DEF FetchTells, FetchSpace, TellsIfAny
  <2> QED BY <1>3, <2>2, <2>3, BaseStays, RunSteps DEF ViewsInv
<1>6. ASSUME NEW hint \in Hints PROVE hint = NoView \/ (hint \in ViewSpace /\ Tells(hint))
  BY <1>6, StoredView DEF Hints
<1> QED BY <1>1, <1>2, <1>4, <1>5, <1>6 DEF ReadHead

LEMMA ViewOfTip ==
    ASSUME ViewsAssumption, ViewsInv
    PROVE  ViewOf(Tip) \in ViewSpace /\ Tells(ViewOf(Tip))
<1>1. Tip \in 1 .. Tip /\ Tip \in Nat /\ shelf.hidden \in SUBSET Served
  BY DEF ViewsInv, ViewsTypeOK, ShelfSpace
<1>2. PICK files \in FilesOver(ScopePaths) : files = InScope(ShownAt(Tip))
  BY <1>1, ShownFiles
<1>3. PICK ignore \in IgnoreValues :
        /\ ignore = IF fetch.ignore[1] = Tip THEN fetch.ignore[2] ELSE Unknown
        /\ shelf.masks = 0 => ignore \in {Unknown, At(ShownAt(Tip), Ignore)}
  <2>1. fetch.ignore \in Nat \X IgnoreValues /\ IgnoreTells(fetch.ignore)
    BY DEF ViewsInv, ViewsTypeOK, FetchTells, FetchSpace
  <2> QED BY <1>1, <2>1 DEF IgnoreTells, IgnoreValues
<1>4. ViewOf(Tip) = [commit |-> Tip, tag |-> Tag(Tip), fresh |-> TRUE, masked |-> shelf.hidden # {},
                     ignore |-> ignore, files |-> files, unsettled |-> {}]
  BY <1>2, <1>3 DEF ViewOf
<1>5. Tag(Tip) \in Nat \X SUBSET Served /\ Tag(Tip)[1] = Tip BY <1>1 DEF Tag
<1>6. ViewOf(Tip) \in ViewSpace BY <1>1, <1>4, <1>5 DEF ViewSpace
<1>7. Tells(ViewOf(Tip)) BY <1>1, <1>2, <1>3, <1>4, <1>5 DEF Tells
<1> QED BY <1>6, <1>7

(* A head read by the closure was named, and answered, whole.               *)
LEMMA HeadReadKept ==
    ASSUME ViewsInv, NEW view \in ViewSpace, Tells(view), NEW store, StoreTells(store),
           HeadRead(view, store), UNCHANGED <<shelf, base>>
    PROVE  ViewsInv'
<1>1. fetch \in FetchSpace /\ FetchTells(fetch) /\ kept' = store
  BY DEF ViewsInv, ViewsTypeOK, HeadRead
<1>2. view.files \in FilesOver(ScopePaths) /\ fetch.named \in FilesOver(ScopePaths)
  BY <1>1 DEF ViewSpace, FetchSpace
<1>3. PICK named \in FilesOver(ScopePaths) :
        named = LaidOver(view.files, fetch.named) /\ Pairs(named) \subseteq Pairs(view.files) \cup Pairs(fetch.named)
  BY <1>2, OverFiles, OverPairs
<1>4. PICK shown \in SUBSET (ScopePaths \X Contents) : shown = fetch.shown \cup Pairs(view.files)
  BY <1>1, <1>2, PairsTyped DEF FetchSpace
<1>5. fetch' = [fetch EXCEPT !.at = "blobs", !.head = view, !.named = named, !.shown = shown]
  BY <1>3, <1>4 DEF HeadRead
<1>6. fetch' \in FetchSpace BY <1>1, <1>5 DEF FetchSpace
<1>7. FetchTells(fetch') BY <1>1, <1>3, <1>4, <1>5 DEF FetchTells, FetchSpace
<1> QED BY <1>1, <1>6, <1>7, BaseStays, RunSteps

LEMMA AskClosureKept == ASSUME ViewsAssumption, ViewsInv, AskClosure PROVE ViewsInv'
<1>1. UNCHANGED <<shelf, base>> BY DEF AskClosure
<1>2. PICK hint : hint = fetch.hint OBVIOUS
<1>3. PICK again : again = [hint EXCEPT !.fresh = @ \/ ~hint.masked] OBVIOUS
<1>4. CASE /\ hint # NoView /\ hint.tag = Tag(Tip)
           /\ HeadRead(again, IF hint.masked THEN kept ELSE Keep(again))
  <2>1. hint \in ViewSpace /\ Tells(hint)
    BY <1>2, <1>4 DEF ViewsInv, ViewsTypeOK, FetchSpace, FetchTells, TellsIfAny
  <2>2. again \in ViewSpace BY <1>3, <2>1 DEF ViewSpace
  <2>3. Tells(again) BY <1>3, <2>1 DEF Tells, ViewSpace
  <2>4. StoreTells(IF hint.masked THEN kept ELSE Keep(again)) BY <2>2, <2>3, KeepsOne DEF ViewsInv
  <2> QED BY <1>1, <1>4, <2>2, <2>3, <2>4, HeadReadKept
<1>5. CASE HeadRead(ViewOf(Tip), Keep(ViewOf(Tip)))
  BY <1>1, <1>5, ViewOfTip, KeepsOne, HeadReadKept
<1> QED BY <1>2, <1>3, <1>4, <1>5 DEF AskClosure

(* The entries laid over a view's are those shown at the newest commit.     *)
ChangedSince(view) == {p \in Served : At(ShownAt(view.commit), p) # At(ShownAt(Tip), p)}
LaidOn(view) == Laid(view.files, ChangedSince(view) \cap ScopePaths, ShownAt(Tip))
LEMMA LaidShown ==
    ASSUME ViewsAssumption, ViewsInv, NEW view \in ViewSpace, Tells(view)
    PROVE  /\ LaidOn(view) \in FilesOver(ScopePaths)
           /\ \A p \in ChangedSince(view) \cap ScopePaths \cap DOMAIN ShownAt(Tip) :
                p \in DOMAIN LaidOn(view) /\ LaidOn(view)[p] = ShownAt(Tip)[p]
           /\ shelf.masks = 0 => LaidOn(view) = InScope(ShownAt(Tip))
<1>a. PICK changed : changed = ChangedSince(view) OBVIOUS
<1>b. PICK files : files = LaidOn(view) OBVIOUS
<1>0. /\ changed = {p \in Served : At(ShownAt(view.commit), p) # At(ShownAt(Tip), p)}
      /\ files = Laid(view.files, changed \cap ScopePaths, ShownAt(Tip))
  BY <1>a, <1>b DEF ChangedSince, LaidOn
<1> USE <1>0
<1>. DEFINE inside == changed \cap ScopePaths
            before == ShownAt(view.commit)
            after == ShownAt(Tip)
            upper == Restrict(after, inside \cap DOMAIN after)
            lower == Restrict(view.files, DOMAIN view.files \ inside)
<1>1. Tip \in 1 .. Tip /\ view.commit \in 1 .. Tip /\ view.files \in FilesOver(ScopePaths)
  BY DEF ViewsInv, ViewsTypeOK, Tells, ViewSpace
<1>2. /\ after \in FilesOver(Served) /\ before \in FilesOver(Served)
      /\ InScope(after) \in FilesOver(ScopePaths) /\ DOMAIN InScope(after) = DOMAIN after \cap ScopePaths
      /\ InScope(before) \in FilesOver(ScopePaths) /\ DOMAIN InScope(before) = DOMAIN before \cap ScopePaths
      /\ \A p \in DOMAIN before \cap ScopePaths : InScope(before)[p] = before[p]
      /\ \A p \in DOMAIN after \cap ScopePaths : InScope(after)[p] = after[p]
  BY <1>1, ShownFiles
<1> HIDE DEF before, after
<1>3. /\ lower \in FilesOver(ScopePaths) /\ DOMAIN lower = DOMAIN view.files \ inside
      /\ \A p \in DOMAIN view.files \ inside : lower[p] = view.files[p]
  BY <1>1, RestrictFiles
<1>4. /\ DOMAIN upper = inside \cap DOMAIN after /\ \A p \in inside \cap DOMAIN after : upper[p] = after[p]
      /\ upper \in FilesOver(ScopePaths)
  <2>1. upper \in [inside \cap DOMAIN after -> Contents] BY <1>2, FilesOverShape DEF Restrict
  <2> QED BY <2>1 DEF Restrict, FilesOver
<1>5. files = LaidOver(upper, lower) BY DEF Laid, after
<1> HIDE DEF upper, lower
<1>6. /\ files \in FilesOver(ScopePaths) /\ DOMAIN files = DOMAIN upper \cup DOMAIN lower
      /\ \A p \in DOMAIN upper \cup DOMAIN lower :
           files[p] = IF p \in DOMAIN upper THEN upper[p] ELSE lower[p]
  <2>1. files \in FilesOver(ScopePaths) /\ DOMAIN files = DOMAIN upper \cup DOMAIN lower
    <3>1. LaidOver(upper, lower) \in FilesOver(ScopePaths) BY <1>3, <1>4, OverFiles
    <3>2. DOMAIN LaidOver(upper, lower) = DOMAIN upper \cup DOMAIN lower BY DEF LaidOver
    <3> QED BY <1>5, <3>1, <3>2
  <2>2. \A p \in DOMAIN upper \cup DOMAIN lower :
           files[p] = IF p \in DOMAIN upper THEN upper[p] ELSE lower[p]
    BY <1>5 DEF LaidOver
  <2> QED BY <2>1, <2>2
<1>7. ASSUME NEW p \in inside \cap DOMAIN after PROVE p \in DOMAIN files /\ files[p] = after[p]
  BY <1>4, <1>6
<1>8. ASSUME shelf.masks = 0 PROVE files = InScope(after)
  <2>1. view.files = InScope(before) BY <1>8 DEF Tells, before
  <2>2. ASSUME NEW p \in ScopePaths, p \notin changed
        PROVE  (p \in DOMAIN before <=> p \in DOMAIN after) /\ (p \in DOMAIN after => before[p] = after[p])
    <3>1. At(before, p) = At(after, p) BY <2>2 DEF before, after, Served
    <3> QED BY <1>2, <3>1, AtFiles DEF At
  <2>3. DOMAIN files = DOMAIN after \cap ScopePaths
    BY <1>2, <1>3, <1>4, <1>6, <2>1, <2>2
  <2>4. ASSUME NEW p \in DOMAIN files PROVE files[p] = InScope(after)[p]
    <3>1. p \in DOMAIN after \cap ScopePaths /\ InScope(after)[p] = after[p]
      BY <1>2, <2>3, <2>4
    <3>2. CASE p \in inside BY <1>7, <3>1, <3>2
    <3>3. CASE p \notin inside
      <4>1. p \notin changed /\ p \in DOMAIN before /\ before[p] = after[p] BY <2>2, <3>1, <3>3
      <4>2. p \notin DOMAIN upper /\ p \in DOMAIN lower /\ lower[p] = view.files[p]
        BY <1>2, <1>3, <1>4, <2>1, <3>1, <3>3, <4>1
      <4> QED BY <1>2, <1>6, <2>1, <3>1, <4>1, <4>2
    <3> QED BY <3>2, <3>3
  <2> QED BY <1>2, <1>6, <2>3, <2>4, SameFiles
<1> QED BY <1>6, <1>7, <1>8, <1>a, <1>b DEF after

LEMMA IgnoreFromTells ==
    ASSUME ViewsAssumption, ViewsInv, NEW view \in ViewSpace, Tells(view),
           NEW ignore, ignore = IgnoreFrom(view.ignore, ShownAt(view.commit), ShownAt(Tip))
    PROVE  /\ ignore \in IgnoreValues
           /\ shelf.masks = 0 => ignore \in {Unknown, At(ShownAt(Tip), Ignore)}
<1>1. Tip \in 1 .. Tip /\ view.commit \in 1 .. Tip BY DEF ViewsInv, ViewsTypeOK, Tells
<1>2. At(ShownAt(Tip), Ignore) \in Contents \cup {Gone}
      /\ At(ShownAt(view.commit), Ignore) \in Contents \cup {Gone}
  BY <1>1, ShownFiles, AtFiles
<1> QED BY <1>2 DEF IgnoreFrom, IgnoreValues, ViewSpace, Tells

(* A hint kept, for the closure asked instead of the changes.               *)
LEMMA ToClosureKept ==
    ASSUME ViewsInv, NewestHint, UNCHANGED <<shelf, base>>, StoreTells(kept')
    PROVE  ViewsInv'
<1>1. PICK hint \in Hints' : fetch' = [ToClosure EXCEPT !.hint = hint] BY DEF NewestHint
<1>2. hint = NoView \/ (hint \in ViewSpace /\ Tells(hint))
  <2>1. CASE hint = NoView BY <2>1
  <2>2. CASE hint # NoView
    <3>1. PICK c \in 1 .. MaxCommits : hint = kept'.views[c] BY <1>1, <2>2 DEF Hints
    <3>2. kept'.views[c] \in ViewSpace \cup {NoView} BY <3>1 DEF StoreTells, KeptSpace
    <3>3. kept'.views[c] = NoView \/ Tells(kept'.views[c]) BY <3>1 DEF StoreTells
    <3> QED BY <2>2, <3>1, <3>2, <3>3
  <2> QED BY <2>1, <2>2
<1>3. fetch \in FetchSpace /\ FetchTells(fetch) BY DEF ViewsInv, ViewsTypeOK
<1>4. fetch' = [fetch EXCEPT !.at = "closure", !.hint = hint] BY <1>1, <1>3 DEF ToClosure, FetchSpace
<1>5. fetch' \in FetchSpace BY <1>2, <1>3, <1>4 DEF FetchSpace
<1>6. FetchTells(fetch') BY <1>2, <1>3, <1>4 DEF FetchTells, FetchSpace, TellsIfAny
<1> QED BY <1>5, <1>6, BaseStays, RunSteps

(* The view derived from the changes asked tells, but for the kinds of its  *)
(* new entries, which the run has been answered.                            *)
LEMMA AskChangesKept == ASSUME ViewsAssumption, ViewsInv, AskChanges PROVE ViewsInv'
<1>1. PICK view : view = fetch.from OBVIOUS
<1>2. PICK changed : changed = {p \in Served : At(ShownAt(view.commit), p) # At(ShownAt(Tip), p)} OBVIOUS
<1>3. PICK asked : asked = changed \cap ScopePaths \cap DOMAIN ShownAt(Tip) OBVIOUS
<1>4. fetch \in FetchSpace /\ FetchTells(fetch) /\ fetch.at = "changes" /\ UNCHANGED <<shelf, base>>
      /\ Tip \in 1 .. Tip /\ Tip \in Nat
  BY DEF ViewsInv, ViewsTypeOK, AskChanges
<1>5. view \in ViewSpace /\ Tells(view) BY <1>1, <1>4 DEF FetchTells
<1>6. CASE UNCHANGED kept /\ NewestHint
  BY <1>4, <1>6, ToClosureKept DEF ViewsInv
<1>7. CASE kept' = [kept EXCEPT !.views[view.commit] = NoView] /\ NewestHint
  <2>1. StoreTells(kept') BY <1>7 DEF ViewsInv, StoreTells, KeptSpace
  <2> QED BY <1>4, <1>7, <2>1, ToClosureKept
<1>8. CASE LET derived ==
                 [commit |-> Tip, fresh |-> view.fresh, masked |-> FALSE,
                  tag |-> IF Tip = view.commit THEN view.tag ELSE UnmaskedTag(Tip),
                  ignore |-> IgnoreFrom(view.ignore, ShownAt(view.commit), ShownAt(Tip)),
                  files |-> Laid(view.files, changed \cap ScopePaths, ShownAt(Tip)),
                  unsettled |-> IF Tip = view.commit THEN view.unsettled
                                ELSE view.unsettled \ (changed \cap ScopePaths)]
           IN /\ UNCHANGED kept
              /\ fetch' = [fetch EXCEPT !.at = "settle", !.asked = asked, !.head = derived,
                                        !.changed = changed,
                                        !.shown = @ \cup Pairs(Restrict(ShownAt(Tip), asked))]
  <2>1. PICK files : files = Laid(view.files, changed \cap ScopePaths, ShownAt(Tip)) OBVIOUS
  <2>2. /\ files \in FilesOver(ScopePaths)
        /\ \A p \in asked : p \in DOMAIN files /\ files[p] = ShownAt(Tip)[p]
        /\ shelf.masks = 0 => files = InScope(ShownAt(Tip))
    <3>1. /\ files \in FilesOver(ScopePaths)
          /\ \A p \in changed \cap ScopePaths \cap DOMAIN ShownAt(Tip) :
               p \in DOMAIN files /\ files[p] = ShownAt(Tip)[p]
          /\ shelf.masks = 0 => files = InScope(ShownAt(Tip))
      <4>1. changed = ChangedSince(view) /\ files = LaidOn(view)
        BY <1>2, <2>1 DEF ChangedSince, LaidOn
      <4> QED
        BY <1>5, <4>1, LaidShown
    <3> QED
      BY <1>3, <3>1
  <2>3. PICK ignore \in IgnoreValues :
          /\ ignore = IgnoreFrom(view.ignore, ShownAt(view.commit), ShownAt(Tip))
          /\ shelf.masks = 0 => ignore \in {Unknown, At(ShownAt(Tip), Ignore)}
    BY <1>5, IgnoreFromTells
  <2>4. PICK tag \in Nat \X SUBSET Served :
          /\ tag = IF Tip = view.commit THEN view.tag ELSE UnmaskedTag(Tip)
          /\ tag[1] = Tip
    <3>1. UnmaskedTag(Tip) \in Nat \X SUBSET Served /\ UnmaskedTag(Tip)[1] = Tip
      BY <1>4 DEF UnmaskedTag
    <3>2. view.tag \in Nat \X SUBSET Served /\ view.tag[1] = view.commit
      BY <1>5 DEF ViewSpace, Tells
    <3>3. CASE Tip = view.commit BY <3>2, <3>3
    <3>4. CASE Tip # view.commit BY <3>1, <3>4
    <3> QED BY <3>3, <3>4
  <2>5. PICK unsettled \in SUBSET ScopePaths :
          /\ unsettled = IF Tip = view.commit THEN view.unsettled
                          ELSE view.unsettled \ (changed \cap ScopePaths)
          /\ shelf.masks = 0 => unsettled = {}
    <3>1. view.unsettled \in SUBSET ScopePaths BY <1>5 DEF ViewSpace
    <3>2. shelf.masks = 0 => view.unsettled = {} BY <1>5 DEF Tells
    <3> QED BY <3>1, <3>2
  <2>6. PICK derived \in ViewSpace :
          derived = [commit |-> Tip, fresh |-> view.fresh, masked |-> FALSE, tag |-> tag,
                     ignore |-> ignore, files |-> files, unsettled |-> unsettled]
    BY <1>4, <1>5, <2>2 DEF ViewSpace
  <2>7. Tells(derived) BY <1>4, <2>2, <2>3, <2>4, <2>5, <2>6 DEF Tells
  <2>8. asked \in SUBSET ScopePaths /\ asked \subseteq DOMAIN ShownAt(Tip) /\ changed \in SUBSET Served
        /\ asked \subseteq DOMAIN files
    BY <1>2, <1>3, <2>2
  <2>9. /\ Pairs(Restrict(files, asked)) \subseteq Pairs(Restrict(ShownAt(Tip), asked))
        /\ Pairs(Restrict(files, asked)) \subseteq ScopePaths \X Contents
    <3>1. Restrict(files, asked) \in FilesOver(ScopePaths) BY <2>2, <2>8, RestrictFiles
    <3> QED BY <2>2, <3>1, PairsTyped DEF Pairs, Restrict
  <2>10. Pairs(Restrict(ShownAt(Tip), asked)) \subseteq Pairs(Restrict(files, asked))
    BY <2>2 DEF Pairs, Restrict
  <2>11. PICK shown \in SUBSET (ScopePaths \X Contents) :
           /\ shown = fetch.shown \cup Pairs(Restrict(ShownAt(Tip), asked))
    BY <1>4, <2>9, <2>10 DEF FetchSpace
  <2>12. /\ UNCHANGED kept
         /\ fetch' = [fetch EXCEPT !.at = "settle", !.asked = asked, !.head = derived,
                                   !.changed = changed, !.shown = shown]
    BY <1>8, <2>1, <2>3, <2>4, <2>5, <2>6, <2>11
  <2>13. fetch' \in FetchSpace BY <1>4, <2>8, <2>12 DEF FetchSpace
  <2>14. FetchTells(fetch')
    BY <1>1, <1>4, <1>5, <2>6, <2>7, <2>8, <2>9, <2>11, <2>12 DEF FetchTells, FetchSpace
  <2> QED BY <1>4, <2>12, <2>13, <2>14, BaseStays, RunSteps DEF ViewsInv
<1> QED BY <1>1, <1>2, <1>3, <1>6, <1>7, <1>8 DEF AskChanges

LEMMA SettleKindsKept == ASSUME ViewsAssumption, ViewsInv, SettleKinds PROVE ViewsInv'
<1>1. /\ fetch \in FetchSpace /\ FetchTells(fetch) /\ fetch.at = "settle" /\ UNCHANGED <<shelf, base>>
      /\ fetch.head \in ViewSpace /\ Tells(fetch.head) /\ fetch.from \in ViewSpace
  BY DEF ViewsInv, ViewsTypeOK, SettleKinds, FetchTells
<1>2. PICK shown \in FilesOver(Served) : shown = ShownAt(fetch.head.commit)
  BY <1>1, ShownFiles DEF Tells
<1>3. PICK answered : answered = fetch.asked \cap DOMAIN shown OBVIOUS
<1>4. PICK unsettled \in SUBSET ScopePaths :
        /\ unsettled = fetch.head.unsettled \cup (fetch.asked \ answered)
        /\ shelf.masks = 0 => unsettled = {}
  <2>1. fetch.head.unsettled \in SUBSET ScopePaths /\ fetch.asked \in SUBSET ScopePaths
    BY <1>1 DEF FetchSpace, ViewSpace
  <2>2. shelf.masks = 0 => fetch.head.unsettled = {} /\ fetch.asked \subseteq DOMAIN shown
    BY <1>1, <1>2 DEF FetchTells, Tells
  <2>3. fetch.head.unsettled \cup (fetch.asked \ answered) \in SUBSET ScopePaths BY <2>1
  <2> QED BY <1>3, <2>2, <2>3
<1>5. PICK ignore \in IgnoreValues :
        /\ ignore = IF Ignore \in fetch.changed /\ fetch.head.ignore \in Contents
                         /\ Ignore \notin DOMAIN shown
                     THEN Gone ELSE fetch.head.ignore
        /\ shelf.masks = 0 => ignore \in {Unknown, At(shown, Ignore)}
  BY <1>1, <1>2 DEF ViewSpace, IgnoreValues, Tells, At
<1>6. PICK head : head = [fetch.head EXCEPT !.unsettled = unsettled, !.ignore = ignore] OBVIOUS
<1>7. head \in ViewSpace BY <1>1, <1>6 DEF ViewSpace
<1>8. head.commit = fetch.head.commit /\ head.tag = fetch.head.tag /\ head.files = fetch.head.files
      /\ head.unsettled = unsettled /\ head.ignore = ignore
  BY <1>1, <1>6 DEF ViewSpace
<1>9. Tells(head) BY <1>1, <1>2, <1>4, <1>5, <1>8 DEF Tells
<1>10. PICK admitted \in SUBSET {shown[p] : p \in answered} :
         kept' = WithBlobs(IF head = fetch.from THEN kept ELSE Keep(head), admitted)
  BY <1>2, <1>3, <1>4, <1>5, <1>6 DEF SettleKinds
<1>11. StoreTells(kept')
  <2>1. StoreTells(IF head = fetch.from THEN kept ELSE Keep(head)) BY <1>7, <1>9, KeepsOne DEF ViewsInv
  <2>2. admitted \subseteq Contents BY <1>2, <1>3, <1>10, FilesOverShape
  <2> QED BY <1>10, <2>1, <2>2, HoldsBlobs
<1>12. PICK named \in FilesOver(ScopePaths) :
         /\ named = LaidOver(NamedBy(head, fetch.asked), fetch.named)
         /\ Pairs(named) \subseteq fetch.shown
  <2>1. NamedBy(head, fetch.asked) = Restrict(fetch.head.files, fetch.asked) BY <1>8 DEF NamedBy
  <2>2. /\ NamedBy(head, fetch.asked) \in FilesOver(ScopePaths)
        /\ Pairs(NamedBy(head, fetch.asked)) \subseteq fetch.shown
    BY <1>1, <2>1, RestrictFiles DEF FetchTells, ViewSpace
  <2> QED BY <1>1, <2>2, OverFiles, OverPairs DEF FetchTells, FetchSpace
<1>13. PICK viewHead \in Seq(Nat) : viewHead = <<fetch.from.commit, head.commit>>
  <2>1. fetch.from.commit \in Nat /\ head.commit \in Nat BY <1>1, <1>7 DEF ViewSpace
  <2>2. <<fetch.from.commit, head.commit>> \in Seq(Nat) BY <2>1
  <2> QED BY <2>2
<1>14. fetch' = [fetch EXCEPT !.at = "blobs", !.head = head, !.named = named, !.viewHead = viewHead]
  BY <1>2, <1>3, <1>4, <1>5, <1>6, <1>12, <1>13 DEF SettleKinds
<1>15. fetch' \in FetchSpace BY <1>1, <1>7, <1>14 DEF FetchSpace
<1>16. FetchTells(fetch') BY <1>1, <1>7, <1>9, <1>12, <1>14 DEF FetchTells, FetchSpace
<1> QED BY <1>1, <1>11, <1>15, <1>16, BaseStays, RunSteps

(* What a run is handed of the store it named itself, or was just answered. *)
LEMMA ReadBlobsKept == ASSUME ViewsAssumption, ViewsInv, ReadBlobs PROVE ViewsInv'
<1>1. /\ fetch \in FetchSpace /\ FetchTells(fetch) /\ fetch.at = "blobs" /\ UNCHANGED <<shelf, base>>
      /\ fetch.head \in ViewSpace /\ Tells(fetch.head) /\ StoreTells(kept)
  BY DEF ViewsInv, ViewsTypeOK, ReadBlobs, FetchTells
<1>2. PICK files \in FilesOver(ScopePaths) : files = fetch.head.files
  BY <1>1 DEF ViewSpace
<1>3. PICK shown \in FilesOver(Served) : shown = ShownAt(fetch.head.commit)
  BY <1>1, ShownFiles DEF Tells
<1>4. PICK wanted \in SUBSET DOMAIN HeadFiles(fetch.head) :
         LET entries == fetch.head.files
             served == ShownAt(fetch.head.commit)
             asks == {p \in wanted : ~Unasked(p)}
             answered == {p \in asks : At(served, p) = entries[p]}
             missing == {p \in asks : At(served, p) = Gone}
             store == WithBlobs(kept, {entries[p] : p \in answered})
             read == [fetch EXCEPT !.named = LaidOver(Restrict(entries, answered), @),
                                   !.shown = @ \cup Pairs(Restrict(served, answered)),
                                   !.handed = @ \cup Pairs(Restrict(entries, wanted))]
         IN \/ asks # answered \cup missing /\ kept' = kept /\ Fails
            \/ /\ asks = answered /\ kept' = store
               /\ fetch' = [read EXCEPT !.at = "read"]
            \/ asks = answered \cup missing /\ missing # {} /\ NotFound(read, store, missing)
  BY DEF ReadBlobs
<1>5. PICK asks : asks = {p \in wanted : ~Unasked(p)} OBVIOUS
<1>6. PICK answered : answered = {p \in asks : At(shown, p) = files[p]} OBVIOUS
<1>7. wanted \subseteq DOMAIN files /\ asks \subseteq wanted /\ answered \subseteq asks
      /\ wanted \subseteq ScopePaths
  <2>1. DOMAIN HeadFiles(fetch.head) = DOMAIN files \ fetch.head.unsettled
    BY <1>2 DEF HeadFiles, Restrict
  <2>2. DOMAIN files \subseteq ScopePaths BY FilesOverShape
  <2> QED BY <1>5, <1>6, <2>1, <2>2
<1>8. \A p \in answered : p \in DOMAIN shown /\ shown[p] = files[p]
  BY <1>6, <1>7, AtFiles, FilesOverShape DEF At, ViewsAssumption
<1>9. PICK store : store = WithBlobs(kept, {files[p] : p \in answered}) OBVIOUS
<1>10. StoreTells(store)
  <2>1. {files[p] : p \in answered} \subseteq Contents BY <1>7, FilesOverShape
  <2> QED BY <1>1, <1>9, <2>1, HoldsBlobs
<1>11. /\ Restrict(files, answered) \in FilesOver(ScopePaths)
       /\ Restrict(files, wanted) \in FilesOver(ScopePaths)
       /\ Pairs(Restrict(files, answered)) = Pairs(Restrict(shown, answered))
  <2>1. answered \subseteq DOMAIN files BY <1>7
  <2>2. Restrict(files, answered) \in FilesOver(ScopePaths) /\ Restrict(files, wanted) \in FilesOver(ScopePaths)
    BY <1>7, <2>1, RestrictFiles
  <2> QED BY <1>8, <2>2 DEF Pairs, Restrict
<1>12. PICK shownNow \in SUBSET (ScopePaths \X Contents) :
         shownNow = fetch.shown \cup Pairs(Restrict(shown, answered))
  BY <1>1, <1>11, PairsTyped DEF FetchSpace
<1>13. PICK named \in FilesOver(ScopePaths) :
         named = LaidOver(Restrict(files, answered), fetch.named) /\ Pairs(named) \subseteq shownNow
  <2>1. fetch.named \in FilesOver(ScopePaths) /\ Pairs(fetch.named) \subseteq fetch.shown
    BY <1>1 DEF FetchSpace, FetchTells
  <2> QED BY <1>11, <1>12, <2>1, OverFiles, OverPairs
<1>14. PICK handed \in SUBSET (ScopePaths \X Contents) :
         handed = fetch.handed \cup Pairs(Restrict(files, wanted))
  BY <1>1, <1>11, PairsTyped DEF FetchSpace
<1>15. PICK read : read = [fetch EXCEPT !.named = named, !.shown = shownNow, !.handed = handed]
  OBVIOUS
<1>16. read = [fetch EXCEPT !.named = LaidOver(Restrict(files, answered), @),
                            !.shown = @ \cup Pairs(Restrict(shown, answered)),
                            !.handed = @ \cup Pairs(Restrict(files, wanted))]
  BY <1>12, <1>13, <1>14, <1>15
<1>17. PICK missing : missing = {p \in asks : At(shown, p) = Gone} OBVIOUS
<1>18. \/ kept' = kept /\ Fails
       \/ asks = answered /\ kept' = store /\ fetch' = [read EXCEPT !.at = "read"]
       \/ NotFound(read, store, missing)
  BY <1>2, <1>3, <1>4, <1>5, <1>6, <1>9, <1>16, <1>17
<1>19. CASE kept' = kept /\ Fails BY <1>1, <1>19, BaseStays, RunFails
<1>20. CASE asks = answered /\ kept' = store /\ fetch' = [read EXCEPT !.at = "read"]
  <2>1. fetch' = [fetch EXCEPT !.named = named, !.shown = shownNow, !.handed = handed, !.at = "read"]
    BY <1>15, <1>20
  <2>2. fetch' \in FetchSpace BY <1>1, <2>1 DEF FetchSpace
  <2>3. Pairs(Restrict(files, wanted)) \subseteq shownNow
    <3>1. SUFFICES ASSUME NEW p \in wanted PROVE <<p, files[p]>> \in shownNow
      BY DEF Pairs, Restrict
    <3>2. CASE p \in asks
      BY <1>8, <1>12, <1>20, <3>2 DEF Pairs, Restrict
    <3>3. CASE p \notin asks
      <4>1. p \in DOMAIN fetch.named /\ fetch.named[p] = files[p]
        BY <1>2, <1>5, <3>3 DEF Unasked
      <4>2. <<p, files[p]>> \in Pairs(fetch.named) BY <4>1 DEF Pairs
      <4> QED BY <1>1, <1>12, <4>2 DEF FetchTells
    <3> QED BY <3>2, <3>3
  <2>4. handed \subseteq shownNow BY <1>1, <1>12, <1>14, <2>3 DEF FetchTells
  <2>5. FetchTells(fetch')
    BY <1>1, <1>13, <2>1, <2>4 DEF FetchTells, FetchSpace
  <2> QED BY <1>1, <1>10, <1>20, <2>2, <2>5, BaseStays, RunSteps
<1>21. CASE NotFound(read, store, missing)
  <2>1. read \in FetchSpace BY <1>1, <1>15 DEF FetchSpace
  <2>2. CASE /\ kept' = [store EXCEPT !.views = Dropped(@, {read.viewHead[1], read.viewHead[2]})]
             /\ fetch' = [read EXCEPT !.at = "head", !.restarted = TRUE, !.handed = {}]
    <3>1. fetch' = [fetch EXCEPT !.named = named, !.shown = shownNow, !.handed = {},
                                 !.at = "head", !.restarted = TRUE]
      BY <1>15, <2>2
    <3>2. fetch' \in FetchSpace BY <1>1, <3>1 DEF FetchSpace
    <3>3. FetchTells(fetch') BY <1>1, <1>13, <3>1 DEF FetchTells, FetchSpace
    <3> QED BY <1>1, <1>10, <2>2, <3>2, <3>3, DropsViews, BaseStays, RunSteps
  <2>3. CASE kept' = store /\ Fails BY <1>1, <1>10, <2>3, BaseStays, RunFails
  <2>4. CASE kept' = [store EXCEPT !.views = Dropped(@, {read.head.commit})] /\ Fails
    BY <1>1, <1>10, <2>4, DropsViews, BaseStays, RunFails
  <2> QED BY <1>21, <2>2, <2>3, <2>4 DEF NotFound
<1> QED BY <1>18, <1>19, <1>20, <1>21

LEMMA RunEndKept == ASSUME ViewsAssumption, ViewsInv, EndRun \/ RunStops PROVE ViewsInv'
<1>1. CASE EndRun
  <2>1. fetch.head.commit \in 1 .. Tip /\ Tip \in Nat
    BY <1>1 DEF EndRun, ViewsInv, ViewsTypeOK, FetchTells, Tells
  <2>2. base' \in 0 .. Tip BY <1>1, <2>1 DEF EndRun, ViewsInv, ViewsTypeOK
  <2> QED BY <1>1, <2>2, RunFails DEF EndRun, Fails, ViewsInv
<1>2. CASE RunStops BY <1>2, BaseStays, RunFails DEF RunStops, ViewsInv
<1> QED BY <1>1, <1>2

-----------------------------------------------------------------------------
(* A step of the server, of the clock or of the store's other users: no     *)
(* commit changes, and what is shown of one changes only with a mask.       *)

LEMMA WorldSteps ==
    ASSUME ViewsInv, shelf' \in ShelfSpace, Tip' \in 1 .. MaxCommits, Tip' >= Tip,
           shelf'.masks = 0 => shelf.masks = 0 /\ \A c \in 1 .. Tip : ShownAt(c)' = ShownAt(c),
           UNCHANGED <<base, fetch>>, StoreTells(kept')
    PROVE  ViewsInv'
<1>1. Tip \in Nat /\ Tip' \in Nat /\ base \in 0 .. Tip BY DEF ViewsInv, ViewsTypeOK
<1>2. ASSUME NEW view, Tells(view) PROVE Tells(view)'
  BY <1>1, <1>2 DEF Tells
<1>3. ASSUME NEW ignore, IgnoreTells(ignore) PROVE IgnoreTells(ignore)'
  BY <1>1, <1>3 DEF IgnoreTells
<1>4. StoreTells(kept)'
  <2>1. PICK store : store = kept' OBVIOUS
  <2>2. StoreTells(store) BY <2>1
  <2>3. StoreTells(store)' BY <1>2, <2>2 DEF StoreTells
  <2> QED BY <2>1, <2>3 DEF StoreTells
<1>5. FetchTells(fetch)'
  <2>1. PICK x : x = fetch OBVIOUS
  <2>2. FetchTells(x) BY <2>1 DEF ViewsInv
  <2>3. x.at = "settle" => Tells(x.head) BY <2>2 DEF FetchTells
  <2>4. shelf'.masks = 0 /\ x.at = "settle" => x.asked \subseteq DOMAIN ShownAt(x.head.commit)'
    BY <2>2, <2>3 DEF FetchTells, Tells
  <2>5. FetchTells(x)' BY <1>2, <1>3, <2>2, <2>4 DEF FetchTells, TellsIfAny
  <2>6. fetch' = x BY <2>1
  <2> QED BY <2>5, <2>6 DEF FetchTells, TellsIfAny, Tells, IgnoreTells
<1>6. ViewsTypeOK' BY <1>1, <1>4 DEF ViewsInv, ViewsTypeOK, StoreTells
<1> QED BY <1>4, <1>5, <1>6 DEF ViewsInv

LEMMA CommitKept ==
    ASSUME ViewsAssumption, ViewsInv, NEW p \in Served, NEW content \in Contents \cup {Gone}, Commit(p, content)
    PROVE  ViewsInv'
<1>1. shelf \in ShelfSpace /\ Tip \in 1 .. MaxCommits /\ Tip \in Nat /\ MaxCommits \in Nat /\ Tip < MaxCommits
      /\ shelf.trees \in Seq(FilesOver(Served)) /\ Len(shelf.trees) = Tip
      /\ UNCHANGED <<kept, base, fetch>>
  BY DEF ViewsInv, ViewsTypeOK, ShelfSpace, Commit, Tip, ViewsAssumption
<1>2. PICK tree \in FilesOver(Served) : tree = shelf.trees[Tip] BY <1>1
<1>3. PICK next \in FilesOver(Served) : shelf' = [shelf EXCEPT !.trees = Append(@, next)]
  <2>1. Restrict(tree, DOMAIN tree \ {p}) \in FilesOver(Served) BY RestrictFiles
  <2>2. ASSUME content # Gone PROVE LaidOver([q \in {p} |-> content], tree) \in FilesOver(Served)
    <3>0. content \in Contents BY <2>2
    <3>1. [q \in {p} |-> content] \in FilesOver(Served)
      <4>1. [q \in {p} |-> content] \in [{p} -> Contents] BY <3>0
      <4> QED BY <4>1 DEF FilesOver
    <3> QED BY <3>1, OverFiles
  <2> QED BY <1>2, <2>1, <2>2 DEF Commit
<1>4. PICK trees \in Seq(FilesOver(Served)) :
        /\ trees = Append(shelf.trees, next) /\ Len(trees) = Tip + 1
        /\ \A c \in 1 .. Tip : trees[c] = shelf.trees[c]
  <2>1. Append(shelf.trees, next) \in Seq(FilesOver(Served)) BY <1>1
  <2>2. Len(Append(shelf.trees, next)) = Tip + 1 BY <1>1
  <2>3. \A c \in 1 .. Tip : Append(shelf.trees, next)[c] = shelf.trees[c] BY <1>1
  <2> QED BY <2>1, <2>2, <2>3
<1>5. shelf' = [shelf EXCEPT !.trees = trees] BY <1>3, <1>4
<1>6. shelf' \in ShelfSpace /\ shelf'.trees = trees /\ shelf'.hidden = shelf.hidden /\ shelf'.masks = shelf.masks
  BY <1>1, <1>5 DEF ShelfSpace
<1>7. Tip' = Tip + 1 BY <1>4, <1>6 DEF Tip
<1>8. \A c \in 1 .. Tip : ShownAt(c)' = ShownAt(c) BY <1>4, <1>6 DEF ShownAt
<1>9. StoreTells(kept') BY <1>1 DEF ViewsInv
<1> QED BY <1>1, <1>6, <1>7, <1>8, <1>9, WorldSteps

LEMMA MasksKept ==
    ASSUME ViewsAssumption, ViewsInv, NEW p \in Served, Masks(p) PROVE ViewsInv'
<1>1. shelf \in ShelfSpace /\ UNCHANGED <<kept, base, fetch>> /\ Tip \in 1 .. MaxCommits /\ Tip \in Nat
  BY DEF ViewsInv, ViewsTypeOK, Masks
<1>2. PICK hidden \in SUBSET Served :
        shelf' = [shelf EXCEPT !.events = @ + 1, !.masks = @ + 1, !.hidden = hidden]
  BY <1>1 DEF Masks, ShelfSpace
<1>3. shelf' \in ShelfSpace /\ shelf'.trees = shelf.trees /\ shelf'.masks # 0
  <2>1. shelf.masks \in Nat /\ shelf.events \in Nat BY <1>1 DEF ShelfSpace
  <2>2. PICK masks \in Nat, events \in Nat : masks = shelf.masks + 1 /\ events = shelf.events + 1
    BY <2>1
  <2>3. shelf' = [shelf EXCEPT !.events = events, !.masks = masks, !.hidden = hidden] BY <1>2, <2>2
  <2>4. masks # 0 BY <2>1, <2>2
  <2> QED BY <1>1, <2>3, <2>4 DEF ShelfSpace
<1>4. Tip' = Tip BY <1>3 DEF Tip
<1>5. StoreTells(kept') BY <1>1 DEF ViewsInv
<1> QED BY <1>1, <1>3, <1>4, <1>5, WorldSteps

LEMMA TimeKept == ASSUME ViewsAssumption, ViewsInv, DayPasses \/ StoreDrops PROVE ViewsInv'
<1>1. shelf \in ShelfSpace /\ UNCHANGED <<base, fetch>> /\ shelf' = [shelf EXCEPT !.events = @ + 1]
      /\ Tip \in 1 .. MaxCommits /\ Tip \in Nat /\ StoreTells(kept)
  BY DEF ViewsInv, ViewsTypeOK, DayPasses, StoreDrops
<1>2. shelf' \in ShelfSpace /\ shelf'.trees = shelf.trees /\ shelf'.hidden = shelf.hidden
      /\ shelf'.masks = shelf.masks
  BY <1>1 DEF ShelfSpace
<1>3. Tip' = Tip /\ \A c \in 1 .. Tip : ShownAt(c)' = ShownAt(c) BY <1>2 DEF Tip, ShownAt
<1>4. CASE DayPasses
  <2>1. PICK views : views = [c \in DOMAIN kept.views |->
                       IF kept.views[c] = NoView THEN NoView ELSE [kept.views[c] EXCEPT !.fresh = FALSE]]
    OBVIOUS
  <2>2. ASSUME NEW c \in 1 .. MaxCommits
        PROVE  /\ views[c] \in ViewSpace \cup {NoView}
               /\ views[c] = NoView \/ (Tells(views[c]) /\ views[c].commit = c)
    <3>1. c \in DOMAIN kept.views BY <1>1 DEF StoreTells, KeptSpace
    <3>2. CASE kept.views[c] = NoView BY <2>1, <3>1, <3>2
    <3>3. CASE kept.views[c] # NoView
      <4>1. PICK view : view = kept.views[c] OBVIOUS
      <4>2. view \in ViewSpace /\ Tells(view) /\ view.commit = c BY <3>3, <4>1, StoredView
      <4>3. views[c] = [view EXCEPT !.fresh = FALSE] BY <2>1, <3>1, <3>3, <4>1
      <4> QED BY <4>2, <4>3 DEF ViewSpace, Tells
    <3> QED BY <3>2, <3>3
  <2>3. views \in [1 .. MaxCommits -> ViewSpace \cup {NoView}]
    BY <1>1, <2>1, <2>2 DEF StoreTells, KeptSpace
  <2>4. kept' = [kept EXCEPT !.views = views] BY <1>4, <2>1 DEF DayPasses
  <2>5. StoreTells(kept') BY <1>1, <2>2, <2>3, <2>4 DEF StoreTells, KeptSpace
  <2> QED BY <1>1, <1>2, <1>3, <2>5, WorldSteps
<1>5. CASE StoreDrops
  <2>1. StoreTells(kept') BY <1>1, <1>5 DEF StoreDrops, StoreTells, KeptSpace
  <2> QED BY <1>1, <1>2, <1>3, <2>1, WorldSteps
<1> QED BY <1>4, <1>5

LEMMA ViewsStartHolds == ASSUME ViewsAssumption, ViewsInit PROVE ViewsInv
<1>1. PICK first \in [Served -> Contents], hidden \in SUBSET Served, at \in {0, 1} :
        ViewsStart(first, hidden, at)
  BY DEF ViewsInit
<1>2. first \in FilesOver(Served) BY DEF FilesOver
<1>3. <<first>> \in Seq(FilesOver(Served)) /\ Len(<<first>>) = 1 BY <1>2
<1>4. shelf \in ShelfSpace /\ shelf.trees = <<first>> BY <1>1, <1>3 DEF ViewsStart, ShelfSpace
<1>5. Tip = 1 BY <1>3, <1>4 DEF Tip
<1>6. kept = [views |-> [c \in 1 .. MaxCommits |-> NoView], blobs |-> {}] /\ base \in {0, 1} /\ fetch = NoRead
  BY <1>1 DEF ViewsStart
<1>7. StoreTells(kept) BY <1>6 DEF StoreTells, KeptSpace
<1> QED BY <1>4, <1>5, <1>6, <1>7, NoReadTells DEF ViewsInv, ViewsTypeOK, ViewsAssumption, StoreTells

(* What a run reads of a head is what the server shows it, whichever views  *)
(* it was carried through, and no byte of the store is handed to a run the  *)
(* server did not show it to.                                               *)
THEOREM ViewsShow == ViewsSpec => []AsShown
<1>1. ViewsInit => ViewsInv BY ViewsStartHolds, ViewsAssumption
<1>2. ViewsInv /\ [ViewsNext]_viewsVars => ViewsInv'
  <2>1. ASSUME ViewsInv, UNCHANGED viewsVars PROVE ViewsInv'
    <3>1. StoreTells(kept') BY <2>1 DEF viewsVars, ViewsInv
    <3>2. fetch' \in FetchSpace /\ FetchTells(fetch') BY <2>1 DEF viewsVars, ViewsInv, ViewsTypeOK
    <3> QED BY <2>1, <3>1, <3>2, BaseStays, RunSteps DEF viewsVars
  <2>2. ASSUME ViewsInv, ViewsNext PROVE ViewsInv'
    BY <2>2, ViewsAssumption, BeginRunKept, ReadHeadKept, AskClosureKept, AskChangesKept, SettleKindsKept,
       ReadBlobsKept, RunEndKept, CommitKept, MasksKept, TimeKept DEF ViewsNext
  <2> QED BY <2>1, <2>2
<1>3. ViewsInv => AsShown
  <2>1. ASSUME ViewsInv, shelf.masks = 0, fetch.at \in {"blobs", "read"}
        PROVE  /\ HeadFiles(fetch.head) = InScope(ShownAt(fetch.head.commit))
               /\ fetch.head.ignore \in {Unknown, At(ShownAt(fetch.head.commit), Ignore)}
    <3>1. fetch.head \in ViewSpace /\ Tells(fetch.head) BY <2>1 DEF ViewsInv, FetchTells
    <3>2. PICK files \in FilesOver(ScopePaths) : files = fetch.head.files BY <3>1 DEF ViewSpace
    <3>3. HeadFiles(fetch.head) = Restrict(files, DOMAIN files)
      BY <2>1, <3>1, <3>2 DEF HeadFiles, Tells
    <3>4. Restrict(files, DOMAIN files) = files BY FilesOverShape DEF Restrict
    <3> QED BY <2>1, <3>1, <3>2, <3>3, <3>4 DEF Tells
  <2> QED BY <2>1 DEF AsShown, HeadAsShown, HandedAsShown, ViewsInv, FetchTells
<1> QED BY <1>1, <1>2, <1>3, PTL DEF ViewsSpec

(***************************************************************************)
(* Paths as sequences of names.                                            *)
(***************************************************************************)
ListedPaths == AskedPaths \cup UNION {FilesAt[commit] : commit \in DOMAIN FilesAt}
ListedNames == UNION {ToSet(p) : p \in ListedPaths}
NamePaths   == Seq(ListedNames)

\* Every path asked for, and every path of a commit, is a sequence of names.
LEMMA ListedArePaths == ListedPaths \subseteq NamePaths
  <1> SUFFICES ASSUME NEW p \in ListedPaths PROVE p \in NamePaths
    OBVIOUS
  <1>1. p \in Seq(ToSet(p))
    BY ListingsAssumption DEF ListedPaths
  <1>2. ToSet(p) \subseteq ListedNames
    BY DEF ListedNames
  <1> QED
    BY <1>1, <1>2 DEF NamePaths

\* What joins two paths, and that it can be taken apart again.
LEMMA JoinIs ==
  ASSUME NEW p \in NamePaths, NEW q \in NamePaths
  PROVE  /\ p \o q \in NamePaths /\ Len(p) \in Nat /\ Len(q) \in Nat
         /\ Len(p \o q) = Len(p) + Len(q)
         /\ p \o q = <<>> <=> p = <<>> /\ q = <<>>
         /\ p \o q = p <=> q = <<>>
         /\ p = <<>> <=> Len(p) = 0
         /\ <<>> \in NamePaths /\ p \o <<>> = p /\ <<>> \o p = p
  <1> USE DEF NamePaths
  <1>1. p \o q \in NamePaths /\ Len(p) \in Nat /\ Len(q) \in Nat /\ Len(p \o q) = Len(p) + Len(q)
    OBVIOUS
  <1>4. p \o q = <<>> <=> p = <<>> /\ q = <<>>
    BY ConcatEqualIffEmpty
  <1>5. p \o q = p <=> q = <<>>
    BY ConcatEqualIffEmpty
  <1>6. p = <<>> <=> Len(p) = 0
    BY EmptySeq
  <1>7. <<>> \in NamePaths /\ p \o <<>> = p /\ <<>> \o p = p
    BY ConcatEmptySeq
  <1> QED
    BY <1>1, <1>4, <1>5, <1>6, <1>7

\* Paths join in any grouping.
LEMMA JoinTwice ==
  ASSUME NEW p \in NamePaths, NEW q \in NamePaths, NEW r \in NamePaths
  PROVE  (p \o q) \o r = p \o (q \o r)
  <1>1. p \in Seq(ListedNames) /\ q \in Seq(ListedNames) /\ r \in Seq(ListedNames)
    BY DEF NamePaths
  <1> DEFINE left == (p \o q) \o r
             right == p \o (q \o r)
  <1>2. /\ left \in Seq(ListedNames) /\ Len(left) = (Len(p) + Len(q)) + Len(r)
        /\ \A i \in 1 .. Len(left) :
             left[i] = IF i <= Len(p) THEN p[i]
                       ELSE IF i <= Len(p) + Len(q) THEN q[i - Len(p)] ELSE r[i - (Len(p) + Len(q))]
    BY <1>1
  <1>3. /\ right \in Seq(ListedNames) /\ Len(right) = Len(p) + (Len(q) + Len(r))
        /\ \A i \in 1 .. Len(right) :
             right[i] = IF i <= Len(p) THEN p[i]
                        ELSE IF i - Len(p) <= Len(q) THEN q[i - Len(p)] ELSE r[(i - Len(p)) - Len(q)]
    BY <1>1
  <1> HIDE DEF left, right
  <1>4. Len(p) \in Nat /\ Len(q) \in Nat /\ Len(r) \in Nat
    BY <1>1
  <1>5. Len(left) = Len(right)
    BY <1>2, <1>3, <1>4
  <1>6. \A i \in 1 .. Len(left) : left[i] = right[i]
    <2> TAKE i \in 1 .. Len(left)
    <2>1. i \in Nat /\ i - (Len(p) + Len(q)) = (i - Len(p)) - Len(q)
      BY <1>2, <1>4
    <2>2. i <= Len(p) + Len(q) <=> i - Len(p) <= Len(q)
      BY <2>1, <1>4
    <2> QED
      BY <1>2, <1>3, <1>5, <2>1, <2>2
  <1>7. left = right
    <2>1. left \in Seq(ListedNames) /\ right \in Seq(ListedNames)
      BY <1>2, <1>3
    <2> QED
      BY <2>1, <1>5, <1>6, SeqEqual, Zenon
  <1> QED
    BY <1>7 DEF left, right

\* Joined with the same path on the left, two paths are one if the joins are.
LEMMA JoinApart ==
  ASSUME NEW p \in NamePaths, NEW q \in NamePaths, NEW r \in NamePaths, p \o q = p \o r
  PROVE  q = r
  <1>1. p \in Seq(ListedNames) /\ q \in Seq(ListedNames) /\ r \in Seq(ListedNames)
    BY DEF NamePaths
  <1>2. Len(p) \in Nat /\ Len(q) \in Nat /\ Len(r) \in Nat
    BY <1>1
  <1>3. Len(q) = Len(r)
    <2>1. Len(p \o q) = Len(p) + Len(q) /\ Len(p \o r) = Len(p) + Len(r)
      BY JoinIs
    <2> QED
      BY <1>2, <2>1
  <1>4. \A i \in 1 .. Len(q) : q[i] = r[i]
    <2> TAKE i \in 1 .. Len(q)
    <2>1. (p \o q)[Len(p) + i] = q[i] /\ (p \o r)[Len(p) + i] = r[i]
      BY <1>1, <1>2, <1>3
    <2> QED
      BY <2>1
  <1> QED
    BY <1>1, <1>3, <1>4, SeqEqual, Zenon

\* A path cut at a length, and joined again.
LEMMA CutIs ==
  ASSUME NEW p \in NamePaths, NEW n \in 0 .. Len(p)
  PROVE  /\ SubSeq(p, 1, n) \in NamePaths /\ Len(SubSeq(p, 1, n)) = n
         /\ SubSeq(p, n + 1, Len(p)) \in NamePaths /\ Len(SubSeq(p, n + 1, Len(p))) = Len(p) - n
         /\ p = SubSeq(p, 1, n) \o SubSeq(p, n + 1, Len(p))
  <1> USE DEF NamePaths
  <1>1. Len(p) \in Nat /\ n \in Nat /\ n <= Len(p)
    OBVIOUS
  <1>2. SubSeq(p, 1, n) \in NamePaths /\ Len(SubSeq(p, 1, n)) = n
    BY <1>1
  <1>3. SubSeq(p, n + 1, Len(p)) \in NamePaths /\ Len(SubSeq(p, n + 1, Len(p))) = Len(p) - n
    BY <1>1
  <1>4. 1 \in 1 .. Len(p) + 1 /\ n \in 1 - 1 .. Len(p) /\ Len(p) \in n .. Len(p)
    BY <1>1
  <1>5. SubSeq(p, 1, n) \o SubSeq(p, n + 1, Len(p)) = SubSeq(p, 1, Len(p))
    BY <1>4, ConcatAdjacentSubSeq
  <1>6. SubSeq(p, 1, Len(p)) = p
    BY SubSeqFull
  <1> QED
    BY <1>2, <1>3, <1>5, <1>6

\* The sizes of a join.
LEMMA CutOfJoin ==
  ASSUME NEW p \in NamePaths, NEW q \in NamePaths
  PROVE  /\ SubSeq(p \o q, 1, Len(p)) = p
         /\ SubSeq(p \o q, Len(p) + 1, Len(p \o q)) = q
  <1> DEFINE n == Len(p)
             w == p \o q
             a == SubSeq(w, 1, n)
             b == SubSeq(w, n + 1, Len(w))
  <1>1. w \in NamePaths /\ n \in Nat /\ Len(q) \in Nat /\ Len(w) = n + Len(q)
    BY JoinIs
  <1>2. n \in 0 .. Len(w)
    BY <1>1
  <1>3. a \in NamePaths /\ Len(a) = n /\ b \in NamePaths /\ w = a \o b
    <2> HIDE DEF n, w
    <2> QED
      BY <1>1, <1>2, CutIs
  <1>4. \A k \in 1 .. n : a[k] = p[k]
    <2> TAKE k \in 1 .. n
    <2>1. w[k] = p[k]
      BY <1>1 DEF NamePaths
    <2>2. a[k] = w[k]
      <3> HIDE DEF w, n
      <3> QED
        BY <1>1 DEF NamePaths
    <2> QED
      BY <2>1, <2>2
  <1>5. a = p
    <2> HIDE DEF a, w
    <2> QED
      BY <1>3, <1>4, SeqEqual DEF NamePaths, n
  <1>6. b = q
    <2>1. p \o q = p \o b
      BY <1>3, <1>5
    <2>2. b \in NamePaths
      BY <1>3
    <2> HIDE DEF a, b, w
    <2>3. q = b
      BY <2>1, <2>2, JoinApart
    <2> QED
      BY <2>3
  <1> QED
    BY <1>5, <1>6

\* One path opens another where it is joined with something.
LEMMA OpensIs ==
  ASSUME NEW p \in NamePaths, NEW q \in NamePaths
  PROVE  /\ IsPrefix(p, q) <=> \E r \in NamePaths : q = p \o r
         /\ IsStrictPrefix(p, q) <=> \E r \in NamePaths : r # <<>> /\ q = p \o r
  <1>0. Len(p) \in Nat /\ Len(q) \in Nat
    BY DEF NamePaths
  <1>1. ASSUME IsPrefix(p, q) PROVE \E r \in NamePaths : q = p \o r
    <2>1. Len(p) \in 0 .. Len(q) /\ SubSeq(p, 1, Len(p)) = SubSeq(q, 1, Len(p))
      BY <1>0, <1>1 DEF IsPrefix
    <2>2. SubSeq(p, 1, Len(p)) = p
      BY SubSeqFull DEF NamePaths
    <2> DEFINE r == SubSeq(q, Len(p) + 1, Len(q))
    <2>3. r \in NamePaths /\ q = SubSeq(q, 1, Len(p)) \o r
      BY <2>1, CutIs
    <2>4. q = p \o r
      BY <2>1, <2>2, <2>3
    <2> QED
      BY <2>3, <2>4
  <1>2. ASSUME NEW r \in NamePaths, q = p \o r PROVE IsPrefix(p, q)
    <2>1. SubSeq(q, 1, Len(p)) = p /\ Len(q) = Len(p) + Len(r) /\ Len(r) \in Nat
      BY <1>2, CutOfJoin, JoinIs
    <2>2. SubSeq(p, 1, Len(p)) = p
      BY SubSeqFull DEF NamePaths
    <2> QED
      BY <1>0, <2>1, <2>2 DEF IsPrefix
  <1>3. \A r \in NamePaths : p \o r # p <=> r # <<>>
    BY JoinIs
  <1> QED
    BY <1>1, <1>2, <1>3 DEF IsStrictPrefix

\* What stands below a folder, by the rest of its path.
LEMMA BelowFolder ==
  ASSUME NEW files \in SUBSET NamePaths, NEW dir \in NamePaths
  PROVE  Below(files, dir) = {r \in NamePaths : r # <<>> /\ dir \o r \in files}
  <1>1. ASSUME NEW q \in files, IsStrictPrefix(dir, q)
        PROVE  LET r == SubSeq(q, Len(dir) + 1, Len(q)) IN r \in NamePaths /\ r # <<>> /\ dir \o r \in files
    <2>1. PICK r \in NamePaths : r # <<>> /\ q = dir \o r
      BY <1>1, OpensIs
    <2> QED
      BY <2>1, CutOfJoin
  <1>2. ASSUME NEW r \in NamePaths, r # <<>>, dir \o r \in files
        PROVE  IsStrictPrefix(dir, dir \o r) /\ SubSeq(dir \o r, Len(dir) + 1, Len(dir \o r)) = r
    <2>1. dir \o r \in NamePaths
      BY JoinIs
    <2> QED
      BY <1>2, <2>1, OpensIs, CutOfJoin
  <1> QED
    BY <1>1, <1>2 DEF Below

\* A folder of a folder's tree is a folder of the tree above.
LEMMA BelowTwice ==
  ASSUME NEW files \in SUBSET NamePaths, NEW dir \in NamePaths, NEW name \in NamePaths
  PROVE  Below(Below(files, dir), name) = Below(files, dir \o name)
  <1>1. Below(files, dir) \in SUBSET NamePaths /\ dir \o name \in NamePaths
    BY BelowFolder, JoinIs
  <1>2. \A r \in NamePaths : r # <<>> =>
           (name \o r \in Below(files, dir) <=> (dir \o name) \o r \in files)
    <2> SUFFICES ASSUME NEW r \in NamePaths, r # <<>>
                 PROVE  name \o r \in Below(files, dir) <=> (dir \o name) \o r \in files
      OBVIOUS
    <2>1. name \o r \in NamePaths /\ name \o r # <<>>
      BY JoinIs
    <2>2. dir \o (name \o r) = (dir \o name) \o r
      BY JoinTwice
    <2>3. Below(files, dir) = {t \in NamePaths : t # <<>> /\ dir \o t \in files}
      BY BelowFolder
    <2> QED
      BY <2>1, <2>2, <2>3
  <1>3. Below(Below(files, dir), name) = {r \in NamePaths : r # <<>> /\ name \o r \in Below(files, dir)}
    BY <1>1, BelowFolder
  <1>4. Below(files, dir \o name) = {r \in NamePaths : r # <<>> /\ (dir \o name) \o r \in files}
    BY <1>1, BelowFolder
  <1> QED
    BY <1>2, <1>3, <1>4

\* The first name of a path, and the rest.
LEMMA FirstName ==
  ASSUME NEW p \in NamePaths, p # <<>>
  PROVE  /\ SubSeq(p, 1, 1) = <<p[1]>> /\ <<p[1]>> \in NamePaths /\ <<p[1]>> # <<>>
         /\ Len(p) \in Nat \ {0} /\ Len(<<p[1]>>) = 1
         /\ SubSeq(p, 2, Len(p)) \in NamePaths /\ Len(SubSeq(p, 2, Len(p))) = Len(p) - 1
         /\ p = <<p[1]>> \o SubSeq(p, 2, Len(p))
  <1>1. Len(p) \in Nat \ {0}
    BY EmptySeq DEF NamePaths
  <1>2. p[1] \in ListedNames
    BY <1>1 DEF NamePaths
  <1>3. <<p[1]>> \in NamePaths /\ Len(<<p[1]>>) = 1 /\ <<p[1]>> # <<>>
    BY <1>2 DEF NamePaths
  <1>4. SubSeq(p, 1, 1) = <<p[1]>>
    <2>1. /\ SubSeq(p, 1, 1) \in NamePaths /\ Len(SubSeq(p, 1, 1)) = 1
          /\ SubSeq(p, 1, 1)[1] = p[1]
      BY <1>1, <1>2 DEF NamePaths
    <2>2. <<p[1]>>[1] = p[1]
      OBVIOUS
    <2>3. \A i \in 1 .. 1 : i = 1
      OBVIOUS
    <2> QED
      BY <1>3, <2>1, <2>2, <2>3, SeqEqual DEF NamePaths
  <1>5. 1 \in 0 .. Len(p) /\ 1 + 1 = 2
    BY <1>1
  <1>6. /\ SubSeq(p, 1 + 1, Len(p)) \in NamePaths /\ Len(SubSeq(p, 1 + 1, Len(p))) = Len(p) - 1
        /\ p = SubSeq(p, 1, 1) \o SubSeq(p, 1 + 1, Len(p))
    BY <1>5, CutIs
  <1> QED
    BY <1>1, <1>3, <1>4, <1>5, <1>6

(***************************************************************************)
(* What is listed of a tree.                                               *)
(***************************************************************************)

\* The trees of a folder at hand, its listing is that of what stands there.
LEMMA ListedWhole ==
  ASSUME NEW files \in SUBSET NamePaths, NEW dir \in NamePaths, NEW recursive \in BOOLEAN, NEW has,
         recursive => Reached(Below(files, dir)) \subseteq has
  PROVE  Listed(Below(files, dir), dir, recursive, has) = ListingOf(files, dir, recursive)
  <1>1. Below(files, dir) \subseteq NamePaths /\ <<>> \notin Below(files, dir)
    BY BelowFolder
  <1>2. CASE ~recursive
    <2>1. \A path \in Below(files, dir) : dir \o SubSeq(path, 1, 1) = dir \o <<path[1]>>
      BY <1>1, FirstName
    <2>2. {dir \o SubSeq(path, 1, 1) : path \in Below(files, dir)}
            = {dir \o <<path[1]>> : path \in Below(files, dir)}
      BY <2>1
    <2> QED
      BY <1>2, <2>2 DEF Listed, ListingOf
  <1>3. CASE recursive
    <2>1. {dir \o path : path \in Below(files, dir)} = {path \in files : IsStrictPrefix(dir, path)}
      <3>1. ASSUME NEW path \in Below(files, dir)
            PROVE  dir \o path \in files /\ IsStrictPrefix(dir, dir \o path)
        <4>1. path \in NamePaths /\ path # <<>> /\ dir \o path \in files
          BY BelowFolder
        <4> QED
          BY <4>1, OpensIs
      <3>2. ASSUME NEW path \in files, IsStrictPrefix(dir, path)
            PROVE  \E r \in Below(files, dir) : path = dir \o r
        <4>1. PICK r \in NamePaths : r # <<>> /\ path = dir \o r
          BY <3>2, OpensIs
        <4> QED
          BY <4>1, BelowFolder
      <3> QED
        BY <3>1, <3>2
    <2> QED
      BY <1>3, <2>1 DEF Listed, ListingOf
  <1> QED
    BY <1>2, <1>3

\* A listing is whole, or is none.
LEMMA ListedOrNot ==
  ASSUME NEW files \in SUBSET NamePaths, NEW dir \in NamePaths, NEW recursive \in BOOLEAN, NEW has,
         Listed(Below(files, dir), dir, recursive, has) # Unlisted
  PROVE  Listed(Below(files, dir), dir, recursive, has) = ListingOf(files, dir, recursive)
  <1>1. recursive => Reached(Below(files, dir)) \subseteq has
    BY DEF Listed
  <1> QED
    BY <1>1, ListedWhole

\* No folder lists the root in itself.
LEMMA ListsNoRoot ==
  ASSUME NEW files \in SUBSET NamePaths, NEW dir \in NamePaths, NEW recursive \in BOOLEAN
  PROVE  ListingOf(files, dir, recursive) # Unlisted
  <1>1. CASE recursive
    <2>1. \A path \in files : IsStrictPrefix(dir, path) => path # <<>>
      BY OpensIs, JoinIs
    <2> QED
      BY <1>1, <2>1 DEF ListingOf, Unlisted
  <1>2. CASE ~recursive
    <2>1. \A path \in Below(files, dir) : dir \o <<path[1]>> # <<>>
      <3> TAKE path \in Below(files, dir)
      <3>1. path \in NamePaths /\ path # <<>>
        BY BelowFolder
      <3>2. <<path[1]>> \in NamePaths /\ <<path[1]>> # <<>>
        BY <3>1, FirstName
      <3> QED
        BY <3>2, JoinIs
    <2> QED
      BY <1>2, <2>1 DEF ListingOf, Unlisted
  <1> QED
    BY <1>1, <1>2

\* A file of the commit that its parent lists is one that is shown.
LEMMA ParentLists ==
  ASSUME NEW all \in SUBSET NamePaths, \A p, q \in all : ~IsStrictPrefix(p, q),
         NEW files \in SUBSET all, NEW path \in all, path # <<>>,
         path \in ListingOf(files, Front(path), FALSE)
  PROVE  path \in files \ LinkPaths
  <1>1. Front(path) \in NamePaths /\ files \in SUBSET NamePaths /\ path \in NamePaths
    <2>1. Len(path) \in Nat \ {0}
      BY FirstName
    <2>2. Len(path) - 1 \in 0 .. Len(path)
      BY <2>1
    <2> QED
      BY <2>2, CutIs DEF Front
  <1>2. PICK r \in Below(files, Front(path)) : path = Front(path) \o <<r[1]>>
    BY DEF ListingOf
  <1>3. path \notin LinkPaths
    BY DEF ListingOf
  <1>4. r \in NamePaths /\ r # <<>> /\ Front(path) \o r \in files
    BY <1>1, BelowFolder
  <1> DEFINE rest == SubSeq(r, 2, Len(r))
  <1>5. rest \in NamePaths /\ r = <<r[1]>> \o rest /\ <<r[1]>> \in NamePaths
    BY <1>4, FirstName
  <1> HIDE DEF rest
  <1>6. Front(path) \o (<<r[1]>> \o rest) = path \o rest
    <2>1. (Front(path) \o <<r[1]>>) \o rest = Front(path) \o (<<r[1]>> \o rest)
      BY <1>1, <1>5, JoinTwice
    <2> QED
      BY <1>2, <2>1
  <1>7. path \o rest \in files
    BY <1>4, <1>5, <1>6
  <1>8. rest = <<>>
    <2>1. rest # <<>> => IsStrictPrefix(path, path \o rest)
      BY <1>1, <1>5, <1>7, OpensIs
    <2> QED
      BY <1>7, <2>1
  <1>9. path \o rest = path
    BY <1>1, <1>8, JoinIs
  <1> QED
    BY <1>3, <1>7, <1>9

(***************************************************************************)
(* Trees and their lines.                                                  *)
(***************************************************************************)

\* A path of a tree's id through a folder has a line of the folder, and the
\* line the id of what stands there.
LEMMA LineOf ==
  ASSUME NEW id \in SUBSET NamePaths, NEW dir, NEW lines \in SUBSET LinesOf(id, dir), TreeId(lines) = id,
         NEW p \in id, Len(p) > 1
  PROVE  \E line \in lines : line.kind = "tree" /\ line.id = Below(id, <<p[1]>>)
  <1>1. PICK line \in lines :
           p \in IF line.kind = "tree" THEN {<<line.name>> \o path : path \in line.id} ELSE {<<line.name>>}
    BY DEF TreeId
  <1>2. PICK path \in id :
           /\ line.name = path[1]
           /\ line.kind = "tree" => Len(path) > 1
           /\ line.id = IF Len(path) > 1 THEN Below(id, <<path[1]>>) ELSE {}
    <2> DEFINE Kind(path) == IF Len(path) > 1 THEN "tree" ELSE IF dir \o path \in LinkPaths THEN "link" ELSE "file"
               Under(path) == IF Len(path) > 1 THEN Below(id, <<path[1]>>) ELSE {}
    <2>1. LinesOf(id, dir) = {[name |-> path[1], kind |-> Kind(path), id |-> Under(path)] : path \in id}
      BY DEF LinesOf
    <2>2. \A path : Kind(path) = "tree" => Len(path) > 1
      OBVIOUS
    <2>3. \A path : Under(path) = IF Len(path) > 1 THEN Below(id, <<path[1]>>) ELSE {}
      OBVIOUS
    <2> HIDE DEF Kind, Under
    <2>4. PICK path \in id : line = [name |-> path[1], kind |-> Kind(path), id |-> Under(path)]
      BY <2>1
    <2>5. line.name = path[1] /\ line.kind = Kind(path) /\ line.id = Under(path)
      BY <2>4
    <2> QED
      BY <2>2, <2>3, <2>5
  <1>3. line.kind = "tree"
    <2>1. Len(<<line.name>>) = 1
      OBVIOUS
    <2>2. ASSUME p = <<line.name>> PROVE FALSE
      <3>1. Len(p) = 1
        BY <2>1, <2>2, Zenon
      <3> QED
        BY <3>1
    <2> QED
      BY <1>1, <2>2
  <1>4. PICK q \in line.id : p = <<line.name>> \o q
    BY <1>1, <1>3
  <1>5. Len(path) > 1 /\ path \in NamePaths /\ path # <<>>
    BY <1>2, <1>3, EmptySeq DEF NamePaths
  <1>6. <<path[1]>> \in NamePaths
    BY <1>5, FirstName
  <1>7. q \in NamePaths
    BY <1>2, <1>4, <1>5, <1>6, BelowFolder
  <1>8. (<<path[1]>> \o q)[1] = path[1]
    BY <1>6, <1>7 DEF NamePaths
  <1>9. p[1] = path[1]
    BY <1>2, <1>4, <1>8
  <1> QED
    BY <1>2, <1>3, <1>5, <1>9

\* What a function takes a finite set to is finite.
LEMMA ImageFinite ==
  ASSUME NEW S, IsFiniteSet(S), NEW f
  PROVE  IsFiniteSet({f[x] : x \in S})
  <1> DEFINE g == [x \in S |-> f[x]]
  <1>1. g \in Surjection(S, {f[x] : x \in S})
    BY DEF Surjection
  <1> QED
    BY <1>1, FS_Surjection

\* A finite set as a sequence.
LEMMA SeqOfSet ==
  ASSUME NEW S, IsFiniteSet(S)
  PROVE  SetToSeq(S) \in Seq(S)
  <1>1. Cardinality(S) \in Nat /\ ExistsBijection(1 .. Cardinality(S), S)
    BY FS_CardinalityType
  <1>2. \E f \in [1 .. Cardinality(S) -> S] : IsInjective(f)
    BY <1>1 DEF ExistsBijection, Bijection, Injection
  <1>3. SetToSeq(S) \in [1 .. Cardinality(S) -> S]
    BY <1>2 DEF SetToSeq
  <1> QED
    BY <1>1, <1>3

\* Trees have finitely many lines, and a tree finitely many folders.
LEMMA TreesFinite ==
  ASSUME NEW files \in SUBSET NamePaths, IsFiniteSet(files), NEW dir \in NamePaths
  PROVE  /\ IsFiniteSet(LinesOf(Below(files, dir), dir))
         /\ IsFiniteSet(Folders(files, dir)) /\ Folders(files, dir) \subseteq NamePaths
  <1> DEFINE under == {q \in files : IsStrictPrefix(dir, q)}
             rest == [q \in under |-> SubSeq(q, Len(dir) + 1, Len(q))]
             id == Below(files, dir)
             lineOf == [path \in id |->
                 [name |-> path[1], kind |-> IF Len(path) > 1 THEN "tree"
                                             ELSE IF dir \o path \in LinkPaths THEN "link" ELSE "file",
                  id |-> IF Len(path) > 1 THEN Below(id, <<path[1]>>) ELSE {}]]
             above == [path \in files |-> {SubSeq(path, 1, n) : n \in 0 .. Len(path) - 1}]
  <1>1. IsFiniteSet(under)
    BY FS_Subset
  <1>2. IsFiniteSet({rest[q] : q \in under})
    <2> HIDE DEF under, rest
    <2> QED
      BY <1>1, ImageFinite
  <1>3. {rest[q] : q \in under} = id
    BY DEF Below
  <1>4. IsFiniteSet({lineOf[path] : path \in id})
    <2>1. IsFiniteSet(id)
      BY <1>2, <1>3
    <2> HIDE DEF id, lineOf
    <2> QED
      BY <2>1, ImageFinite
  <1>5. {lineOf[path] : path \in id} = LinesOf(id, dir)
    <2> DEFINE line(path) ==
                 [name |-> path[1], kind |-> IF Len(path) > 1 THEN "tree"
                                             ELSE IF dir \o path \in LinkPaths THEN "link" ELSE "file",
                  id |-> IF Len(path) > 1 THEN Below(id, <<path[1]>>) ELSE {}]
    <2>1. \A path \in id : lineOf[path] = line(path)
      OBVIOUS
    <2> HIDE DEF id, lineOf
    <2>2. LinesOf(id, dir) = {line(path) : path \in id}
      BY Zenon DEF LinesOf
    <2> HIDE DEF line
    <2> QED
      BY <2>1, <2>2, Zenon
  <1>6. IsFiniteSet({above[path] : path \in files})
    <2> HIDE DEF above
    <2> QED
      BY ImageFinite
  <1>7. \A path \in files : IsFiniteSet(above[path]) /\ above[path] \subseteq NamePaths
    <2> TAKE path \in files
    <2> DEFINE sizes == [n \in 0 .. Len(path) - 1 |-> SubSeq(path, 1, n)]
    <2>0. Len(path) \in Nat
      BY DEF NamePaths
    <2>1. IsFiniteSet(0 .. Len(path) - 1)
      <3>1. 0 \in Int /\ Len(path) - 1 \in Int
        BY <2>0
      <3> QED
        BY <3>1, FS_Interval
    <2>2. IsFiniteSet({sizes[n] : n \in 0 .. Len(path) - 1})
      <3> HIDE DEF sizes
      <3> QED
        BY <2>1, ImageFinite
    <2>3. {sizes[n] : n \in 0 .. Len(path) - 1} = above[path]
      OBVIOUS
    <2>4. \A n \in 0 .. Len(path) - 1 : SubSeq(path, 1, n) \in NamePaths
      <3> TAKE n \in 0 .. Len(path) - 1
      <3>1. n \in 0 .. Len(path)
        BY <2>0
      <3> QED
        BY <3>1, CutIs
    <2> QED
      BY <2>2, <2>3, <2>4
  <1> DEFINE all == {dir} \cup UNION {above[path] : path \in files}
  <1>8. IsFiniteSet(all) /\ all \subseteq NamePaths
    <2> HIDE DEF above
    <2>1. IsFiniteSet(UNION {above[path] : path \in files})
      BY <1>6, <1>7, FS_UNION
    <2>2. IsFiniteSet((UNION {above[path] : path \in files}) \cup {dir})
      BY <2>1, FS_AddElement
    <2>3. all = (UNION {above[path] : path \in files}) \cup {dir}
      OBVIOUS
    <2> QED
      BY <1>7, <2>2, <2>3
  <1>9. Folders(files, dir) \subseteq all
    BY DEF Folders
  <1> HIDE DEF all
  <1>10. IsFiniteSet(Folders(files, dir)) /\ Folders(files, dir) \subseteq NamePaths
    BY <1>8, <1>9, FS_Subset
  <1> QED
    BY <1>4, <1>5, <1>10

(***************************************************************************)
(* The closure's body: a line of a tree, and after it lines of its         *)
(* entries, up to the next.                                                *)
(***************************************************************************)
TreeLine(files, dir)   == [path |-> dir, id |-> Below(files, dir)]
EntryLines(files, dir) == LinesOf(Below(files, dir), dir)
BodyLines(files)       == {TreeLine(files, dir) : dir \in NamePaths}
                            \cup UNION {EntryLines(files, dir) : dir \in NamePaths}
InTree(owner, body, files, k) ==
    \/ body[k] = TreeLine(files, owner[k])
    \/ k > 1 /\ owner[k - 1] = owner[k] /\ body[k] \in EntryLines(files, owner[k])
Owns(owner, body, files) ==
    owner \in [1 .. Len(body) -> NamePaths] /\ \A k \in 1 .. Len(body) : InTree(owner, body, files, k)
Regular(body, files) == body \in Seq(BodyLines(files)) /\ \E owner : Owns(owner, body, files)

\* A tree's lines.
LEMMA RegularBlock ==
  ASSUME NEW files \in SUBSET NamePaths, IsFiniteSet(files), NEW dir \in NamePaths
  PROVE  /\ Regular(BlockLines(files, dir), files)
         /\ Len(BlockLines(files, dir)) >= 1 /\ BlockLines(files, dir)[1] = TreeLine(files, dir)
  <1> DEFINE entries == SetToSeq(EntryLines(files, dir))
             body == BlockLines(files, dir)
             owner == [k \in 1 .. Len(body) |-> dir]
  <1>1. entries \in Seq(EntryLines(files, dir))
    BY TreesFinite, SeqOfSet DEF EntryLines
  <1>2. body = <<TreeLine(files, dir)>> \o entries
    BY DEF BlockLines, TreeLine, EntryLines
  <1>3. TreeLine(files, dir) \in BodyLines(files) /\ EntryLines(files, dir) \subseteq BodyLines(files)
    BY DEF BodyLines
  <1> HIDE DEF entries, body
  <1>4. entries \in Seq(BodyLines(files)) /\ <<TreeLine(files, dir)>> \in Seq(BodyLines(files))
    BY <1>1, <1>3, SeqMonotonic
  <1>5. /\ body \in Seq(BodyLines(files)) /\ Len(body) = 1 + Len(entries) /\ Len(entries) \in Nat
        /\ body[1] = TreeLine(files, dir)
    BY <1>2, <1>4
  <1>6. \A k \in 2 .. Len(body) : body[k] \in EntryLines(files, dir)
    <2> TAKE k \in 2 .. Len(body)
    <2>1. k - 1 \in 1 .. Len(entries)
      BY <1>5
    <2>2. body[k] = entries[k - 1]
      BY <1>2, <1>4, <1>5, <2>1
    <2> QED
      BY <1>1, <2>1, <2>2
  <1>7. Owns(owner, body, files)
    <2>1. ASSUME NEW k \in 1 .. Len(body) PROVE InTree(owner, body, files, k)
      <3>1. CASE k = 1
        BY <1>5, <3>1 DEF InTree
      <3>2. CASE k # 1
        <4>1. k \in 2 .. Len(body) /\ k - 1 \in 1 .. Len(body) /\ k > 1
          BY <1>5, <3>2
        <4> QED
          BY <1>6, <4>1 DEF InTree
      <3> QED
        BY <3>1, <3>2
    <2> QED
      BY <2>1 DEF Owns
  <1> QED
    BY <1>5, <1>7 DEF body, Regular

\* Bodies one after the other.
LEMMA RegularJoin ==
  ASSUME NEW files, NEW a, NEW b, Regular(a, files), Regular(b, files)
  PROVE  Regular(a \o b, files)
  <1>1. PICK ofA : Owns(ofA, a, files)
    BY DEF Regular
  <1>2. PICK ofB : Owns(ofB, b, files)
    BY DEF Regular
  <1> DEFINE n == Len(a)
             w == Len(b)
             body == a \o b
             owner == [k \in 1 .. n + w |-> IF k <= n THEN ofA[k] ELSE ofB[k - n]]
  <1>3. /\ a \in Seq(BodyLines(files)) /\ b \in Seq(BodyLines(files)) /\ n \in Nat /\ w \in Nat
        /\ body \in Seq(BodyLines(files)) /\ Len(body) = n + w
    BY DEF Regular
  <1>4. \A k \in 1 .. n : body[k] = a[k] /\ owner[k] = ofA[k]
    BY <1>3
  <1>5. \A k \in 1 .. n + w : k > n => k - n \in 1 .. w /\ body[k] = b[k - n] /\ owner[k] = ofB[k - n]
    <2> TAKE k \in 1 .. n + w
    <2> HAVE k > n
    <2>1. k - n \in 1 .. w /\ ~(k <= n)
      BY <1>3
    <2>2. body[k] = b[k - n]
      BY <1>3, <2>1
    <2> QED
      BY <2>1, <2>2
  <1>6. owner \in [1 .. n + w -> NamePaths]
    <2>1. ASSUME NEW k \in 1 .. n + w
          PROVE  (IF k <= n THEN ofA[k] ELSE ofB[k - n]) \in NamePaths
      <3>1. k <= n => k \in 1 .. n
        BY <1>3
      <3>2. k > n => k - n \in 1 .. w
        BY <1>3
      <3>3. k <= n \/ k > n
        BY <1>3
      <3> QED
        BY <1>1, <1>2, <1>3, <3>1, <3>2, <3>3 DEF Owns
    <2> QED
      BY <2>1
  <1> HIDE DEF body, owner
  <1>7. ASSUME NEW k \in 1 .. n + w PROVE InTree(owner, body, files, k)
    <2>1. CASE k <= n
      <3>1. k \in 1 .. n /\ (k > 1 => k - 1 \in 1 .. n)
        BY <1>3, <2>1
      <3> QED
        BY <1>1, <1>4, <3>1 DEF Owns, InTree
    <2>2. CASE k > n
      <3>1. k - n \in 1 .. w /\ body[k] = b[k - n] /\ owner[k] = ofB[k - n]
        BY <1>5, <2>2
      <3>2. k - n > 1 => k > 1 /\ k - 1 \in 1 .. n + w /\ k - 1 > n /\ (k - 1) - n = (k - n) - 1
        BY <1>3, <2>2
      <3>3. InTree(ofB, b, files, k - n)
        BY <1>2, <3>1 DEF Owns
      <3> HIDE DEF n, w
      <3>4. k - n > 1 => owner[k - 1] = ofB[(k - n) - 1]
        BY <1>5, <3>2
      <3> QED
        BY <3>1, <3>2, <3>3, <3>4 DEF InTree
    <2> QED
      BY <1>3, <2>1, <2>2
  <1> QED
    BY <1>3, <1>6, <1>7 DEF Regular, Owns, body

\* No line at all.
LEMMA RegularEmpty == \A files : Regular(<<>>, files)
  <1> TAKE files
  <1> DEFINE owner == [k \in 1 .. 0 |-> <<>>]
  <1>1. Len(<<>>) = 0 /\ <<>> \in Seq(BodyLines(files)) /\ 1 .. 0 = {}
    BY EmptySeq
  <1>2. owner \in [1 .. 0 -> NamePaths]
    BY <1>1
  <1> HIDE DEF owner
  <1>3. Owns(owner, <<>>, files)
    BY <1>1, <1>2 DEF Owns
  <1> QED
    BY <1>1, <1>3 DEF Regular

\* A body cut short.
LEMMA RegularCut ==
  ASSUME NEW files, NEW body, Regular(body, files), NEW size \in 0 .. Len(body)
  PROVE  /\ Regular(SubSeq(body, 1, size), files)
         /\ Len(SubSeq(body, 1, size)) = size
         /\ size > 0 => SubSeq(body, 1, size)[1] = body[1]
  <1> DEFINE cut == SubSeq(body, 1, size)
  <1>1. PICK owner : Owns(owner, body, files)
    BY DEF Regular
  <1>2. /\ body \in Seq(BodyLines(files)) /\ Len(body) \in Nat /\ size \in Nat /\ size <= Len(body)
        /\ cut \in Seq(BodyLines(files)) /\ Len(cut) = size
    BY DEF Regular
  <1>3. \A k \in 1 .. size : cut[k] = body[k]
    BY <1>2
  <1> DEFINE part == [k \in 1 .. size |-> owner[k]]
  <1>4. part \in [1 .. size -> NamePaths]
    BY <1>1, <1>2 DEF Owns
  <1> HIDE DEF cut
  <1>5. \A k \in 1 .. size : InTree(part, cut, files, k)
    <2> TAKE k \in 1 .. size
    <2>1. InTree(owner, body, files, k)
      BY <1>1, <1>2 DEF Owns
    <2>2. part[k] = owner[k] /\ cut[k] = body[k] /\ (k > 1 => part[k - 1] = owner[k - 1])
      BY <1>2, <1>3
    <2> HIDE DEF part
    <2> QED
      BY <2>1, <2>2 DEF InTree
  <1> HIDE DEF part
  <1>6. Owns(part, cut, files)
    BY <1>2, <1>4, <1>5 DEF Owns
  <1>7. Regular(cut, files)
    BY <1>2, <1>6 DEF Regular
  <1> QED
    BY <1>2, <1>3, <1>7 DEF cut

\* A set of numbers has a least one.
LEMMA LeastNumber ==
  ASSUME NEW S \in SUBSET Nat, S # {}
  PROVE  \E n \in S : \A m \in S : n <= m
  <1> DEFINE R == {ss \in Nat \X Nat : ss[1] < ss[2]}
  <1>1. IsWellFoundedOn(R, Nat)
    BY NatLessThanWellFounded DEF OpToRel
  <1>2. PICK n \in S : \A m \in S : ~(<<m, n>> \in R)
    <2> HIDE DEF R
    <2> QED
      BY <1>1, WFMin
  <1>3. \A m \in S : ~(m < n)
    BY <1>2
  <1> QED
    BY <1>3

\* Bodies joined in turn are a body.
LEMMA RegularFlat ==
  ASSUME NEW files, NEW bodies, NEW n \in Nat, DOMAIN bodies = 1 .. n, Len(bodies) = n,
         \A i \in 1 .. n : Regular(bodies[i], files), n = 0 => bodies = <<>>
  PROVE  Regular(FlattenSeq(bodies), files)
  <1> DEFINE Joins(g, m) == g = [i \in 1 .. m |-> IF i = 1 THEN bodies[i] ELSE g[i - 1] \o bodies[i]]
             Bad == {m \in 0 .. n : \A g : ~Joins(g, m)}
  <1>1. Bad = {}
    <2>1. SUFFICES ASSUME Bad # {} PROVE FALSE
      OBVIOUS
    <2>6. Bad \in SUBSET Nat
      <3> HIDE DEF Joins
      <3> QED
        OBVIOUS
    <2>2. PICK m \in Bad : \A o \in Bad : m <= o
      <3> HIDE DEF Bad
      <3> QED
        BY <2>1, <2>6, LeastNumber
    <2>3. m \in Nat /\ m <= n
      OBVIOUS
    <2>4. CASE m = 0
      <3>1. Joins([i \in 1 .. 0 |-> <<>>], 0)
        <4>1. 1 .. 0 = {}
          OBVIOUS
        <4> QED
          BY <4>1
      <3> QED
        BY <2>4, <3>1
    <2>5. CASE m # 0
      <3>1. m - 1 \in 0 .. n /\ ~(m <= m - 1) /\ (m - 1) + 1 = m
        BY <2>3, <2>5
      <3>6. m - 1 \notin Bad
        BY <2>2, <3>1
      <3>2. PICK g : Joins(g, m - 1)
        <4> HIDE DEF Joins
        <4> QED
          BY <3>1, <3>6
      <3> DEFINE h == [i \in 1 .. m |-> IF i # m THEN g[i]
                          ELSE IF i = 1 THEN bodies[i] ELSE g[i - 1] \o bodies[i]]
      <3>3. \A i \in 1 .. m : h[i] = IF i = 1 THEN bodies[i] ELSE h[i - 1] \o bodies[i]
        <4> TAKE i \in 1 .. m
        <4>1. i # 1 => i - 1 \in 1 .. m /\ i - 1 # m
          BY <2>3
        <4>2. i # m => i \in 1 .. m - 1
          BY <2>3
        <4>3. i # m => g[i] = IF i = 1 THEN bodies[i] ELSE g[i - 1] \o bodies[i]
          BY <3>2, <4>2
        <4>4. i # 1 => h[i - 1] = g[i - 1]
          BY <4>1
        <4> QED
          BY <4>3, <4>4
      <3>4. h = [i \in 1 .. m |-> h[i]]
        OBVIOUS
      <3>5. Joins(h, m)
        <4> HIDE DEF h
        <4> QED
          BY <3>3, <3>4
      <3> QED
        BY <3>5
    <2> QED
      BY <2>4, <2>5
  <1> DEFINE flat == CHOOSE g : Joins(g, n)
  <1>2. Joins(flat, n)
    <2>1. \E g : Joins(g, n)
      <3> HIDE DEF Joins
      <3>1. n \in 0 .. n
        OBVIOUS
      <3> QED
        BY <1>1, <3>1
    <2> HIDE DEF Joins
    <2> QED
      BY <2>1
  <1>3. \A i \in 1 .. n : flat[i] = IF i = 1 THEN bodies[i] ELSE flat[i - 1] \o bodies[i]
    <2> HIDE DEF flat
    <2> QED
      BY <1>2
  <1>4. FlattenSeq(bodies) = IF n = 0 THEN bodies ELSE flat[n]
    BY DEF FlattenSeq
  <1> HIDE DEF flat, Joins
  <1> DEFINE Odd == {i \in 1 .. n : ~Regular(flat[i], files)}
  <1>5. Odd = {}
    <2>1. SUFFICES ASSUME Odd # {} PROVE FALSE
      OBVIOUS
    <2>6. Odd \in SUBSET Nat
      OBVIOUS
    <2>2. PICK m \in Odd : \A o \in Odd : m <= o
      <3> HIDE DEF Odd
      <3> QED
        BY <2>1, <2>6, LeastNumber
    <2>3. m # 1 => m - 1 \in 1 .. n /\ ~(m <= m - 1)
      OBVIOUS
    <2>4. m # 1 => Regular(flat[m - 1], files)
      BY <2>2, <2>3
    <2>5. Regular(flat[m], files)
      BY <1>3, <2>4, RegularJoin
    <2> QED
      BY <2>5
  <1> QED
    BY <1>4, <1>5, RegularEmpty

\* What the server sends of a scope.
LEMMA BodyRegular ==
  ASSUME NEW files \in SUBSET NamePaths, IsFiniteSet(files), NEW scope \in NamePaths
  PROVE  /\ Regular(Body(files, scope), files) /\ Len(Body(files, scope)) \in Nat
         /\ Body(files, scope)[1] = TreeLine(files, scope) /\ Len(Body(files, scope)) >= 1
  <1> DEFINE others == SetToSeq(Folders(files, scope) \ {scope})
             bodies == [i \in DOMAIN others |-> BlockLines(files, others[i])]
             first == BlockLines(files, scope)
  <1>1. others \in Seq(NamePaths)
    <2>1. IsFiniteSet(Folders(files, scope) \ {scope}) /\ Folders(files, scope) \ {scope} \subseteq NamePaths
      BY TreesFinite, FS_Difference
    <2>2. others \in Seq(Folders(files, scope) \ {scope})
      BY <2>1, SeqOfSet
    <2> HIDE DEF others
    <2> QED
      BY <2>1, <2>2, SeqMonotonic
  <1> HIDE DEF others
  <1>2. Len(others) \in Nat /\ DOMAIN others = 1 .. Len(others)
    BY <1>1
  <1>3. \A i \in 1 .. Len(others) : Regular(bodies[i], files)
    <2> TAKE i \in 1 .. Len(others)
    <2>1. others[i] \in NamePaths
      BY <1>1
    <2>2. bodies[i] = BlockLines(files, others[i])
      BY <1>2
    <2> QED
      BY <2>1, <2>2, RegularBlock
  <1>4. /\ DOMAIN bodies = 1 .. Len(others) /\ Len(bodies) = Len(others)
        /\ Len(others) = 0 => bodies = <<>>
    <2>1. DOMAIN bodies = 1 .. Len(others)
      BY <1>2
    <2>2. bodies \in Seq(BodyLines(files) \cup {bodies[i] : i \in 1 .. Len(others)})
      BY <1>2
    <2>3. Len(bodies) = Len(others)
      BY <1>2, <2>1, <2>2
    <2> QED
      BY <2>1, <2>2, <2>3, EmptySeq
  <1> HIDE DEF bodies
  <1>5. Regular(FlattenSeq(bodies), files)
    BY <1>2, <1>3, <1>4, RegularFlat
  <1>6. /\ Regular(first, files) /\ Len(first) >= 1 /\ first[1] = TreeLine(files, scope)
    BY RegularBlock
  <1>7. Body(files, scope) = first \o FlattenSeq(bodies)
    BY DEF Body, bodies, others
  <1> HIDE DEF first
  <1>8. /\ first \in Seq(BodyLines(files)) /\ FlattenSeq(bodies) \in Seq(BodyLines(files))
    BY <1>5, <1>6 DEF Regular
  <1>9. (first \o FlattenSeq(bodies))[1] = first[1] /\ Len(first \o FlattenSeq(bodies)) >= 1
        /\ Len(first \o FlattenSeq(bodies)) \in Nat
    BY <1>6, <1>8
  <1> QED
    BY <1>5, <1>6, <1>7, <1>9, RegularJoin

(***************************************************************************)
(* The blocks read of a body: a fold over its lines, from the left.        *)
(***************************************************************************)

\* The greatest of the numbers up to one.
LEMMA GreatestIs ==
  ASSUME NEW n \in Nat, NEW S \in SUBSET (1 .. n + 1), n + 1 \in S
  PROVE  Max(S) = n + 1
  <1>1. Max(S) = CHOOSE x \in S : \A y \in S : x >= y
    BY DEF Max
  <1>2. \A y \in S : n + 1 >= y
    OBVIOUS
  <1>3. \A x \in S : (\A y \in S : x >= y) => x = n + 1
    <2> SUFFICES ASSUME NEW x \in S, \A y \in S : x >= y PROVE x = n + 1
      OBVIOUS
    <2>1. x >= n + 1
      OBVIOUS
    <2>2. x \in 1 .. n + 1
      OBVIOUS
    <2> QED
      BY <2>1, <2>2
  <1> QED
    BY <1>1, <1>2, <1>3

\* A set of numbers up to one has a greatest.
LEMMA GreatestIn ==
  ASSUME NEW n \in Nat, NEW S \in SUBSET (1 .. n), S # {}
  PROVE  Max(S) \in S
  <1> DEFINE gaps == {n - x : x \in S}
  <1>1. gaps \in SUBSET Nat /\ gaps # {}
    <2>1. \A x \in S : n - x \in Nat
      OBVIOUS
    <2>2. gaps \in SUBSET Nat
      BY <2>1
    <2>3. gaps # {}
      <3>1. PICK x \in S : TRUE
        OBVIOUS
      <3>2. n - x \in gaps
        OBVIOUS
      <3> HIDE DEF gaps
      <3> QED
        BY <3>2
    <2> QED
      BY <2>2, <2>3
  <1>2. PICK g \in gaps : \A o \in gaps : g <= o
    <2> HIDE DEF gaps
    <2> QED
      BY <1>1, LeastNumber
  <1>3. PICK x \in S : g = n - x
    OBVIOUS
  <1>4. \A y \in S : x >= y
    <2> TAKE y \in S
    <2>1. n - y \in gaps /\ x \in Nat /\ y \in Nat
      OBVIOUS
    <2> QED
      BY <1>2, <1>3, <2>1
  <1> QED
    BY <1>4 DEF Max

\* The fold, line by line.
LEMMA FoldIs ==
  ASSUME NEW T, NEW body \in Seq(T)
  PROVE  \E acc : /\ acc[0] = <<>> /\ Blocks(body) = acc[Len(body)]
                  /\ \A k \in 1 .. Len(body) : acc[k] = Grouped(acc[k - 1], body[k])
  <1> DEFINE n == Len(body)
             Folds(g, m) == g = [t \in SUBSET (1 .. m) |-> IF t = {} THEN <<>>
                                   ELSE Grouped(g[t \ {Max(t)}], body[Max(t)])]
             Bad == {m \in 0 .. n : \A g : ~Folds(g, m)}
  <1>0. n \in Nat /\ DOMAIN body = 1 .. n
    OBVIOUS
  <1> HIDE DEF n
  <1>1. Bad = {}
    <2>1. SUFFICES ASSUME Bad # {} PROVE FALSE
      OBVIOUS
    <2>6. Bad \in SUBSET Nat
      <3> HIDE DEF Folds
      <3> QED
        BY <1>0
    <2>2. PICK m \in Bad : \A o \in Bad : m <= o
      <3> HIDE DEF Bad
      <3> QED
        BY <2>1, <2>6, LeastNumber
    <2>3. m \in Nat /\ m <= n
      <3> HIDE DEF Folds
      <3> QED
        BY <1>0
    <2>4. CASE m = 0
      <3> DEFINE g == [t \in SUBSET (1 .. 0) |-> <<>>]
      <3>1. Folds(g, 0)
        <4>1. \A t \in SUBSET (1 .. 0) : t = {}
          OBVIOUS
        <4>2. g = [t \in SUBSET (1 .. 0) |-> IF t = {} THEN <<>> ELSE Grouped(g[t \ {Max(t)}], body[Max(t)])]
          BY <4>1
        <4> QED
          BY <4>2
      <3> HIDE DEF Folds
      <3> QED
        BY <2>4, <3>1
    <2>5. CASE m # 0
      <3>1. m - 1 \in 0 .. n /\ ~(m <= m - 1) /\ (m - 1) + 1 = m /\ m - 1 \in Nat
        BY <1>0, <2>3, <2>5
      <3>6. m - 1 \notin Bad
        BY <2>2, <3>1
      <3>2. PICK g : Folds(g, m - 1)
        <4> HIDE DEF Folds
        <4> QED
          BY <3>1, <3>6
      <3> DEFINE h == [t \in SUBSET (1 .. m) |->
                          IF m \in t THEN Grouped(g[t \ {m}], body[m]) ELSE g[t]]
      <3>3. \A t \in SUBSET (1 .. m) : h[t] = IF t = {} THEN <<>> ELSE Grouped(h[t \ {Max(t)}], body[Max(t)])
        <4> TAKE t \in SUBSET (1 .. m)
        <4>1. CASE m \in t
          <5>1. Max(t) = m
            BY <3>1, <4>1, GreatestIs
          <5>2. t \ {m} \in SUBSET (1 .. m) /\ m \notin t \ {m} /\ t # {}
            BY <4>1
          <5>3. h[t \ {m}] = g[t \ {m}]
            BY <5>2
          <5> HIDE DEF Folds
          <5> QED
            BY <4>1, <5>1, <5>2, <5>3
        <4>2. CASE m \notin t
          <5>1. t \in SUBSET (1 .. m - 1)
            BY <2>3, <4>2
          <5>2. t # {} => Max(t) \in t
            BY <3>1, <5>1, GreatestIn
          <5>3. t # {} => t \ {Max(t)} \in SUBSET (1 .. m) /\ m \notin t \ {Max(t)}
            BY <4>2
          <5>4. t # {} => h[t \ {Max(t)}] = g[t \ {Max(t)}]
            BY <5>3
          <5>5. g[t] = IF t = {} THEN <<>> ELSE Grouped(g[t \ {Max(t)}], body[Max(t)])
            BY <3>2, <5>1
          <5> HIDE DEF Folds
          <5> QED
            BY <4>2, <5>4, <5>5
        <4> QED
          BY <4>1, <4>2
      <3>4. h = [t \in SUBSET (1 .. m) |-> h[t]]
        OBVIOUS
      <3>5. Folds(h, m)
        <4> HIDE DEF h
        <4> QED
          BY <3>3, <3>4
      <3> HIDE DEF Folds, h
      <3> QED
        BY <3>5
    <2> QED
      BY <2>4, <2>5
  <1> DEFINE iter == CHOOSE g : Folds(g, n)
  <1>2. Folds(iter, n)
    <2>1. \E g : Folds(g, n)
      <3> HIDE DEF Folds
      <3>1. n \in 0 .. n
        BY <1>0
      <3> QED
        BY <1>1, <3>1
    <2> HIDE DEF Folds
    <2> QED
      BY <2>1
  <1>3. Blocks(body) = iter[1 .. n]
    BY <1>0 DEF Blocks, FoldLeft, MapThenFoldSet
  <1> HIDE DEF iter
  <1> DEFINE acc == [k \in 0 .. n |-> iter[1 .. k]]
  <1>4. acc[0] = <<>> /\ acc[n] = iter[1 .. n]
    <2>1. 1 .. 0 = {} /\ {} \in SUBSET (1 .. n) /\ 0 \in 0 .. n /\ n \in 0 .. n
      BY <1>0
    <2> QED
      BY <1>2, <2>1
  <1>5. \A k \in 1 .. n : acc[k] = Grouped(acc[k - 1], body[k])
    <2> TAKE k \in 1 .. n
    <2>1. /\ k - 1 \in Nat /\ (k - 1) + 1 = k /\ k - 1 \in 0 .. n /\ k \in 0 .. n
          /\ 1 .. k \in SUBSET (1 .. n) /\ k \in 1 .. k /\ 1 .. k # {} /\ (1 .. k) \ {k} = 1 .. k - 1
      BY <1>0
    <2>2. Max(1 .. k) = k
      BY <2>1, GreatestIs
    <2>3. iter[1 .. k] = IF 1 .. k = {} THEN <<>> ELSE Grouped(iter[(1 .. k) \ {Max(1 .. k)}], body[Max(1 .. k)])
      BY <1>2, <2>1
    <2>4. iter[1 .. k] = Grouped(iter[1 .. k - 1], body[k])
      <3> HIDE DEF Folds
      <3> QED
        BY <2>1, <2>2, <2>3
    <2> HIDE DEF Folds
    <2> QED
      BY <2>1, <2>4
  <1> QED
    BY <1>3, <1>4, <1>5 DEF n

BlocksOf(files) ==
    {block \in [path : NamePaths, id : SUBSET NamePaths, lines : SUBSET UNION {EntryLines(files, dir) : dir \in NamePaths}] :
        block.id = Below(files, block.path) /\ block.lines \subseteq EntryLines(files, block.path)}

\* A tree's line opens its block.
LEMMA GroupedTree ==
  ASSUME NEW files \in SUBSET NamePaths, NEW blocks \in Seq(BlocksOf(files)), NEW dir \in NamePaths
  PROVE  LET after == Grouped(blocks, TreeLine(files, dir))
         IN  /\ after \in Seq(BlocksOf(files)) /\ Len(after) = Len(blocks) + 1
             /\ after[Len(after)].path = dir
             /\ IF blocks = <<>> THEN after[1].path = dir ELSE after[1].path = blocks[1].path
  <1> DEFINE block == [path |-> dir, id |-> Below(files, dir), lines |-> {}]
             after == Grouped(blocks, TreeLine(files, dir))
  <1>1. block \in BlocksOf(files) /\ block.path = dir
    BY BelowFolder DEF BlocksOf
  <1>2. after = Append(blocks, block)
    BY DEF Grouped, IsTreeLine, TreeLine
  <1> HIDE DEF block, after
  <1>3. /\ after \in Seq(BlocksOf(files)) /\ Len(after) = Len(blocks) + 1 /\ Len(blocks) \in Nat
        /\ after[Len(blocks) + 1] = block
        /\ Len(blocks) >= 1 => after[1] = blocks[1]
    BY <1>1, <1>2
  <1>4. blocks = <<>> <=> Len(blocks) = 0
    BY EmptySeq
  <1> QED
    BY <1>1, <1>3, <1>4 DEF after

\* A sequence that is not empty has a last element.
LEMMA LastIndex == \A k \in Nat \ {0} : k \in 1 .. k
  OBVIOUS

\* The line of an entry joins the last block.
LEMMA GroupedEntry ==
  ASSUME NEW files \in SUBSET NamePaths, NEW blocks \in Seq(BlocksOf(files)), blocks # <<>>,
         NEW line \in EntryLines(files, blocks[Len(blocks)].path)
  PROVE  LET after == Grouped(blocks, line)
         IN  /\ after \in Seq(BlocksOf(files)) /\ Len(after) = Len(blocks)
             /\ after[Len(after)].path = blocks[Len(blocks)].path
             /\ after[1].path = blocks[1].path
  <1> DEFINE n == Len(blocks)
             last == blocks[n]
             block == [last EXCEPT !.lines = @ \cup {line}]
             after == Grouped(blocks, line)
  <1>1. n \in Nat \ {0}
    BY EmptySeq
  <1>2. last \in BlocksOf(files)
    BY <1>1
  <1>3. block \in BlocksOf(files) /\ block.path = last.path
    <2> DEFINE some == UNION {EntryLines(files, dir) : dir \in NamePaths}
    <2>1. /\ last \in [path : NamePaths, id : SUBSET NamePaths, lines : SUBSET some]
          /\ last.id = Below(files, last.path) /\ last.lines \subseteq EntryLines(files, last.path)
      BY <1>2 DEF BlocksOf
    <2>2. line \in some /\ line \in EntryLines(files, last.path)
      BY <2>1
    <2> HIDE DEF some, last
    <2>3. block \in [path : NamePaths, id : SUBSET NamePaths, lines : SUBSET some]
      BY <2>1, <2>2
    <2>4. block.path = last.path /\ block.id = last.id /\ block.lines = last.lines \cup {line}
      BY <2>1
    <2>5. block.lines \subseteq EntryLines(files, last.path)
      BY <2>1, <2>2, <2>4
    <2> QED
      BY <2>1, <2>3, <2>4, <2>5 DEF BlocksOf, some
  <1>4. ~IsTreeLine(line)
    <2>1. DOMAIN line = {"name", "kind", "id"}
      <3> DEFINE dir == last.path
                 id == Below(files, dir)
                 Kind(path) == IF Len(path) > 1 THEN "tree" ELSE IF dir \o path \in LinkPaths THEN "link" ELSE "file"
                 Under(path) == IF Len(path) > 1 THEN Below(id, <<path[1]>>) ELSE {}
      <3>1. EntryLines(files, dir) = {[name |-> path[1], kind |-> Kind(path), id |-> Under(path)] : path \in id}
        BY DEF EntryLines, LinesOf
      <3>2. line \in EntryLines(files, dir)
        OBVIOUS
      <3> HIDE DEF Kind, Under, id, dir
      <3> QED
        BY <3>1, <3>2
    <2> QED
      BY <2>1 DEF IsTreeLine
  <1>5. after = [blocks EXCEPT ![n] = block]
    BY <1>4 DEF Grouped
  <1> HIDE DEF block, after, last
  <1>6. n \in 1 .. Len(blocks)
    BY <1>1, LastIndex, Zenon
  <1>7. /\ after \in Seq(BlocksOf(files)) /\ Len(after) = n /\ after[n] = block
        /\ \A i \in 1 .. n : i # n => after[i] = blocks[i]
    <2> HIDE DEF n
    <2>1. [blocks EXCEPT ![n] = block] \in Seq(BlocksOf(files)) /\ Len([blocks EXCEPT ![n] = block]) = Len(blocks)
      BY <1>3, <1>6, ExceptSeq
    <2>2. \A j \in 1 .. Len(blocks) : [blocks EXCEPT ![n] = block][j] = IF j = n THEN block ELSE blocks[j]
      BY <1>6
    <2> QED
      BY <1>5, <1>6, <2>1, <2>2 DEF n
  <1>8. after[1].path = blocks[1].path
    <2>1. CASE n = 1
      BY <1>3, <1>7, <2>1 DEF last
    <2>2. CASE n # 1
      BY <1>1, <1>7, <2>2
    <2> QED
      BY <2>1, <2>2
  <1> QED
    BY <1>3, <1>7, <1>8 DEF after, last

\* The blocks of a body that opens with a scope's tree line.
LEMMA BlocksIs ==
  ASSUME NEW files \in SUBSET NamePaths, NEW body, Regular(body, files), NEW scope \in NamePaths,
         Len(body) >= 1, body[1] = TreeLine(files, scope)
  PROVE  /\ Blocks(body) \in Seq(BlocksOf(files)) /\ Blocks(body) # <<>>
         /\ Blocks(body)[1].path = scope
  <1>1. PICK owner : Owns(owner, body, files)
    BY DEF Regular
  <1> DEFINE n == Len(body)
  <1>2. body \in Seq(BodyLines(files)) /\ n \in Nat /\ n >= 1
    BY DEF Regular
  <1>3. PICK acc : /\ acc[0] = <<>> /\ Blocks(body) = acc[n]
                   /\ \A k \in 1 .. n : acc[k] = Grouped(acc[k - 1], body[k])
    BY <1>2, FoldIs
  <1> DEFINE Fits(k) == /\ acc[k] \in Seq(BlocksOf(files)) /\ acc[k] # <<>>
                        /\ acc[k][Len(acc[k])].path = owner[k] /\ acc[k][1].path = scope
             Bad == {k \in 1 .. n : ~Fits(k)}
  <1>4. owner[1] = scope
    <2>1. InTree(owner, body, files, 1) /\ 1 \in 1 .. n
      BY <1>1, <1>2 DEF Owns
    <2>2. body[1] = TreeLine(files, owner[1])
      BY <2>1 DEF InTree
    <2>3. TreeLine(files, owner[1]).path = owner[1] /\ TreeLine(files, scope).path = scope
      BY DEF TreeLine
    <2> QED
      BY <2>2, <2>3
  <1>5. Fits(1)
    <2>1. acc[1] = Grouped(<<>>, TreeLine(files, scope)) /\ <<>> \in Seq(BlocksOf(files)) /\ Len(<<>>) = 0
      <3>1. 1 \in 1 .. n /\ 1 - 1 = 0
        BY <1>2
      <3> QED
        BY <1>3, <3>1, EmptySeq
    <2>2. acc[1] \in Seq(BlocksOf(files)) /\ Len(acc[1]) = 1 /\ acc[1][1].path = scope
      <3> DEFINE after == Grouped(<<>>, TreeLine(files, scope))
      <3>1. /\ after \in Seq(BlocksOf(files)) /\ Len(after) = Len(<<>>) + 1
            /\ after[Len(after)].path = scope
        BY <2>1, GroupedTree
      <3> HIDE DEF after
      <3>2. Len(after) = 1
        BY <2>1, <3>1
      <3> QED
        BY <2>1, <3>1, <3>2 DEF after
    <2>3. acc[1] # <<>>
      BY <2>1, <2>2
    <2> QED
      BY <1>4, <2>2, <2>3
  <1>6. ASSUME NEW k \in 1 .. n, k # 1, Fits(k - 1)
        PROVE  Fits(k)
    <2>1. k \in 1 .. n /\ k - 1 \in 1 .. n
      BY <1>2, <1>6
    <2>2. acc[k] = Grouped(acc[k - 1], body[k]) /\ InTree(owner, body, files, k) /\ owner[k] \in NamePaths
      BY <1>1, <1>3, <2>1 DEF Owns
    <2> DEFINE before == acc[k - 1]
    <2>3. before \in Seq(BlocksOf(files)) /\ before # <<>> /\ before[Len(before)].path = owner[k - 1] /\ before[1].path = scope
      BY <1>6
    <2>4. acc[k] = Grouped(before, body[k])
      BY <2>2
    <2> HIDE DEF before
    <2>5. Len(before) \in Nat \ {0}
      BY <2>3, EmptySeq
    <2>6. CASE body[k] = TreeLine(files, owner[k])
      <3>1. /\ acc[k] \in Seq(BlocksOf(files)) /\ Len(acc[k]) = Len(before) + 1
            /\ acc[k][Len(acc[k])].path = owner[k] /\ acc[k][1].path = scope
        <4> DEFINE after == Grouped(before, TreeLine(files, owner[k]))
        <4>1. /\ after \in Seq(BlocksOf(files)) /\ Len(after) = Len(before) + 1
              /\ after[Len(after)].path = owner[k]
              /\ IF before = <<>> THEN after[1].path = owner[k] ELSE after[1].path = before[1].path
          BY <2>2, <2>3, GroupedTree
        <4>2. acc[k] = after
          BY <2>4, <2>6
        <4> HIDE DEF after
        <4> QED
          BY <2>3, <4>1, <4>2
      <3>2. acc[k] # <<>>
        BY <2>5, <3>1, EmptySeq
      <3> QED
        BY <3>1, <3>2
    <2>7. CASE owner[k - 1] = owner[k] /\ body[k] \in EntryLines(files, owner[k])
      <3>1. /\ acc[k] \in Seq(BlocksOf(files)) /\ Len(acc[k]) = Len(before)
            /\ acc[k][Len(acc[k])].path = owner[k] /\ acc[k][1].path = scope
        BY <2>3, <2>4, <2>7, GroupedEntry
      <3>2. acc[k] # <<>>
        BY <2>5, <3>1, EmptySeq
      <3> QED
        BY <3>1, <3>2
    <2> QED
      BY <2>2, <2>6, <2>7 DEF InTree
  <1> HIDE DEF Fits
  <1>7. Bad = {}
    <2>1. SUFFICES ASSUME Bad # {} PROVE FALSE
      OBVIOUS
    <2>2. Bad \in SUBSET Nat
      BY <1>2
    <2>3. PICK m \in Bad : \A o \in Bad : m <= o
      <3> HIDE DEF Bad
      <3> QED
        BY <2>1, <2>2, LeastNumber
    <2>4. m \in 1 .. n /\ ~Fits(m)
      OBVIOUS
    <2>5. m # 1
      BY <1>5, <2>4
    <2>6. m - 1 \in 1 .. n /\ ~(m <= m - 1)
      BY <1>2, <2>4, <2>5
    <2>7. Fits(m - 1)
      BY <2>3, <2>6
    <2> QED
      BY <1>6, <2>4, <2>5, <2>7
  <1>8. Fits(n)
    <2>1. n \in 1 .. n
      BY <1>2
    <2> QED
      BY <1>7, <2>1
  <1> QED
    BY <1>3, <1>8 DEF Fits

\* Cut at its first name, a path opens with what the rest opens with.
LEMMA CutPast ==
  ASSUME NEW p \in NamePaths, NEW m \in Nat, m > 1, m < Len(p)
  PROVE  LET q == SubSeq(p, 2, Len(p))
         IN  /\ q \in NamePaths /\ m - 1 < Len(q) /\ SubSeq(q, 1, m - 1) \in NamePaths
             /\ SubSeq(p, 1, m) = <<p[1]>> \o SubSeq(q, 1, m - 1)
  <1> DEFINE q == SubSeq(p, 2, Len(p))
             a == <<p[1]>>
             c == SubSeq(q, 1, m - 1)
             d == SubSeq(q, (m - 1) + 1, Len(q))
  <1>0. p # <<>>
    BY JoinIs
  <1>1. a \in NamePaths /\ Len(a) = 1 /\ q \in NamePaths /\ Len(q) = Len(p) - 1 /\ p = a \o q /\ Len(p) \in Nat
    BY <1>0, FirstName
  <1>2. m - 1 \in 0 .. Len(q) /\ m - 1 < Len(q)
    BY <1>1
  <1> HIDE DEF a, q
  <1>3. c \in NamePaths /\ Len(c) = m - 1 /\ d \in NamePaths /\ q = c \o d
    BY <1>1, <1>2, CutIs
  <1> HIDE DEF c, d
  <1>4. a \o c \in NamePaths /\ Len(a \o c) = 1 + (m - 1)
    BY <1>1, <1>3, JoinIs
  <1>5. (a \o c) \o d = a \o (c \o d)
    <2>1. a \in NamePaths /\ c \in NamePaths /\ d \in NamePaths
      BY <1>1, <1>3
    <2> QED
      BY <2>1, JoinTwice, Zenon
  <1>6. (a \o c) \o d = p
    BY <1>1, <1>3, <1>5
  <1>7. SubSeq((a \o c) \o d, 1, Len(a \o c)) = a \o c
    BY <1>3, <1>4, CutOfJoin
  <1>8. 1 + (m - 1) = m
    OBVIOUS
  <1>9. SubSeq(p, 1, m) = a \o c
    BY <1>4, <1>6, <1>7, <1>8
  <1> QED
    BY <1>1, <1>2, <1>3, <1>9 DEF a, c, q

\* A closure that parses, however it was cut, has every tree of its scope.
CutBlocks(files, scope, size) == Blocks(SubSeq(Body(files, scope), 1, size))
LEMMA ClosureWhole ==
  ASSUME NEW files \in SUBSET NamePaths, IsFiniteSet(files), NEW scope \in NamePaths,
         NEW size \in 0 .. Len(Body(files, scope)),
         Parses(SubSeq(Body(files, scope), 1, size), scope)
  PROVE  /\ CutBlocks(files, scope, size)[1].id = Below(files, scope)
         /\ DOMAIN CutBlocks(files, scope, size) = 1 .. Len(CutBlocks(files, scope, size))
         /\ Len(CutBlocks(files, scope, size)) \in Nat \ {0}
         /\ Reached(CutBlocks(files, scope, size)[1].id) \subseteq
              {CutBlocks(files, scope, size)[i].id : i \in DOMAIN CutBlocks(files, scope, size)}
  <1>a. PICK blocks : blocks = CutBlocks(files, scope, size)
    OBVIOUS
  <1>0. blocks = Blocks(SubSeq(Body(files, scope), 1, size))
    BY <1>a DEF CutBlocks
  <1> USE <1>0
  <1> DEFINE body == Body(files, scope)
             cut == SubSeq(body, 1, size)
             ids == {blocks[i].id : i \in DOMAIN blocks}
  <1>1. Regular(body, files) /\ body[1] = TreeLine(files, scope) /\ Len(body) \in Nat
    BY BodyRegular
  <1>2. Regular(cut, files) /\ Len(cut) = size /\ (size > 0 => cut[1] = body[1])
    <2> HIDE DEF body
    <2> QED
      BY <1>1, RegularCut DEF body
  <1>3. cut # <<>> /\ blocks = Blocks(cut)
    BY DEF Parses
  <1>4. /\ \A i \in DOMAIN blocks : TreeId(blocks[i].lines) = blocks[i].id
        /\ \A i \in DOMAIN blocks : \A line \in TreeEntries(blocks[i]) : \E j \in DOMAIN blocks : blocks[j].id = line.id
    <2>1. /\ \A i \in DOMAIN blocks : TreeId(blocks[i].lines) = blocks[i].id
          /\ Answered(blocks)
      BY Zenon DEF Parses
    <2>2. \A i \in DOMAIN blocks : \A line \in TreeEntries(blocks[i]) :
             \E j \in DOMAIN blocks :
               blocks[j].path = Append(blocks[i].path, line.name) /\ blocks[j].id = line.id
      BY <2>1, Zenon DEF Answered
    <2>3. ASSUME NEW i \in DOMAIN blocks, NEW line \in TreeEntries(blocks[i])
          PROVE  \E j \in DOMAIN blocks : blocks[j].id = line.id
      BY <2>2
    <2> QED
      BY <2>1, <2>3, Zenon
  <1> HIDE DEF body, cut
  <1>5. size \in Nat /\ size >= 1
    <2>1. cut \in Seq(BodyLines(files))
      BY <1>2 DEF Regular
    <2>2. Len(cut) # 0
      BY <1>3, <2>1, EmptySeq
    <2> QED
      BY <1>1, <1>2, <2>2 DEF body
  <1>6. blocks \in Seq(BlocksOf(files)) /\ blocks # <<>> /\ blocks[1].path = scope
    <2>1. Regular(cut, files) /\ Len(cut) >= 1 /\ cut[1] = TreeLine(files, scope)
      BY <1>1, <1>2, <1>5
    <2> QED
      BY <1>3, <2>1, BlocksIs
  <1>7. DOMAIN blocks = 1 .. Len(blocks) /\ Len(blocks) \in Nat \ {0}
    BY <1>6, EmptySeq
  <1>8. \A i \in DOMAIN blocks : /\ blocks[i].id \in SUBSET NamePaths /\ blocks[i].id = Below(files, blocks[i].path)
                                 /\ blocks[i].lines \in SUBSET LinesOf(blocks[i].id, blocks[i].path)
    <2> TAKE i \in DOMAIN blocks
    <2>1. blocks[i] \in BlocksOf(files)
      BY <1>6, <1>7
    <2> QED
      BY <2>1 DEF BlocksOf, EntryLines
  \* What stands under the first name of a path of a tree is a tree named.
  <1>9. ASSUME NEW i \in DOMAIN blocks, NEW p \in blocks[i].id, Len(p) > 1
        PROVE  \E j \in DOMAIN blocks : blocks[j].id = Below(blocks[i].id, <<p[1]>>)
    <2>1. PICK line \in blocks[i].lines : line.kind = "tree" /\ line.id = Below(blocks[i].id, <<p[1]>>)
      <3> DEFINE id == blocks[i].id
                 lines == blocks[i].lines
      <3>1. id \in SUBSET NamePaths /\ lines \in SUBSET LinesOf(id, blocks[i].path) /\ TreeId(lines) = id /\ p \in id
        BY <1>4, <1>8
      <3> HIDE DEF id, lines
      <3>2. \E line \in lines : line.kind = "tree" /\ line.id = Below(id, <<p[1]>>)
        BY <1>9, <3>1, LineOf
      <3> QED
        BY <3>2 DEF id, lines
    <2>2. line \in TreeEntries(blocks[i])
      BY <2>1 DEF TreeEntries
    <2> QED
      BY <1>4, <2>1, <2>2
  <1> DEFINE Deep(n) == \A i \in DOMAIN blocks : \A p \in blocks[i].id :
                           n < Len(p) => Below(blocks[i].id, SubSeq(p, 1, n)) \in ids
             Bad == {n \in Nat \ {0} : ~Deep(n)}
  <1>10. Deep(1)
    <2> SUFFICES ASSUME NEW i \in DOMAIN blocks, NEW p \in blocks[i].id, 1 < Len(p)
                 PROVE  Below(blocks[i].id, SubSeq(p, 1, 1)) \in ids
      OBVIOUS
    <2>1. p \in NamePaths /\ p # <<>>
      BY <1>8, JoinIs
    <2>2. SubSeq(p, 1, 1) = <<p[1]>> /\ Len(p) \in Nat
      BY <2>1, FirstName
    <2>3. Len(p) > 1
      BY <2>2
    <2>4. \E j \in DOMAIN blocks : blocks[j].id = Below(blocks[i].id, <<p[1]>>)
      BY <1>9, <2>3
    <2> QED
      BY <2>2, <2>4
  <1>11. ASSUME NEW m \in Nat, m > 1, Deep(m - 1) PROVE Deep(m)
    <2> SUFFICES ASSUME NEW i \in DOMAIN blocks, NEW p \in blocks[i].id, m < Len(p)
                 PROVE  Below(blocks[i].id, SubSeq(p, 1, m)) \in ids
      OBVIOUS
    <2> DEFINE q == SubSeq(p, 2, Len(p))
               c == SubSeq(q, 1, m - 1)
    <2>1. p \in NamePaths /\ Len(p) \in Nat /\ blocks[i].id \in SUBSET NamePaths
      BY <1>8 DEF NamePaths
    <2>2. Len(p) > 1 /\ p # <<>>
      BY <1>11, <2>1, JoinIs
    <2>3. PICK j \in DOMAIN blocks : blocks[j].id = Below(blocks[i].id, <<p[1]>>)
      BY <1>9, <2>2
    <2>4. <<p[1]>> \in NamePaths /\ p = <<p[1]>> \o q /\ Len(q) = Len(p) - 1
      BY <2>1, <2>2, FirstName
    <2>5. q \in NamePaths /\ m - 1 < Len(q) /\ c \in NamePaths /\ SubSeq(p, 1, m) = <<p[1]>> \o c
      BY <1>11, <2>1, CutPast
    <2> HIDE DEF q, c
    <2>6. q # <<>>
      BY <1>11, <2>5, JoinIs
    <2>7. q \in blocks[j].id
      <3>1. <<p[1]>> \o q \in blocks[i].id
        BY <2>4
      <3> QED
        BY <2>1, <2>3, <2>4, <2>5, <2>6, <3>1, BelowFolder
    <2>8. Below(blocks[j].id, c) \in ids
      BY <1>11, <2>5, <2>7 DEF c
    <2>9. Below(Below(blocks[i].id, <<p[1]>>), c) = Below(blocks[i].id, <<p[1]>> \o c)
      BY <2>1, <2>4, <2>5, BelowTwice
    <2> HIDE DEF ids
    <2> QED
      BY <2>3, <2>5, <2>8, <2>9
  <1> HIDE DEF Deep
  <1>12. \A n \in Nat \ {0} : Deep(n)
    <2>1. SUFFICES ASSUME Bad # {} PROVE FALSE
      OBVIOUS
    <2>2. Bad \in SUBSET Nat
      OBVIOUS
    <2>3. PICK m \in Bad : \A o \in Bad : m <= o
      <3> HIDE DEF Bad
      <3> QED
        BY <2>1, <2>2, LeastNumber
    <2>4. m \in Nat /\ m # 0 /\ m # 1 /\ ~Deep(m)
      BY <1>10
    <2>5. m > 1 /\ m - 1 \in Nat \ {0} /\ ~(m <= m - 1)
      BY <2>4
    <2>6. Deep(m - 1)
      BY <2>3, <2>5
    <2> QED
      BY <1>11, <2>4, <2>5, <2>6
  <1>13. Reached(blocks[1].id) \subseteq ids
    <2> DEFINE id == blocks[1].id
    <2> SUFFICES ASSUME NEW p \in id, NEW n \in 1 .. Len(p) - 1
                 PROVE  Below(id, SubSeq(p, 1, n)) \in ids
      BY DEF Reached
    <2>1. 1 \in DOMAIN blocks /\ p \in NamePaths /\ Len(p) \in Nat
      BY <1>7, <1>8 DEF NamePaths
    <2>2. n \in Nat \ {0} /\ n < Len(p)
      BY <2>1
    <2> QED
      BY <1>12, <2>1, <2>2 DEF Deep
  <1>14. blocks[1].id = Below(files, scope)
    BY <1>6, <1>7, <1>8
  <1> QED
    BY <1>7, <1>13, <1>14, <1>a

(***************************************************************************)
(* The run.  A view that names a root, and the hint a run took of one,     *)
(* have the tree the server showed under the view's tag, and there was one *)
(* at the scope: so a `304` to that tag answers with the tree as shown.    *)
(***************************************************************************)
TagTells(view, commit, scope) ==
    /\ view.root = Below(Shown(commit, view.tag), scope)
    /\ IsFolder(Shown(commit, view.tag), scope)
ListingType ==
    [at : {"idle", "ask", "parent", "printed", "refused"}, verb : {"ls", "glob"},
     path : AskedPaths \cup {<<>>}, slash : BOOLEAN, recursive : BOOLEAN, commit : Commits \cup {0},
     hint : {listing.hint}, told : {listing.told}, entries : {listing.entries}]
ListingTypes ==
    /\ shelfHides \in [hidden : {shelfHides.hidden}, changes : {shelfHides.changes}, v2 : BOOLEAN]
    /\ keptTrees \in [ids : {keptTrees.ids}, views : {keptTrees.views}]
    /\ listing \in ListingType
RunStands ==
    /\ Asking => /\ TagNow \in listing.told /\ listing.commit \in Commits /\ listing.path \in AskedPaths
                 /\ listing.hint # NoRoot => TagTells(listing.hint, listing.commit, Scope)
    /\ listing.at = "parent" => listing.verb = "ls" /\ ~listing.slash /\ listing.path # <<>>
PrintStands ==
    listing.at = "printed" =>
        \E hidden \in listing.told :
            LET files == Shown(listing.commit, hidden)
            IN \/ /\ IsFolder(files, listing.path)
                  /\ listing.entries = ListingOf(files, listing.path, listing.recursive)
               \/ /\ listing.verb = "ls" /\ ~listing.slash
                  /\ listing.path \in files \ LinkPaths
                  /\ listing.entries = {listing.path}
ViewsStand ==
    \A at \in DOMAIN keptTrees.views :
        keptTrees.views[at].root # NoRoot => TagTells(keptTrees.views[at], at[1], at[2])
ListingInv == ListingTypes /\ RunStands /\ PrintStands /\ ViewsStand

\* What a commit's files are, whatever of them is hidden.
LEMMA ShownIs ==
  ASSUME NEW commit \in Commits, NEW hidden
  PROVE  /\ Shown(commit, hidden) \in SUBSET NamePaths /\ IsFiniteSet(Shown(commit, hidden))
         /\ Shown(commit, hidden) \subseteq FilesAt[commit]
         /\ FilesAt[commit] \in SUBSET NamePaths
         /\ \A p, q \in FilesAt[commit] : ~IsStrictPrefix(p, q)
  <1>1. FilesAt[commit] \in SUBSET NamePaths
    BY ListedArePaths DEF ListedPaths, Commits
  <1>2. IsFiniteSet(FilesAt[commit]) /\ \A p, q \in FilesAt[commit] : ~IsStrictPrefix(p, q)
    BY ListingsAssumption DEF Commits
  <1>3. Shown(commit, hidden) \subseteq FilesAt[commit]
    BY DEF Shown
  <1>4. IsFiniteSet(Shown(commit, hidden))
    BY <1>2, <1>3, FS_Subset
  <1> QED
    BY <1>1, <1>2, <1>3, <1>4

\* The scope a run asks for is a path.
LEMMA ScopeIs ==
  ASSUME ListingInv, Asking
  PROVE  /\ Scope \in NamePaths /\ Recursive \in BOOLEAN /\ TagNow \in listing.told
         /\ listing.commit \in Commits /\ listing.path \in NamePaths
         /\ listing.at = "ask" => Scope = listing.path /\ Recursive = listing.recursive
         /\ listing.at = "parent" => /\ Scope = Front(listing.path) /\ Recursive = FALSE
                                     /\ listing.path # <<>> /\ listing.verb = "ls" /\ ~listing.slash
  <1>1. listing.commit \in Commits /\ listing.path \in AskedPaths /\ TagNow \in listing.told
    BY DEF ListingInv, RunStands
  <1>2. listing.path \in NamePaths
    BY <1>1, ListedArePaths DEF ListedPaths
  <1>3. listing.at = "parent" => listing.path # <<>> /\ listing.verb = "ls" /\ ~listing.slash
    BY DEF ListingInv, RunStands
  <1>4. listing.path # <<>> => Front(listing.path) \in NamePaths
    <2> HAVE listing.path # <<>>
    <2>1. Len(listing.path) \in Nat \ {0}
      BY <1>2, FirstName
    <2>2. Len(listing.path) - 1 \in 0 .. Len(listing.path)
      BY <2>1
    <2> QED
      BY <1>2, <2>2, CutIs DEF Front
  <1>5. listing.recursive \in BOOLEAN
    BY DEF ListingInv, ListingTypes, ListingType
  <1> QED
    BY <1>1, <1>2, <1>3, <1>4, <1>5 DEF Scope, Recursive, Asking

\* An answer that lists the tree as the server shows it now prints what was shown.
LEMMA AnswerStands ==
  ASSUME ListingInv, Asking, IsFolder(Now, Scope), shelfHides' = shelfHides, keptTrees' \in [ids : {keptTrees'.ids}, views : {keptTrees'.views}],
         listing' = Prints(ListingOf(Now, Scope, Recursive)), ViewsStand'
  PROVE  ListingInv'
  <1> DEFINE entries == ListingOf(Now, Scope, Recursive)
  <1>0. listing \in ListingType
    BY DEF ListingInv, ListingTypes
  <1>2. CASE listing.at = "ask"
    <2>1. listing' = [listing EXCEPT !.at = "printed", !.entries = entries]
      BY <1>2 DEF Prints
    <2> HIDE DEF entries
    <2>2. /\ listing'.at = "printed" /\ listing'.entries = entries /\ listing'.path = listing.path
          /\ listing'.verb = listing.verb /\ listing'.slash = listing.slash /\ listing'.commit = listing.commit
          /\ listing'.recursive = listing.recursive /\ listing'.told = listing.told
          /\ listing' \in ListingType'
      BY <1>0, <2>1 DEF ListingType, Commits
    <2>3. PrintStands'
      <3>1. Scope = listing.path /\ Recursive = listing.recursive /\ TagNow \in listing.told
        BY <1>2, ScopeIs
      <3>2. /\ IsFolder(Shown(listing.commit, TagNow), listing.path)
            /\ entries = ListingOf(Shown(listing.commit, TagNow), listing.path, listing.recursive)
        BY <3>1 DEF Now, TagNow, entries
      <3> QED
        BY <2>2, <3>1, <3>2 DEF PrintStands
    <2>4. RunStands'
      BY <2>2 DEF RunStands, Asking
    <2> QED
      BY <2>2, <2>3, <2>4 DEF ListingInv, ListingTypes
  <1>3. CASE listing.at = "parent"
    <2> DEFINE path == listing.path
    <2>0. /\ Scope = Front(path) /\ Recursive = FALSE /\ path # <<>> /\ listing.verb = "ls" /\ ~listing.slash
          /\ TagNow \in listing.told /\ listing.commit \in Commits /\ path \in NamePaths
      BY <1>3, ScopeIs
    <2>1. CASE path \in entries /\ path \in FilesAt[listing.commit]
      <3>1. listing' = [listing EXCEPT !.at = "printed", !.entries = {path}]
        BY <1>3, <2>1 DEF Prints
      <3>2. /\ listing'.at = "printed" /\ listing'.entries = {path} /\ listing'.path = path
            /\ listing'.verb = listing.verb /\ listing'.slash = listing.slash /\ listing'.commit = listing.commit
            /\ listing'.recursive = listing.recursive /\ listing'.told = listing.told
            /\ listing' \in ListingType'
        BY <1>0, <3>1 DEF ListingType, Commits
      <3>3. path \in Shown(listing.commit, TagNow) \ LinkPaths
        <4>1. Now = Shown(listing.commit, TagNow)
          BY DEF Now, TagNow
        <4>2. path \in ListingOf(Now, Front(path), FALSE)
          BY <2>0, <2>1
        <4> QED
          <5> DEFINE all == FilesAt[listing.commit]
                     files == Shown(listing.commit, TagNow)
          <5>1. /\ all \in SUBSET NamePaths /\ files \in SUBSET all
                /\ \A p, q \in all : ~IsStrictPrefix(p, q)
            BY <2>0, ShownIs
          <5>2. path \in all /\ path # <<>> /\ path \in ListingOf(files, Front(path), FALSE)
            BY <2>0, <2>1, <4>1, <4>2
          <5> HIDE DEF all, files, path
          <5>3. path \in files \ LinkPaths
            BY <5>1, <5>2, ParentLists
          <5> QED
            BY <5>3 DEF files
      <3>4. PrintStands'
        BY <2>0, <3>2, <3>3 DEF PrintStands
      <3>5. RunStands'
        BY <3>2 DEF RunStands, Asking
      <3> QED
        BY <3>2, <3>4, <3>5 DEF ListingInv, ListingTypes
    <2>2. CASE ~(path \in entries /\ path \in FilesAt[listing.commit])
      <3>1. listing' = [listing EXCEPT !.at = "refused"]
        BY <1>3, <2>2 DEF Prints
      <3>2. listing'.at = "refused" /\ listing' \in ListingType'
        BY <1>0, <3>1 DEF ListingType, Commits
      <3>3. PrintStands' /\ RunStands'
        BY <3>2 DEF PrintStands, RunStands, Asking
      <3> QED
        BY <3>2, <3>3 DEF ListingInv, ListingTypes
    <2> QED
      BY <2>1, <2>2
  <1> QED
    BY <1>2, <1>3 DEF Asking

\* Before the first listing nothing is kept and nothing has been printed.
LEMMA ListingStarts == ListingInit => ListingInv
  <1> SUFFICES ASSUME NEW v2 \in BOOLEAN, ListingStart(v2) PROVE ListingInv
    BY DEF ListingInit
  <1> USE DEF ListingStart
  <1>1. ListingTypes
    BY DEF ListingTypes, ListingType, NoListing
  <1>2. RunStands /\ PrintStands
    BY DEF RunStands, PrintStands, Asking, NoListing
  <1>3. ViewsStand
    BY DEF ViewsStand
  <1> QED
    BY <1>1, <1>2, <1>3 DEF ListingInv

\* A hint is a view that names a root.
LEMMA HintTells ==
  ASSUME ListingInv, NEW commit, NEW scope, Hint(commit, scope) # NoRoot
  PROVE  TagTells(Hint(commit, scope), commit, scope)
  <1>1. /\ <<commit, scope>> \in DOMAIN keptTrees.views
        /\ Hint(commit, scope) = keptTrees.views[<<commit, scope>>]
        /\ keptTrees.views[<<commit, scope>>].root # NoRoot
    BY DEF Hint, ViewHeld
  <1>2. <<commit, scope>>[1] = commit /\ <<commit, scope>>[2] = scope
    OBVIOUS
  <1> QED
    BY <1>1, <1>2 DEF ListingInv, ViewsStand

\* A run begins with what the store has of its scope.
LEMMA BeginStands ==
  ASSUME ListingInv, BeginListing
  PROVE  ListingInv'
  <1> DEFINE Begun(commit, path, verb, slash, recursive) ==
               [at |-> "ask", verb |-> verb, path |-> path, slash |-> slash,
                recursive |-> recursive, commit |-> commit,
                hint |-> Hint(commit, path), told |-> {TagNow}, entries |-> {}]
  <1>a. PICK commit \in Commits, path \in AskedPaths :
           \E verb \in {"ls", "glob"}, slash, recursive \in BOOLEAN :
              listing' = Begun(commit, path, verb, slash, recursive)
    <2>1. \E commit \in Commits, path \in AskedPaths, verb \in {"ls", "glob"}, slash, recursive \in BOOLEAN :
             listing' = Begun(commit, path, verb, slash, recursive)
      BY Zenon DEF BeginListing
    <2> HIDE DEF Begun
    <2> QED
      BY <2>1, Zenon
  <1>1. PICK verb \in {"ls", "glob"}, slash, recursive \in BOOLEAN :
           listing' = Begun(commit, path, verb, slash, recursive)
    <2> HIDE DEF Begun
    <2> QED
      BY <1>a, Zenon
  <1>2. shelfHides' = shelfHides /\ keptTrees' = keptTrees
    BY DEF BeginListing
  <1> DEFINE hint == Hint(commit, path)
  <1>3. hint # NoRoot => TagTells(hint, commit, path)
    BY HintTells
  <1>4. listing' = [at |-> "ask", verb |-> verb, path |-> path, slash |-> slash, recursive |-> recursive,
                    commit |-> commit, hint |-> hint, told |-> {TagNow}, entries |-> {}]
    BY <1>1
  <1> HIDE DEF hint
  <1>5. /\ listing'.at = "ask" /\ listing'.path = path /\ listing'.commit = commit /\ listing'.hint = hint
        /\ listing'.told = {TagNow} /\ listing' \in ListingType'
    BY <1>4 DEF ListingType, Commits
  <1>6. Scope' = path /\ TagNow' = TagNow
    BY <1>2, <1>5 DEF Scope, TagNow
  <1>7. RunStands' /\ PrintStands'
    BY <1>3, <1>5, <1>6 DEF RunStands, PrintStands, Commits, TagTells, Shown
  <1>8. ListingTypes' /\ ViewsStand'
    BY <1>2, <1>5 DEF ListingInv, ListingTypes, ViewsStand, TagTells, Shown
  <1> QED
    BY <1>7, <1>8 DEF ListingInv

\* A `304` to a tag is of the tree that stands under it.
LEMMA NotModifiedStands ==
  ASSUME ListingInv, NotModified
  PROVE  ListingInv'
  <1>1. /\ Asking /\ listing.hint # NoRoot /\ listing.hint.tag = TagNow
        /\ shelfHides' = shelfHides /\ keptTrees' = keptTrees
    BY DEF NotModified, Reads
  <1> DEFINE root == listing.hint.root
             entries == Listed(root, Scope, Recursive, keptTrees.ids)
  <1>2. root = Below(Now, Scope) /\ IsFolder(Now, Scope)
    <2>1. TagTells(listing.hint, listing.commit, Scope)
      BY <1>1 DEF ListingInv, RunStands
    <2> QED
      BY <1>1, <2>1 DEF TagTells, Now, TagNow
  <1>3. Scope \in NamePaths /\ Recursive \in BOOLEAN /\ Now \in SUBSET NamePaths
    BY <1>1, ScopeIs, ShownIs DEF Now
  <1>4. listing' = IF root \notin keptTrees.ids \/ entries = Unlisted THEN [listing EXCEPT !.hint = NoRoot] ELSE Prints(entries)
    BY DEF NotModified
  <1>5. ViewsStand' /\ keptTrees' \in [ids : {keptTrees'.ids}, views : {keptTrees'.views}]
    BY <1>1 DEF ListingInv, ListingTypes, ViewsStand, TagTells, Shown
  <1>6. entries # Unlisted => entries = ListingOf(Now, Scope, Recursive)
    BY <1>2, <1>3, ListedOrNot
  <1> HIDE DEF entries, root
  <1>7. CASE listing' = Prints(entries) /\ entries # Unlisted
    <2>1. listing' = Prints(ListingOf(Now, Scope, Recursive))
      BY <1>6, <1>7
    <2> QED
      BY <1>1, <1>2, <1>5, <2>1, AnswerStands
  <1>8. CASE listing' = [listing EXCEPT !.hint = NoRoot]
    <2>1. listing \in ListingType
      BY DEF ListingInv, ListingTypes
    <2>2. /\ listing'.at = listing.at /\ listing'.hint = NoRoot /\ listing'.path = listing.path
          /\ listing'.verb = listing.verb /\ listing'.slash = listing.slash /\ listing'.commit = listing.commit
          /\ listing'.told = listing.told /\ listing'.recursive = listing.recursive
          /\ listing' \in ListingType'
      BY <1>8, <2>1 DEF ListingType, Commits
    <2>3. PrintStands'
      BY <1>1, <2>2 DEF PrintStands, Asking
    <2>4. RunStands'
      BY <1>1, <2>2 DEF RunStands, Asking, Commits, TagNow, ListingInv
    <2> QED
      BY <1>1, <1>5, <2>2, <2>3, <2>4 DEF ListingInv, ListingTypes
  <1> QED
    BY <1>4, <1>7, <1>8

\* The closure kept is of the tree as it stands under the tag it is kept with.
LEMMA KeptStands ==
  ASSUME ListingInv, Asking, IsFolder(Now, Scope), NEW blocks, blocks[1].id = Below(Now, Scope),
         shelfHides' = shelfHides, KeepClosure(blocks)
  PROVE  ViewsStand' /\ keptTrees' \in [ids : {keptTrees'.ids}, views : {keptTrees'.views}]
  <1> DEFINE at == <<listing.commit, Scope>>
             view == [root |-> blocks[1].id, tag |-> TagNow]
             ids == keptTrees.ids \cup {blocks[i].id : i \in DOMAIN blocks}
             views == IF Hint(listing.commit, Scope) # NoRoot THEN keptTrees.views
                      ELSE [a \in DOMAIN keptTrees.views \cup {at} |-> IF a = at THEN view ELSE keptTrees.views[a]]
  <1>1. keptTrees' = [ids |-> ids, views |-> views]
    BY DEF KeepClosure, KeptView
  <1>2. TagTells(view, at[1], at[2])
    <2>1. view.root = Below(Now, Scope) /\ view.tag = TagNow /\ at[1] = listing.commit /\ at[2] = Scope
      OBVIOUS
    <2> HIDE DEF view, at
    <2> QED
      BY <2>1 DEF TagTells, Now, TagNow
  <1> HIDE DEF ids, view, at
  <1>3. ASSUME NEW a \in DOMAIN views, views[a].root # NoRoot PROVE TagTells(views[a], a[1], a[2])
    <2>1. CASE a \in DOMAIN keptTrees.views /\ views[a] = keptTrees.views[a]
      <3>1. keptTrees.views[a].root # NoRoot
        BY <1>3, <2>1
      <3> HIDE DEF views
      <3> QED
        BY <2>1, <3>1 DEF ListingInv, ViewsStand
    <2>2. CASE a = at /\ views[a] = view
      BY <1>2, <2>2
    <2>3. \/ a \in DOMAIN keptTrees.views /\ views[a] = keptTrees.views[a]
          \/ a = at /\ views[a] = view
      BY <1>3
    <2> QED
      BY <2>1, <2>2, <2>3
  <1> HIDE DEF views
  <1>4. keptTrees'.views = views /\ keptTrees' \in [ids : {keptTrees'.ids}, views : {keptTrees'.views}]
    BY <1>1
  <1> QED
    BY <1>3, <1>4 DEF ViewsStand, TagTells, Shown

\* A closure, whole or cut short.
LEMMA ClosureStands ==
  ASSUME ListingInv, ClosureAnswers
  PROVE  ListingInv'
  <1> DEFINE body == Body(Now, Scope)
  <1>1. Asking /\ IsFolder(Now, Scope) /\ shelfHides' = shelfHides
    BY DEF ClosureAnswers, Reads
  <1>2. PICK size \in 0 .. Len(body) :
           LET blocks == Blocks(SubSeq(body, 1, size))
           IN IF Parses(SubSeq(body, 1, size), Scope)
              THEN /\ KeepClosure(blocks)
                   /\ LET at == {blocks[i].id : i \in DOMAIN blocks}
                          entries == Listed(blocks[1].id, Scope, Recursive, at)
                      IN listing' = Prints(IF entries = Unlisted THEN {} ELSE entries)
              ELSE /\ UNCHANGED keptTrees
                   /\ listing' \in {listing, [listing EXCEPT !.at = "refused"]}
    BY DEF ClosureAnswers
  <1>3. /\ Scope \in NamePaths /\ Recursive \in BOOLEAN /\ Now \in SUBSET NamePaths /\ IsFiniteSet(Now)
    BY <1>1, ScopeIs, ShownIs DEF Now
  <1> DEFINE blocks == Blocks(SubSeq(body, 1, size))
             at == {blocks[i].id : i \in DOMAIN blocks}
             entries == Listed(blocks[1].id, Scope, Recursive, at)
  <1>4. CASE Parses(SubSeq(body, 1, size), Scope)
    <2>1. KeepClosure(blocks) /\ listing' = Prints(IF entries = Unlisted THEN {} ELSE entries)
      BY <1>2, <1>4
    <2>2. blocks[1].id = Below(Now, Scope) /\ Reached(blocks[1].id) \subseteq at
      <3>1. size \in 0 .. Len(Body(Now, Scope))
        BY <1>2
      <3>2. blocks = CutBlocks(Now, Scope, size)
        BY DEF CutBlocks
      <3> HIDE DEF blocks
      <3> QED
        BY <1>3, <1>4, <3>1, <3>2, ClosureWhole
    <2> HIDE DEF blocks, at
    <2>3. entries = ListingOf(Now, Scope, Recursive)
      BY <1>3, <2>2, ListedWhole
    <2>4. entries # Unlisted
      BY <1>3, <2>3, ListsNoRoot
    <2> HIDE DEF entries
    <2>5. listing' = Prints(ListingOf(Now, Scope, Recursive))
      BY <2>1, <2>3, <2>4
    <2>6. ViewsStand' /\ keptTrees' \in [ids : {keptTrees'.ids}, views : {keptTrees'.views}]
      BY <1>1, <2>1, <2>2, KeptStands
    <2> QED
      BY <1>1, <2>5, <2>6, AnswerStands
  <1>5. CASE ~Parses(SubSeq(body, 1, size), Scope)
    <2>1. keptTrees' = keptTrees /\ (listing' = listing \/ listing' = [listing EXCEPT !.at = "refused"])
      BY <1>2, <1>5
    <2>2. listing \in ListingType
      BY DEF ListingInv, ListingTypes
    <2>3. CASE listing' = listing
      BY <1>1, <2>1, <2>3 DEF ListingInv, ListingTypes, ListingType, RunStands, PrintStands, ViewsStand,
         Asking, TagNow, TagTells, Shown, Scope, Commits
    <2>4. CASE listing' = [listing EXCEPT !.at = "refused"]
      <3>1. listing'.at = "refused" /\ listing' \in ListingType'
        BY <2>2, <2>4 DEF ListingType, Commits
      <3> QED
        BY <1>1, <2>1, <3>1 DEF ListingInv, ListingTypes, RunStands, PrintStands, ViewsStand, Asking, TagTells, Shown
    <2> QED
      BY <2>1, <2>3, <2>4
  <1> QED
    BY <1>4, <1>5

\* A server of no v2.
LEMMA V1Stands ==
  ASSUME ListingInv, V1Answers
  PROVE  ListingInv'
  <1>1. /\ Asking /\ IsFolder(Now, Scope) /\ shelfHides' = shelfHides /\ keptTrees' = keptTrees
        /\ listing' = Prints(Listed(Below(Now, Scope), Scope, Recursive, Reached(Below(Now, Scope))))
    BY DEF V1Answers
  <1>2. Scope \in NamePaths /\ Recursive \in BOOLEAN /\ Now \in SUBSET NamePaths
    BY <1>1, ScopeIs, ShownIs DEF Now
  <1>3. listing' = Prints(ListingOf(Now, Scope, Recursive))
    BY <1>1, <1>2, ListedWhole
  <1>4. ViewsStand' /\ keptTrees' \in [ids : {keptTrees'.ids}, views : {keptTrees'.views}]
    BY <1>1 DEF ListingInv, ListingTypes, ViewsStand, TagTells, Shown
  <1> QED
    BY <1>1, <1>3, <1>4, AnswerStands

\* Nothing stands at the scope: the parent is asked, or the run refused.
LEMMA NoTreeStands ==
  ASSUME ListingInv, NoTree
  PROVE  ListingInv'
  <1>1. Asking /\ ~IsFolder(Now, Scope) /\ shelfHides' = shelfHides /\ keptTrees' = keptTrees
    BY DEF NoTree
  <1>2. listing \in ListingType
    BY DEF ListingInv, ListingTypes
  <1> DEFINE hint == Hint(listing.commit, Front(listing.path))
  <1>3. hint # NoRoot => TagTells(hint, listing.commit, Front(listing.path))
    BY HintTells
  <1>4. \/ listing' = [listing EXCEPT !.at = "refused"]
        \/ /\ listing.at = "ask" /\ listing.verb = "ls" /\ ~listing.slash
           /\ listing' = [listing EXCEPT !.at = "parent", !.hint = hint]
    BY DEF NoTree
  <1>5. ViewsStand' /\ keptTrees' \in [ids : {keptTrees'.ids}, views : {keptTrees'.views}]
    BY <1>1 DEF ListingInv, ListingTypes, ViewsStand, TagTells, Shown
  <1> HIDE DEF hint
  <1>6. CASE listing' = [listing EXCEPT !.at = "refused"]
    <2>1. listing'.at = "refused" /\ listing' \in ListingType'
      BY <1>2, <1>6 DEF ListingType, Commits
    <2> QED
      BY <1>1, <1>5, <2>1 DEF ListingInv, ListingTypes, RunStands, PrintStands, Asking
  <1>7. CASE /\ listing.at = "ask" /\ listing.verb = "ls" /\ ~listing.slash
             /\ listing' = [listing EXCEPT !.at = "parent", !.hint = hint]
    <2>1. /\ listing'.at = "parent" /\ listing'.hint = hint /\ listing'.path = listing.path
          /\ listing'.verb = listing.verb /\ listing'.slash = listing.slash /\ listing'.commit = listing.commit
          /\ listing'.told = listing.told /\ listing' \in ListingType'
      BY <1>2, <1>7 DEF ListingType, Commits
    <2>2. listing.path # <<>>
      BY <1>1, <1>7 DEF IsFolder, Scope
    <2>3. Scope' = Front(listing.path) /\ TagNow' = TagNow
      BY <1>1, <2>1 DEF Scope, TagNow
    <2>4. TagNow \in listing.told /\ listing.commit \in Commits /\ listing.path \in AskedPaths
      BY <1>1 DEF ListingInv, RunStands
    <2>5. RunStands'
      BY <1>3, <1>7, <2>1, <2>2, <2>3, <2>4 DEF RunStands, Commits, TagTells, Shown
    <2> QED
      BY <1>1, <1>5, <2>1, <2>5 DEF ListingInv, ListingTypes, PrintStands
  <1> QED
    BY <1>4, <1>6, <1>7

\* The end of a run, and what others do to the store and to what is hidden.
LEMMA OthersStand ==
  ASSUME ListingInv, EndListing \/ Hide \/ SweepTree \/ PullKeepsView
  PROVE  ListingInv'
  <1>0. listing \in ListingType
    BY DEF ListingInv, ListingTypes
  <1>1. CASE EndListing
    <2>1. shelfHides' = shelfHides /\ keptTrees' = keptTrees /\ listing' = NoListing
      BY <1>1 DEF EndListing
    <2>2. listing'.at = "idle" /\ listing' \in ListingType'
      BY <2>1 DEF NoListing, ListingType
    <2> QED
      BY <2>1, <2>2 DEF ListingInv, ListingTypes, RunStands, PrintStands, ViewsStand, Asking, TagTells, Shown
  <1>2. CASE Hide
    <2>1. PICK hidden \in (SUBSET Hideable) \ {shelfHides.hidden} :
             /\ shelfHides' = [shelfHides EXCEPT !.hidden = hidden, !.changes = @ + 1]
             /\ listing' = IF ~Asking THEN listing ELSE [listing EXCEPT !.told = @ \cup {hidden}]
      BY <1>2 DEF Hide
    <2>2. keptTrees' = keptTrees
      BY <1>2 DEF Hide
    <2>3. shelfHides'.hidden = hidden /\ shelfHides' \in [hidden : {shelfHides'.hidden}, changes : {shelfHides'.changes}, v2 : BOOLEAN]
      BY <2>1 DEF ListingInv, ListingTypes
    <2>4. /\ listing'.at = listing.at /\ listing'.hint = listing.hint /\ listing'.path = listing.path
          /\ listing'.verb = listing.verb /\ listing'.slash = listing.slash /\ listing'.commit = listing.commit
          /\ listing'.recursive = listing.recursive /\ listing'.entries = listing.entries
          /\ listing'.told = (IF ~Asking THEN listing.told ELSE listing.told \cup {hidden})
          /\ listing' \in ListingType'
      BY <1>0, <2>1 DEF ListingType, Commits
    <2>5. Scope' = Scope /\ TagNow' = hidden
      BY <2>3, <2>4 DEF Scope, TagNow
    <2>6. RunStands'
      BY <2>4, <2>5 DEF ListingInv, RunStands, Asking, Commits, TagTells, Shown
    <2>7. PrintStands'
      <3>1. CASE Asking
        BY <2>4, <3>1 DEF PrintStands, Asking
      <3>2. CASE ~Asking
        <4>1. listing' = listing
          BY <2>1, <3>2
        <4> QED
          BY <4>1 DEF ListingInv, PrintStands, Shown
      <3> QED
        BY <3>1, <3>2
    <2>8. ViewsStand'
      BY <2>2 DEF ListingInv, ViewsStand, TagTells, Shown
    <2> QED
      BY <2>2, <2>3, <2>4, <2>6, <2>7, <2>8 DEF ListingInv, ListingTypes
  <1>3. CASE SweepTree
    <2>1. PICK id \in keptTrees.ids : keptTrees' = [keptTrees EXCEPT !.ids = @ \ {id}]
      BY <1>3 DEF SweepTree
    <2>2. shelfHides' = shelfHides /\ listing' = listing
      BY <1>3 DEF SweepTree
    <2>3. keptTrees'.views = keptTrees.views /\ keptTrees' \in [ids : {keptTrees'.ids}, views : {keptTrees'.views}]
      BY <2>1 DEF ListingInv, ListingTypes
    <2>4. ViewsStand'
      BY <2>3 DEF ListingInv, ViewsStand, TagTells, Shown
    <2>5. RunStands' /\ PrintStands'
      BY <2>2 DEF ListingInv, RunStands, PrintStands, Asking, TagNow, Scope, Commits, TagTells, Shown
    <2> QED
      BY <1>0, <2>2, <2>3, <2>4, <2>5 DEF ListingInv, ListingTypes, ListingType, Commits
  <1>4. CASE PullKeepsView
    <2>1. PICK at \in Commits \X AskedPaths :
             keptTrees' = [keptTrees EXCEPT !.views =
               [a \in DOMAIN @ \cup {at} |-> IF a = at THEN [root |-> NoRoot, tag |-> TagNow] ELSE @[a]]]
      BY <1>4 DEF PullKeepsView
    <2>2. shelfHides' = shelfHides /\ listing' = listing
      BY <1>4 DEF PullKeepsView
    <2>3. /\ keptTrees'.views = [a \in DOMAIN keptTrees.views \cup {at} |->
                 IF a = at THEN [root |-> NoRoot, tag |-> TagNow] ELSE keptTrees.views[a]]
          /\ keptTrees' \in [ids : {keptTrees'.ids}, views : {keptTrees'.views}]
      BY <2>1 DEF ListingInv, ListingTypes
    <2>4. ViewsStand'
      <3>1. ASSUME NEW a \in DOMAIN keptTrees'.views, keptTrees'.views[a].root # NoRoot
            PROVE  TagTells(keptTrees'.views[a], a[1], a[2])
        <4>1. a # at
          BY <2>3, <3>1
        <4>2. a \in DOMAIN keptTrees.views /\ keptTrees'.views[a] = keptTrees.views[a]
          BY <2>3, <3>1, <4>1
        <4> QED
          BY <3>1, <4>2 DEF ListingInv, ViewsStand
      <3> QED
        BY <3>1 DEF ViewsStand, TagTells, Shown
    <2>5. RunStands' /\ PrintStands'
      BY <2>2 DEF ListingInv, RunStands, PrintStands, Asking, TagNow, Scope, Commits, TagTells, Shown
    <2> QED
      BY <1>0, <2>2, <2>3, <2>4, <2>5 DEF ListingInv, ListingTypes, ListingType, Commits
  <1> QED
    BY <1>1, <1>2, <1>3, <1>4

\* Every step of a listing keeps the invariant.
LEMMA ListingSteps == ListingInv /\ [ListingNext]_listingVars => ListingInv'
  <1> SUFFICES ASSUME ListingInv, [ListingNext]_listingVars PROVE ListingInv'
    OBVIOUS
  <1>1. CASE UNCHANGED listingVars
    BY <1>1 DEF listingVars, ListingInv, ListingTypes, ListingType, RunStands, PrintStands, ViewsStand,
       Asking, TagNow, TagTells, Shown, Scope, Commits
  <1>2. CASE ListingNext
    BY <1>2, BeginStands, NotModifiedStands, ClosureStands, V1Stands, NoTreeStands, OthersStand DEF ListingNext
  <1> QED
    BY <1>1, <1>2

(* What a listing prints is the tree the server showed this reader at one   *)
(* moment of the run, whole, or the one file asked for; and a kept view     *)
(* that names a root has the tree its tag stands for.  For any commits,     *)
(* links, masks, sweeps and sizes of an answer (listing.rs 40 to 330,        *)
(* closure.rs).                                                             *)
THEOREM ListingsShow == ListingSpec => []ListsAsShown
  <1>1. ListingInv => ListsAsShown
    BY DEF ListingInv, PrintStands, ViewsStand, ListsAsShown, TagTells
  <1> QED
    BY <1>1, ListingStarts, ListingSteps, PTL DEF ListingSpec
=============================================================================
