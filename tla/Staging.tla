------------------------------ MODULE Staging -------------------------------
(***************************************************************************)
(* The directories that runs of one person stage content in                *)
(* (src/push/converge.rs, Staging): each locked through a file beside it   *)
(* for its run's life, each run first sweeping away those no live process  *)
(* holds.  A run may be killed at any step; the system then gives up its   *)
(* locks and leaves its files.                                             *)
(*                                                                         *)
(* A lock is on a file, not on its name: a file created anew under a name  *)
(* is another file.  Names are never drawn twice.                          *)
(***************************************************************************)
EXTENDS Naturals, FiniteSets, Sequences

CONSTANTS
    Stagers    \* the processes

ASSUME StagersFinite == IsFiniteSet(Stagers)

VARIABLES
    dirs,      \* the directories that stand, each by the process it is named for
    lockFiles, \* by name, the file that stands under it, 0 for none
    held,      \* the files locked, by process
    stager     \* by process, what it is doing

stagingVars == <<dirs, lockFiles, held, stager>>

Nobody == [at |-> "idle", todo |-> {}, of |-> {}, file |-> 0, made |-> 0]
Files == {lockFiles[s] : s \in Stagers} \cup {stager[s].file : s \in Stagers}
           \cup (UNION {held[s] : s \in Stagers})
NewFile == CHOOSE n \in 1 .. Cardinality(Files) + 1 : n \notin Files

StagingInit ==
    /\ dirs = {} /\ lockFiles = [s \in Stagers |-> 0] /\ held = [s \in Stagers |-> {}]
    /\ stager = [s \in Stagers |-> Nobody]

Goes(s, at) == stager' = [stager EXCEPT ![s].at = at]
LockedByOther(s, file) == \E t \in Stagers \ {s} : file \in held[t]

-----------------------------------------------------------------------------
(* `Staging::sweep`: of each directory seen, the lock tried, the directory  *)
(* removed under it, then the lock given up and its name removed.           *)

BeginSweep(s) ==
    /\ stager[s].at = "idle"
    /\ stager' = [stager EXCEPT ![s].at = "sweep", ![s].todo = dirs]
    /\ UNCHANGED <<dirs, lockFiles, held>>

OpenLock(s, d) ==
    /\ stager[s].at = "sweep" /\ d \in stager[s].todo
    /\ lockFiles' = [lockFiles EXCEPT ![d] = IF @ = 0 THEN NewFile ELSE @]
    /\ stager' = [stager EXCEPT ![s].at = "try", ![s].todo = @ \ {d}, ![s].of = {d},
                                ![s].file = lockFiles'[d]]
    /\ UNCHANGED <<dirs, held>>

TryLock(s) ==
    /\ stager[s].at = "try"
    /\ IF LockedByOther(s, stager[s].file) THEN Goes(s, "sweep") /\ UNCHANGED held
       ELSE /\ held' = [held EXCEPT ![s] = @ \cup {stager[s].file}]
            /\ Goes(s, "remove")
    /\ UNCHANGED <<dirs, lockFiles>>

RemoveDir(s) ==
    /\ stager[s].at = "remove"
    /\ Goes(s, IF stager[s].of \subseteq dirs THEN "unlink" ELSE "sweep")
    /\ dirs' = dirs \ stager[s].of
    /\ held' = [held EXCEPT ![s] = @ \ {stager[s].file}]
    /\ UNCHANGED lockFiles

Unlink(s) ==
    /\ stager[s].at = "unlink" /\ Goes(s, "sweep")
    /\ lockFiles' = [d \in Stagers |-> IF d \in stager[s].of THEN 0 ELSE lockFiles[d]]
    /\ UNCHANGED <<dirs, held>>

-----------------------------------------------------------------------------
(* `Staging::open`, after the sweep: the lock file, its lock, the directory.*)
(* Mutant: the directory stands before its lock is held.                    *)
MutOpening == <<"lock file", "directory", "lock">>
Opening == <<"lock file", "lock", "directory">>

OpenStep(s) ==
    LET made == stager[s].made
        step == Opening[made + 1]
        file == stager[s].file
    IN /\ stager[s].at = "sweep" /\ stager[s].todo = {} /\ made < Len(Opening)
       /\ \/ /\ step = "lock file" /\ UNCHANGED <<dirs, held>>
             /\ lockFiles' = [lockFiles EXCEPT ![s] = NewFile]
             /\ stager' = [stager EXCEPT ![s].made = made + 1, ![s].file = NewFile]
          \/ /\ step = "lock" /\ ~LockedByOther(s, file) /\ UNCHANGED <<dirs, lockFiles>>
             /\ held' = [held EXCEPT ![s] = @ \cup {file}]
             /\ stager' = [stager EXCEPT ![s].made = made + 1]
          \/ /\ step = "directory" /\ dirs' = dirs \cup {s} /\ UNCHANGED <<lockFiles, held>>
             /\ stager' = [stager EXCEPT ![s].made = made + 1]
Opened(s) ==
    /\ stager[s].at = "sweep" /\ stager[s].made = Len(Opening) /\ Goes(s, "staging")
    /\ UNCHANGED <<dirs, lockFiles, held>>

(* `Drop for Staging`, and a process killed.                                *)
Leave(s) ==
    /\ stager[s].at = "staging" /\ Goes(s, "left") /\ dirs' = dirs \ {s}
    /\ UNCHANGED <<lockFiles, held>>
Unname(s) ==
    /\ stager[s].at = "left"
    /\ lockFiles' = [lockFiles EXCEPT ![s] = 0] /\ held' = [held EXCEPT ![s] = {}]
    /\ stager' = [stager EXCEPT ![s] = [Nobody EXCEPT !.at = "gone"]]
    /\ UNCHANGED dirs
Killed(s) ==
    /\ stager[s].at \notin {"idle", "gone"}
    /\ held' = [held EXCEPT ![s] = {}]
    /\ stager' = [stager EXCEPT ![s] = [Nobody EXCEPT !.at = "gone"]]
    /\ UNCHANGED <<dirs, lockFiles>>

StagingNext ==
    \E s \in Stagers :
        \/ BeginSweep(s) \/ TryLock(s) \/ RemoveDir(s) \/ Unlink(s) \/ OpenStep(s)
        \/ Opened(s) \/ Leave(s) \/ Unname(s) \/ Killed(s)
        \/ \E d \in Stagers : OpenLock(s, d)

StagingSpec == StagingInit /\ [][StagingNext]_stagingVars

-----------------------------------------------------------------------------
(* However the sweeps of other runs, their own ends and kills interleave, a *)
(* live run's directory stands from its opening to the run's end, and the   *)
(* lock that keeps it is still the file under its name.                     *)
LiveDirectoryStands ==
    \A s \in Stagers : stager[s].at = "staging" =>
        s \in dirs /\ lockFiles[s] = stager[s].file /\ stager[s].file \in held[s]
=============================================================================
