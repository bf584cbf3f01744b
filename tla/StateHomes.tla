----------------------------- MODULE StateHomes -----------------------------
(***************************************************************************)
(* The state one working copy keeps on disk (src/push/working_copy.rs):    *)
(* the home under the default root, the home in the folder that runs write *)
(* where the default root refuses them, the locks and the stamps that      *)
(* decide which of the two is read, the adoption of the later one, the     *)
(* snapshots with their content files, and the discarding of what a        *)
(* removed folder left.                                                    *)
(*                                                                         *)
(* A file is the time it was last written at, which adoption keeps.        *)
(***************************************************************************)
EXTENDS Integers, FiniteSets, FiniteSetsExt

CONSTANTS
    Runs,             \* the runs under way at once
    Docs,             \* base.json, resolution.json, outbox.json, stat-record.json
    Snapshots,        \* local-snapshot.json, remote-snapshot.json
    Contents,         \* the files of snapshot-content
    None,
    FirstUse,         \* neither home has been used before
    Overlaps,         \* runs overlap over a folder that was created again
    DiscardsCut,      \* runs are killed between folder.json and the rest
    AdoptionsCut,     \* runs are killed halfway through adopting what no stamp stands beside
    StampFails,       \* snapshots fail to be written, contents having been created
    MaxRuns,          \* bound: runs begun
    MaxChanges,       \* bound: changes begun and contents stored
    MaxKills,         \* bound: runs killed
    MaxFolders        \* bound: folders that stood at the root

Documents == Docs \cup Snapshots
Names     == Documents \cup Contents
Homes     == {"default", "inroot"}
Other(h)  == IF h = "default" THEN "inroot" ELSE "default"

ASSUME HomesAssumption ==
    /\ IsFiniteSet(Names) /\ Docs \cap Snapshots = {} /\ Documents \cap Contents = {}
    /\ Names \cap {"stamp", "folder"} = {} /\ None \notin Runs
    /\ {FirstUse, Overlaps, DiscardsCut, AdoptionsCut, StampFails} \subseteq BOOLEAN
    /\ {MaxRuns, MaxChanges, MaxKills, MaxFolders} \subseteq Nat

VARIABLES
    file,       \* per home and name, the file standing there or Absent
    stamp,      \* per home, state.stamp, 0 where none stands
    folder,     \* which folder stands at the root, and when it was made
    born,
    ident,      \* folder.json of the default home, 0 where none stands
    lockFiles,  \* the homes where state.lock stands
    holder,     \* per home, the run holding its lock
    pc, home,   \* per run, where it is and the home it writes
    stale,      \* per run, stale_default: the default home read as a removed folder's
    left,       \* per run, what it has still to discard or to write
    stored,     \* per run, the contents it stored,
    created,    \*   and the ones of them no document of its names yet
    op,         \* per run, what it does with the snapshots
    clock,
    allowed,    \* the states a read may answer: the last completed change's,
                \* and those of the changes begun since
    begun, changes, kills

disk   == <<file, stamp, folder, born, ident>>
locks  == <<lockFiles, holder>>
memory == <<left, stored, created, op>>
bounds == <<begun, changes, kills>>
vars   == <<disk, locks, pc, home, stale, memory, clock, allowed, bounds>>

-----------------------------------------------------------------------------
(* Reads. *)

Absent == [time |-> 0, names |-> {}]
Held(h) == {n \in Names : file[h][n] # Absent}
Named(h) == UNION {file[h][s].names : s \in Snapshots}

\* Whether the default home holds what a removed folder left.
Stale == ident # 0 /\ ident # folder
Readable(h, unread) == h = "inroot" \/ ~unread

\* Standing: a stamped home after every unstamped one, an unstamped one by
\* its newest file, an empty or unreadable one first.
Standing(h, unread) ==
    IF ~Readable(h, unread) THEN [stamped |-> 0, at |-> 0]
    ELSE IF stamp[h] # 0 THEN [stamped |-> 1, at |-> stamp[h]]
    ELSE [stamped |-> 0, at |-> Max({0} \cup {file[h][n].time : n \in Names})]

StampedLater(h, unread) ==
    LET this == Standing(h, unread)
        that == Standing(Other(h), unread)
    IN  \/ this.stamped > that.stamped
        \/ this.stamped = that.stamped /\ this.at > that.at

ReadHome(h, unread) == IF StampedLater(Other(h), unread) THEN Other(h) ELSE h

StateOf(h) == [d \in Documents |-> file[h][d]]
NoState    == [d \in Documents |-> Absent]
Read(h, unread) ==
    LET from == ReadHome(h, unread)
    IN  IF Readable(from, unread) THEN StateOf(from) ELSE NoState

-----------------------------------------------------------------------------
(* Steps shared by the actions. *)

Goto(r, step) == pc' = [pc EXCEPT ![r] = step]
Forget(r) ==
    /\ left' = [left EXCEPT ![r] = {}] /\ stored' = [stored EXCEPT ![r] = {}]
    /\ created' = [created EXCEPT ![r] = {}] /\ op' = [op EXCEPT ![r] = "none"]
    /\ stale' = [stale EXCEPT ![r] = FALSE] /\ home' = [home EXCEPT ![r] = "default"]

\* The process ends, its locks released by it or by the system.
EndRun(r) ==
    /\ Goto(r, "none") /\ Forget(r)
    /\ holder' = [h \in Homes |-> IF holder[h] = r THEN None ELSE holder[h]]

\* One change of the write home of r, at a time of its own.
Writes(r, n, names) ==
    /\ file' = [file EXCEPT ![home[r]][n] = [time |-> clock, names |-> names]]
    /\ clock' = clock + 1
Removes(r, gone) ==
    /\ file' = [file EXCEPT ![home[r]] = [n \in Names |-> IF n \in gone THEN Absent ELSE @[n]]]
    /\ UNCHANGED clock
StateAfter(r) == [d \in Documents |-> file'[home[r]][d]]

Begin(r, step) ==
    /\ pc[r] = "work" /\ changes < MaxChanges
    /\ changes' = changes + 1
    /\ Goto(r, step)

-----------------------------------------------------------------------------
(* WorkingCopy::open. *)

MayOpen(r) ==
    /\ pc[r] = "none" /\ begun < MaxRuns
    /\ Overlaps \/ folder = 1 \/ \A q \in Runs : pc[q] = "none"
    /\ begun' = begun + 1

\* A run the default root takes the writes of.
OpensDefault(r) ==
    /\ MayOpen(r)
    /\ Goto(r, IF ident = folder THEN "opened" ELSE "settling")
    /\ UNCHANGED <<disk, locks, home, stale, memory, clock, allowed, changes, kills>>

\* A run it refuses them of.
OpensInRoot(r) ==
    /\ MayOpen(r)
    /\ home' = [home EXCEPT ![r] = "inroot"]
    /\ stale' = [stale EXCEPT ![r] = Stale]
    /\ Goto(r, "opened")
    /\ UNCHANGED <<disk, locks, memory, clock, allowed, changes, kills>>

\* settle_folder_identity: under the default home's lock, every file of a
\* removed folder's state removed, in the order the directory lists them.
Settles(r) ==
    /\ pc[r] = "settling" /\ holder["default"] = None
    /\ holder' = [holder EXCEPT !["default"] = r]
    /\ lockFiles' = lockFiles \cup {"default"}
    /\ left' = [left EXCEPT ![r] =
                   IF Stale THEN Held("default") \cup {"folder"} \cup
                                 (IF stamp["default"] # 0 THEN {"stamp"} ELSE {})
                   ELSE {}]
    /\ Goto(r, "discarding")
    /\ UNCHANGED <<disk, home, stale, stored, created, op, clock, allowed, bounds>>

Discards(r) ==
    /\ pc[r] = "discarding"
    /\ \E entry \in left[r] :
          /\ left' = [left EXCEPT ![r] = @ \ {entry}]
          /\ file' = IF entry \in Names THEN [file EXCEPT !["default"][entry] = Absent] ELSE file
          /\ stamp' = IF entry = "stamp" THEN [stamp EXCEPT !["default"] = 0] ELSE stamp
          /\ ident' = IF entry = "folder" THEN 0 ELSE ident
    /\ UNCHANGED <<folder, born, locks, pc, home, stale, stored, created, op, clock, allowed, bounds>>

Settled(r) ==
    /\ pc[r] = "discarding" /\ left[r] = {}
    /\ ident' = folder
    /\ holder' = [holder EXCEPT !["default"] = None]
    /\ Goto(r, "opened")
    /\ UNCHANGED <<file, stamp, folder, born, lockFiles, home, stale, memory, clock, allowed, bounds>>

-----------------------------------------------------------------------------
(* WorkingCopy::lock. *)

\* (WriteHomeFirst: the write home's lock before the other's.)
WriteHomeFirst(r) == home[r]
FirstHome(r) == "default"

\* The write home's lock is created and waited for, the other's waited for
\* where it stands in a home that may be read.  (WantsOwn: not waited for.)
WantsOwn(r, h) == h = home[r]
Wants(r, h) == h = home[r] \/ (h \in lockFiles /\ Readable(h, stale[r]))

\* (TakesStanding: the lock file not made.)
TakesStanding(r, h) ==
    IF Wants(r, h)
    THEN /\ holder[h] = None
         /\ holder' = [holder EXCEPT ![h] = r]
         /\ UNCHANGED lockFiles
    ELSE UNCHANGED locks
Takes(r, h) ==
    IF Wants(r, h)
    THEN /\ holder[h] = None
         /\ holder' = [holder EXCEPT ![h] = r]
         /\ lockFiles' = lockFiles \cup {h}
    ELSE UNCHANGED locks

LocksFirst(r) ==
    /\ pc[r] = "opened" /\ Takes(r, FirstHome(r)) /\ Goto(r, "half")
    /\ UNCHANGED <<disk, home, stale, memory, clock, allowed, bounds>>

LocksSecond(r) ==
    /\ pc[r] = "half" /\ Takes(r, Other(FirstHome(r))) /\ Goto(r, "locked")
    /\ UNCHANGED <<disk, home, stale, memory, clock, allowed, bounds>>

ComparesStamps(r) ==
    /\ pc[r] = "locked"
    /\ Goto(r, IF ReadHome(home[r], stale[r]) = home[r] THEN "work" ELSE "adopting")
    /\ UNCHANGED <<disk, locks, home, stale, memory, clock, allowed, bounds>>

\* adopt: what the other home lacks removed, then its files copied, the
\* newest last and at the times they have, then its stamp.
Superfluous(r) == Held(home[r]) \ Held(Other(home[r]))
Uncopied(r) == {n \in Held(Other(home[r])) : file[home[r]][n] # file[Other(home[r])][n]}

AdoptRemoves(r) ==
    /\ pc[r] = "adopting"
    /\ \E n \in Superfluous(r) : Removes(r, {n})
    /\ UNCHANGED <<stamp, folder, born, ident, locks, pc, home, stale, memory, allowed, bounds>>

AdoptCopies(r) ==
    /\ pc[r] = "adopting" /\ Superfluous(r) = {}
    /\ \E n \in Uncopied(r) :
          /\ \A m \in Uncopied(r) : file[Other(home[r])][n].time <= file[Other(home[r])][m].time
          /\ file' = [file EXCEPT ![home[r]][n] = file[Other(home[r])][n]]
    /\ UNCHANGED <<stamp, folder, born, ident, locks, pc, home, stale, memory, clock, allowed, bounds>>

AdoptStamps(r) ==
    /\ pc[r] = "adopting" /\ Superfluous(r) = {} /\ Uncopied(r) = {}
    /\ stamp' = IF stamp[Other(home[r])] = 0 THEN stamp
                ELSE [stamp EXCEPT ![home[r]] = stamp[Other(home[r])]]
    /\ Goto(r, "work")
    /\ UNCHANGED <<file, folder, born, ident, locks, home, stale, memory, clock, allowed, bounds>>

-----------------------------------------------------------------------------
(* Changes, each a file written or removed and then the stamp. *)

\* write_state
WritesDoc(r, d) ==
    /\ Begin(r, "stamp") /\ Writes(r, d, {})
    /\ allowed' = allowed \cup {StateAfter(r)}
    /\ UNCHANGED <<stamp, folder, born, ident, locks, home, stale, memory, begun, kills>>

\* remove_state (RemovesUnstamped: the stamp left as it stands.)
RemovesUnstamped(r, d) ==
    /\ file[home[r]][d] # Absent
    /\ Begin(r, "work") /\ Removes(r, {d})
    /\ allowed' = {StateAfter(r)}
    /\ UNCHANGED <<stamp, folder, born, ident, locks, home, stale, memory, begun, kills>>
RemovesDoc(r, d) ==
    /\ file[home[r]][d] # Absent
    /\ Begin(r, "stamp") /\ Removes(r, {d})
    /\ allowed' = allowed \cup {StateAfter(r)}
    /\ UNCHANGED <<stamp, folder, born, ident, locks, home, stale, memory, begun, kills>>

\* store_with: a content renamed into place, whether or not one stood there.
StoresContent(r, c) ==
    /\ Begin(r, "work") /\ Writes(r, c, {})
    /\ stored' = [stored EXCEPT ![r] = @ \cup {c}]
    /\ created' = [created EXCEPT ![r] = IF file[home[r]][c] = Absent THEN @ \cup {c} ELSE @]
    /\ UNCHANGED <<stamp, folder, born, ident, locks, home, stale, left, op, allowed, begun, kills>>

\* remove_created, where a pass fails before its document names what it
\* stored.
RemovesCreated(r) ==
    /\ pc[r] = "work" /\ stored[r] # {}
    /\ Removes(r, created[r])
    /\ created' = [created EXCEPT ![r] = {}] /\ stored' = [stored EXCEPT ![r] = {}]
    /\ UNCHANGED <<stamp, folder, born, ident, locks, pc, home, stale, left, op, allowed, bounds>>

\* write_snapshots, of one document or both, and remove_snapshots: the
\* documents, then the contents neither names, then the stamp.  No caller
\* removes them while what it has stored is yet to be named.
BeginsWrite(r) ==
    /\ Begin(r, "snapshots")
    /\ \E some \in (SUBSET Snapshots) \ {{}} : left' = [left EXCEPT ![r] = some]
    /\ op' = [op EXCEPT ![r] = "write"]
    /\ UNCHANGED <<disk, locks, home, stale, stored, created, clock, allowed, begun, kills>>

BeginsRemoval(r) ==
    /\ Begin(r, "snapshots") /\ stored[r] = {}
    /\ left' = [left EXCEPT ![r] = Snapshots \cap Held(home[r])]
    /\ op' = [op EXCEPT ![r] = IF left'[r] = {} THEN "prune" ELSE "remove"]
    /\ UNCHANGED <<disk, locks, home, stale, stored, created, clock, allowed, begun, kills>>

\* A document names what it named and what the run has stored.
SnapshotStep(r, s) ==
    /\ pc[r] = "snapshots" /\ s \in left[r]
    /\ left' = [left EXCEPT ![r] = @ \ {s}]
    /\ \/ op[r] = "remove" /\ Removes(r, {s})
       \/ /\ op[r] = "write"
          /\ \E names \in SUBSET (file[home[r]][s].names \cup stored[r]) : Writes(r, s, names)
    /\ allowed' = allowed \cup {StateAfter(r)}
    /\ UNCHANGED <<stamp, folder, born, ident, locks, pc, home, stale, stored, created, op, bounds>>

\* (PrunesAtOnce: before the second document is written.)
PrunesAtOnce(r) ==
    /\ pc[r] = "snapshots"
    /\ \E c \in (Contents \cap Held(home[r])) \ Named(home[r]) : Removes(r, {c})
    /\ UNCHANGED <<stamp, folder, born, ident, locks, pc, home, stale, memory, allowed, bounds>>
Prunes(r) ==
    /\ pc[r] = "snapshots" /\ left[r] = {}
    /\ \E c \in (Contents \cap Held(home[r])) \ Named(home[r]) : Removes(r, {c})
    /\ UNCHANGED <<stamp, folder, born, ident, locks, pc, home, stale, memory, allowed, bounds>>

Pruned(r) ==
    /\ pc[r] = "snapshots" /\ left[r] = {} /\ Contents \cap Held(home[r]) \subseteq Named(home[r])
    /\ Goto(r, IF op[r] = "prune" THEN "work" ELSE "stamp")
    /\ op' = [op EXCEPT ![r] = IF @ = "prune" THEN "none" ELSE @]
    /\ UNCHANGED <<disk, locks, home, stale, left, stored, created, clock, allowed, bounds>>

\* restamp, the change then complete.
Stamps(r) ==
    /\ pc[r] = "stamp"
    /\ stamp' = [stamp EXCEPT ![home[r]] = clock]
    /\ clock' = clock + 1
    /\ Goto(r, "work")
    /\ stored' = [stored EXCEPT ![r] = IF op[r] = "none" THEN @ ELSE {}]
    /\ created' = [created EXCEPT ![r] = IF op[r] = "none" THEN @ ELSE {}]
    /\ op' = [op EXCEPT ![r] = "none"]
    /\ allowed' = {StateOf(home[r])}
    /\ UNCHANGED <<file, folder, born, ident, locks, home, stale, left, bounds>>

\* A step of write_snapshots answers an error: its caller removes the
\* contents it created, and the run ends.
SnapshotsFail(r) ==
    /\ pc[r] \in {"snapshots", "stamp"} /\ op[r] = "write"
    /\ StampFails \/ created[r] = {}
    /\ Removes(r, created[r])
    /\ EndRun(r)
    /\ UNCHANGED <<stamp, folder, born, ident, lockFiles, allowed, bounds>>

Ends(r) ==
    /\ pc[r] = "work"
    /\ EndRun(r)
    /\ UNCHANGED <<disk, lockFiles, clock, allowed, bounds>>

-----------------------------------------------------------------------------
(* The world. *)

\* Whether a kill would leave part of a removed folder's state without the
\* identity that tells it is one's.
HalfDiscarded(r) == pc[r] = "discarding" /\ ident = 0 /\ left[r] # {}

\* Whether it would leave part of a state that only its times tell the age of.
HalfAdopted(r) ==
    pc[r] = "adopting" /\ stamp[Other(home[r])] = 0 /\ Superfluous(r) \cup Uncopied(r) # {}

Kill(r) ==
    /\ pc[r] # "none" /\ kills < MaxKills
    /\ DiscardsCut \/ ~HalfDiscarded(r)
    /\ AdoptionsCut \/ ~HalfAdopted(r)
    /\ kills' = kills + 1
    /\ EndRun(r)
    /\ UNCHANGED <<disk, lockFiles, clock, allowed, begun, changes>>

\* The folder removed, its home with it, and another made in its place.
CreatesAgain ==
    /\ folder < MaxFolders /\ \A r \in Runs : pc[r] = "none"
    /\ folder' = folder + 1 /\ born' = clock
    /\ file' = [file EXCEPT !["inroot"] = [n \in Names |-> Absent]]
    /\ stamp' = [stamp EXCEPT !["inroot"] = 0]
    /\ lockFiles' = lockFiles \ {"inroot"}
    /\ allowed' = {NoState}
    /\ UNCHANGED <<ident, holder, pc, home, stale, memory, clock, bounds>>

-----------------------------------------------------------------------------
Init ==
    /\ file = [h \in Homes |-> [n \in Names |-> Absent]]
    /\ stamp = [h \in Homes |-> 0]
    /\ folder = 1 /\ born = 1 /\ ident = (IF FirstUse THEN 0 ELSE 1)
    /\ lockFiles = (IF FirstUse THEN {} ELSE {"default"})
    /\ holder = [h \in Homes |-> None]
    /\ pc = [r \in Runs |-> "none"] /\ home = [r \in Runs |-> "default"]
    /\ stale = [r \in Runs |-> FALSE] /\ left = [r \in Runs |-> {}]
    /\ stored = [r \in Runs |-> {}] /\ created = [r \in Runs |-> {}]
    /\ op = [r \in Runs |-> "none"]
    /\ clock = 1 /\ allowed = {NoState}
    /\ begun = 0 /\ changes = 0 /\ kills = 0

Opening(r) == OpensDefault(r) \/ OpensInRoot(r)
Locking(r) ==
    \/ Settles(r) \/ Discards(r) \/ Settled(r) \/ LocksFirst(r) \/ LocksSecond(r)
    \/ ComparesStamps(r) \/ AdoptRemoves(r) \/ AdoptCopies(r) \/ AdoptStamps(r)
Changing(r) ==
    \/ \E d \in Docs : WritesDoc(r, d) \/ RemovesDoc(r, d)
    \/ \E c \in Contents : StoresContent(r, c)
    \/ \E s \in Snapshots : SnapshotStep(r, s)
    \/ RemovesCreated(r) \/ BeginsWrite(r) \/ BeginsRemoval(r) \/ Prunes(r) \/ Pruned(r)
    \/ Stamps(r) \/ SnapshotsFail(r) \/ Ends(r)

Step(r) == Locking(r) \/ Changing(r)
Next ==
    \/ \E r \in Runs : Opening(r) \/ Step(r) \/ Kill(r)
    \/ CreatesAgain

Spec == Init /\ [][Next]_vars

-----------------------------------------------------------------------------
(* Properties. *)

File == [time : Nat, names : SUBSET Contents]
Locked(r) == pc[r] \in {"locked", "adopting", "work", "snapshots", "stamp"}

TypeOK ==
    /\ file \in [Homes -> [Names -> File]] /\ stamp \in [Homes -> Nat]
    /\ lockFiles \subseteq Homes /\ \A h \in Homes : holder[h] = None \/ h \in lockFiles
    /\ folder \in Nat /\ ident \in 0 .. folder
    /\ \A r \in Runs : Locked(r) => holder[home[r]] = r
    /\ \A h \in Homes, n \in Names : file[h][n].time < clock
    /\ \A r \in Runs : created[r] \subseteq stored[r] /\ stored[r] \subseteq Contents

\* Two runs never hold a copy's state at once, whichever homes they write:
\* each waits for the locks of both (lock).
Exclusive == \A r, q \in Runs : Locked(r) /\ Locked(q) => r = q

\* Every run, whichever home it writes, reads the state the last completed
\* change left, or one a change killed since was about to leave, whatever
\* run of either kind made it, whatever adoption was cut short and whatever
\* folder stood there before; so does a reader holding no lock.
ReadsLastChange ==
    /\ \A r \in Runs : pc[r] = "work" => Read(home[r], stale[r]) \in allowed
    /\ (\A r \in Runs : pc[r] # "discarding") => \A h \in Homes : Read(h, Stale) \in allowed

\* The contents the snapshots read name stand beside them, through stores,
\* prunes, adoptions and kills: a discard finds what it restores.
NamedContentStands ==
    \A r \in Runs : pc[r] = "work" =>
        LET from == ReadHome(home[r], stale[r]) IN Named(from) \subseteq Held(from)

\* What a run reads is whole: the last change's documents, and every content
\* they name.
ReadsWholeChange == ReadsLastChange /\ NamedContentStands

\* No state of a removed folder is read in the folder made in its place
\* (settle_folder_identity).
NothingOfRemovedFolder ==
    \A r \in Runs : pc[r] = "work" =>
        \A d \in Documents :
            LET f == Read(home[r], stale[r])[d] IN f # Absent => f.time >= born

\* Whether r waits for a lock another run holds.
Waits(r) ==
    LET Taken(h) == Wants(r, h) /\ holder[h] # None
    IN  \/ pc[r] = "settling" /\ holder["default"] # None
        \/ pc[r] = "opened" /\ Taken(FirstHome(r))
        \/ pc[r] = "half" /\ Taken(Other(FirstHome(r)))

\* Runs that write different homes, discard a removed folder's state or are
\* killed holding one lock of two never all wait for each other (lock 1:
\* the default home's lock before the in-root home's).
NotAllWaiting ==
    (\E r \in Runs : pc[r] # "none") => \E r \in Runs : pc[r] # "none" /\ ~Waits(r)
=============================================================================
