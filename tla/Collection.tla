----------------------------- MODULE Collection -----------------------------
(***************************************************************************)
(* The collection of a folder (src/push/collector.rs, collect_files, under *)
(* src/push/converge.rs, collect_folder): a walk that keeps files and takes *)
(* their hashes, from the stat record where an entry is trusted, then one   *)
(* that tells why each other file was left out, while the person edits,     *)
(* replaces and removes what it walks.                                      *)
(*                                                                         *)
(* Content stands for its hash, all of one size: what tells two of them    *)
(* apart is their times and inode.  A path a run asks to be read again is  *)
(* one of no entry.  The folder holds files beside one directory; what the *)
(* rules say of a path does not change.                                    *)
(***************************************************************************)
EXTENDS Naturals, FiniteSets, Functions

CONSTANTS
    TopFiles, DirFiles,  \* the files of the folder, and of its directory
    FileContents, Inodes,
    NoFile,
    Scenes          \* what a behaviour starts from, and its bounds: see Scene

FolderFiles == TopFiles \cup DirFiles

VARIABLES disk, record, walk

(* What the rules say of a path (`SkipReason`, in its order), and whether   *)
(* the kept walk keeps it; one of the owner's `!` lines keeps a file whose  *)
(* name alone is machine-local, none keeps a pipe or a socket.              *)
Rulings == {"too_large", "default_dir", "pipe", "machine_name", "machine_name_kept",
            "excluded", "gitignore", "synsignore", "kept"}
Keeps(p) == \/ disk.rule[p] \in {"kept", "machine_name_kept"}
            \/ disk.rule[p] = "default_dir" /\ walk.allDirs

(* The rule of each file, the files that stand, how the file system's clock *)
(* ticks (see Tick), and the bounds: the files the person edits, the edits, *)
(* the ticks and the collections still to come.                             *)
Scene == [rule : [FolderFiles -> Rulings], standing : SUBSET FolderFiles,
          clock : {"coarse", "fine", "any"}, edited : SUBSET FolderFiles,
          edits : Nat, ticks : Nat, collections : Nat]
ASSUME CollectionAssumption == Scenes \subseteq Scene /\ Inodes # {}

NoRecord == [stamp |-> 0, entries |-> <<>>]
NoWalk == [at |-> "idle", allDirs |-> FALSE, locked |-> FALSE, todo |-> {}, listed |-> {}, dirs |-> FALSE,
           before |-> NoFile, found |-> NoFile, on |-> {}, record |-> NoRecord,
           kept |-> <<>>, spared |-> {}, left |-> {}, gone |-> {}, goneDir |-> FALSE,
           skipped |-> {}]
StatOf(file) == [file EXCEPT !.content = NoFile]

CollectionStart(scene, first) ==
    /\ record = NoRecord /\ walk = NoWalk
    /\ disk = [files |-> [p \in FolderFiles |->
                  IF p \in scene.standing
                  THEN [content |-> first, mtime |-> 1, ctime |-> 1, inode |-> CHOOSE i \in Inodes : TRUE]
                  ELSE NoFile],
               dir |-> scene.standing \cap DirFiles # {}, rule |-> scene.rule, clock |-> scene.clock,
               now |-> 1, lastRead |-> 0, edited |-> scene.edited, edits |-> scene.edits,
               ticks |-> scene.ticks, collections |-> scene.collections]
CollectionInit == \E scene \in Scenes, first \in FileContents : CollectionStart(scene, first)

Stands(p) == disk.files[p] # NoFile
Listed(files) == {p \in files : Stands(p)}
Walking == walk.at # "idle"
With(f, p, value) == [q \in DOMAIN f \cup {p} |-> IF q = p THEN value ELSE f[q]]

-----------------------------------------------------------------------------
(* The kept walk.                                                           *)

BeginCollection ==
    /\ walk.at = "idle" /\ disk.collections > 0
    /\ disk' = [disk EXCEPT !.collections = @ - 1]
    /\ \E locked, allDirs \in BOOLEAN :
         walk' = [NoWalk EXCEPT !.at = "walk", !.locked = locked, !.allDirs = allDirs,
                    !.todo = Listed(TopFiles), !.listed = Listed(TopFiles), !.dirs = disk.dir,
                    !.record = record]
    /\ UNCHANGED record

(* A directory gone when the walk comes to it takes its files with it.      *)
ReadDirectory ==
    /\ walk.at = "walk" /\ walk.dirs
    /\ walk' = IF disk.dir
               THEN [walk EXCEPT !.dirs = FALSE, !.todo = @ \cup Listed(DirFiles),
                                 !.listed = @ \cup Listed(DirFiles)]
               ELSE [walk EXCEPT !.dirs = FALSE, !.goneDir = TRUE]
    /\ UNCHANGED <<disk, record>>

LeaveOut(p) ==
    /\ walk.at = "walk" /\ p \in walk.todo /\ ~Keeps(p)
    /\ walk' = [walk EXCEPT !.todo = @ \ {p},
                  !.left = IF disk.rule[p] \in {"too_large", "pipe", "machine_name"}
                           THEN @ \cup {p} ELSE @]
    /\ UNCHANGED <<disk, record>>

(* `StatRecord::trusted`. *)
(* Mutant: an entry as late as the stamp is trusted.                        *)
MutTrusted(r, p, stat) ==
    /\ r.stamp # 0 /\ p \in DOMAIN r.entries
    /\ StatOf(r.entries[p]) = stat
    /\ stat.mtime <= r.stamp /\ stat.ctime <= r.stamp
Trusted(r, p, stat) ==
    /\ r.stamp # 0 /\ p \in DOMAIN r.entries
    /\ StatOf(r.entries[p]) = stat
    /\ stat.mtime < r.stamp /\ stat.ctime < r.stamp

GoneAt(p) == [walk EXCEPT !.at = "walk", !.todo = @ \ {p}, !.on = {}, !.gone = @ \cup {p}]

(* `collect_entry`: the stat, the read, the stat after it.                  *)
StatBefore(p) ==
    LET stat == StatOf(disk.files[p])
    IN /\ walk.at = "walk" /\ p \in walk.todo /\ Keeps(p)
       /\ \/ ~Stands(p) /\ walk' = GoneAt(p)
          \/ /\ Stands(p) /\ Trusted(walk.record, p, stat)
             /\ walk' = [walk EXCEPT !.todo = @ \ {p}, !.spared = @ \cup {p},
                           !.kept = With(@, p, walk.record.entries[p].content)]
          \/ /\ Stands(p) /\ ~Trusted(walk.record, p, stat)
             /\ walk' = [walk EXCEPT !.at = "read", !.on = {p}, !.before = stat]
       /\ UNCHANGED <<disk, record>>

Read(p) ==
    /\ walk.at = "read" /\ p \in walk.on
    /\ IF Stands(p)
       THEN /\ walk' = [walk EXCEPT !.at = "stat", !.found = disk.files[p].content]
            /\ disk' = [disk EXCEPT !.lastRead = disk.now]
       ELSE walk' = GoneAt(p) /\ UNCHANGED disk
    /\ UNCHANGED record

(* `StatRecord::observe`: the entry where nothing moved under the read.     *)
Observed(r, p, before, content) ==
    IF ~Stands(p) THEN r
    ELSE IF before = StatOf(disk.files[p])
         THEN [r EXCEPT !.entries = With(@, p, [before EXCEPT !.content = content])]
         ELSE [r EXCEPT !.entries = Restrict(@, DOMAIN @ \ {p})]
StatAfter(p) ==
    /\ walk.at = "stat" /\ p \in walk.on
    /\ walk' = [walk EXCEPT !.at = "walk", !.todo = @ \ {p}, !.on = {},
                  !.kept = With(@, p, walk.found),
                  !.record = Observed(@, p, walk.before, walk.found)]
    /\ UNCHANGED <<disk, record>>

(* The record keeps only what was reached; a second walk begins.            *)
Reached(r) == [r EXCEPT !.entries = Restrict(@, DOMAIN @ \cap DOMAIN walk.kept)]
EndKeptWalk ==
    /\ walk.at = "walk" /\ walk.todo = {} /\ ~walk.dirs
    /\ walk' = [walk EXCEPT !.at = "attribute", !.todo = FolderFiles,
                  !.record = Reached(@)]
    /\ UNCHANGED <<disk, record>>

-----------------------------------------------------------------------------
(* The attribution walk (`attribute`), each file as it stands by then.      *)

(* Mutant: a file gone at its read is walked as any other.                  *)
MutAbsent(p) == walk.goneDir /\ p \in DirFiles
NotMet(p) == p \in walk.gone \/ (walk.goneDir /\ p \in DirFiles)

Attribute(p) ==
    /\ walk.at = "attribute" /\ p \in walk.todo
    /\ LET seen == Stands(p) /\ ~NotMet(p)
           left == seen /\ p \notin DOMAIN walk.kept
       IN walk' = [walk EXCEPT !.todo = @ \ {p}, !.skipped = IF left THEN @ \cup {p} ELSE @]
    /\ UNCHANGED <<disk, record>>

(* The record written back under the state lock, stamped by a probe made    *)
(* now, where it changed or holds an entry too recent to trust; a refused   *)
(* write leaves it as it stood.                                             *)
HoldsUntrusted(r) ==
    IF r.stamp = 0 THEN DOMAIN r.entries # {}
    ELSE \E p \in DOMAIN r.entries : r.entries[p].mtime >= r.stamp \/ r.entries[p].ctime >= r.stamp
Restamp ==
    /\ walk.at = "attribute" /\ walk.todo = {}
    /\ LET writes == walk.locked /\ (walk.record.entries # record.entries \/ HoldsUntrusted(walk.record))
       IN \/ writes /\ record' = [walk.record EXCEPT !.stamp = disk.now]
          \/ writes /\ record' = [walk.record EXCEPT !.stamp = 0]  \* no probe could be made
          \/ UNCHANGED record                                      \* or the write refused
    /\ walk' = [walk EXCEPT !.at = "collected"]
    /\ UNCHANGED disk
EndCollection ==
    /\ walk.at = "collected" /\ walk' = NoWalk
    /\ UNCHANGED <<disk, record>>

-----------------------------------------------------------------------------
(* The person and the clock.                                                *)

(* Coarse: no tick passes while a folder is collected; fine: no edit falls  *)
(* in the tick of a read before it; any: neither is sure.                   *)
Tick ==
    /\ disk.ticks > 0 /\ (disk.clock = "coarse" => ~Walking)
    /\ disk' = [disk EXCEPT !.now = @ + 1, !.ticks = @ - 1]
    /\ UNCHANGED <<record, walk>>
MayEdit == disk.edits > 0 /\ (disk.clock = "fine" => disk.now > disk.lastRead)
Edited(p, file) == [disk EXCEPT !.files = With(@, p, file), !.edits = @ - 1, !.dir = @ \/ p \in DirFiles]

(* In place, its time of modification kept or not, or another file put in   *)
(* its place under an inode that may be the one it had.                     *)
Rewrite(p, content) ==
    /\ MayEdit /\ p \in disk.edited
    /\ \E mtime \in {disk.now} \cup (IF Stands(p) THEN {disk.files[p].mtime} ELSE {}), inode \in Inodes :
         disk' = Edited(p, [content |-> content, mtime |-> mtime, ctime |-> disk.now, inode |-> inode])
    /\ UNCHANGED <<record, walk>>
RemoveFile(p) ==
    /\ MayEdit /\ p \in disk.edited /\ Stands(p) /\ disk' = Edited(p, NoFile)
    /\ UNCHANGED <<record, walk>>
RemoveDirectory ==
    /\ MayEdit /\ DirFiles \subseteq disk.edited /\ disk.dir
    /\ disk' = [disk EXCEPT !.dir = FALSE, !.edits = @ - 1,
                  !.files = [p \in FolderFiles |-> IF p \in DirFiles THEN NoFile ELSE @[p]]]
    /\ UNCHANGED <<record, walk>>

CollectionNext ==
    \/ BeginCollection \/ ReadDirectory \/ EndKeptWalk \/ Restamp \/ EndCollection \/ Tick
    \/ RemoveDirectory
    \/ \E p \in FolderFiles :
         \/ LeaveOut(p) \/ StatBefore(p) \/ Read(p) \/ StatAfter(p) \/ Attribute(p) \/ RemoveFile(p)
         \/ \E content \in FileContents : Rewrite(p, content)

collectionVars == <<disk, record, walk>>
CollectionSpec == CollectionInit /\ [][CollectionNext]_collectionVars

-----------------------------------------------------------------------------
(* A read spared answers what the file holds: whatever was edited, put in   *)
(* place with its times restored or removed and written again between two   *)
(* collections, no entry is trusted past it (working_copy.rs 237 to 301).   *)
SparedAsItStands ==
    [][\A p \in walk'.spared \ walk.spared : walk'.kept[p] = disk.files[p].content]_collectionVars

(* A file reported as left out was left out by a rule, or came to stand     *)
(* only after the kept walk had passed its directory: none that was listed  *)
(* and gone at its read, whatever stands there again by the second walk.    *)
LeftOutByARule ==
    walk.at = "collected" =>
      /\ \A p \in walk.skipped : Keeps(p) => p \notin walk.listed /\ ~(walk.goneDir /\ p \in DirFiles)
      /\ walk.left \cap DOMAIN walk.kept = {} /\ DOMAIN walk.kept \cap walk.skipped = {}

(* A collection answers the folder as it stands: what is spared a read, and *)
(* what is reported as left out, of which nothing is collected.             *)
CollectedAsItStands == SparedAsItStands /\ []LeftOutByARule
=============================================================================
