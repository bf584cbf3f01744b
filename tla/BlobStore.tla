------------------------------ MODULE BlobStore ------------------------------
(***************************************************************************)
(* The content store of one account (src/read/store.rs): the files every   *)
(* run of `syns` may keep or remove, the file `size` that counts their     *)
(* bytes, and the sweep that holds them to a cap, shared by concurrent     *)
(* runs that may be killed anywhere.                                       *)
(*                                                                         *)
(* Every change of `size` is made under the exclusive lock; the many       *)
(* placements of a batch read are not, and are counted later.              *)
(***************************************************************************)
EXTENDS Integers, FiniteSets, FiniteSetsExt

CONSTANTS
    Runs,        \* the runs under way at once
    Blobs,       \* names standing for content: blobs and trees, never replaced
    Views,       \* names replaced whole
    Length,      \* the bytes a blob's name stands for, and the longest view's
    Cap,         \* max_bytes
    FlushEvery,  \* FLUSH_EVERY: fast placements counted at once
    None,
    Missing,     \* of `size`: no file
    Torn,        \* of `size`: a file that is no number, left by a kill
    Listings,    \* whether `ls` and `glob` runs place what they read
    MaxChanges,  \* bound: admissions, placements and removals begun
    MaxDamages,  \* bound: files truncated, altered or removed by hand
    MaxKills     \* bound: runs killed

Files == Blobs \cup Views

ASSUME StoreAssumption ==
    /\ IsFiniteSet(Blobs) /\ IsFiniteSet(Views) /\ Blobs \cap Views = {} /\ Files # {}
    /\ IsFiniteSet(Runs) /\ None \notin Runs
    /\ Missing # Torn /\ Missing \notin Nat /\ Torn \notin Nat
    /\ Length \in [Files -> Nat \ {0}]
    /\ Cap \in Nat \ {0} /\ FlushEvery \in Nat \ {0} /\ Listings \in BOOLEAN
    /\ MaxChanges \in Nat /\ MaxDamages \in Nat /\ MaxKills \in Nat

VARIABLES
    held,     \* per name, the length of the file standing there, 0 for none
    bad,      \* the names whose bytes are not the ones named
    size,     \* `size`: a number, Missing or Torn
    lock,     \* the run holding the lock, or None
    pc,       \* per run, where it is, "none" where there is no run
    job,      \* per run, what it does under the lock: its kind, its file, and
              \* the bytes it adds and takes
    pending,  \* per run, the bytes it placed and did not count yet
    placed,   \* per run, its placements since the last flush
    flags,    \* per run, what it has done: admitted, resync, counted
    found,    \* per run, the lengths its walk has seen
    left,     \* per run, the names its walk or its sweep has still to see
    changes, damages, kills,
    drifted   \* a sweep or a recount saw bytes a placement was yet to count

files  == <<held, bad>>
walk   == <<found, left>>
bounds == <<changes, damages, kills>>
vars   == <<files, size, lock, pc, job, pending, placed, flags, walk, bounds, drifted>>

Bytes(lengths) == MapThenSumSet(LAMBDA f : lengths[f], Files)

\* saturating_sub.
Minus(m, n) == IF m < n THEN 0 ELSE m - n

\* What is past the cap (PastCapByOne: off by one), and what a sweep brings
\* the store under.
PastCapByOne(bytes) == bytes > Cap + 1
PastCap(bytes) == bytes > Cap
LowWater == (Cap \div 10) * 9 + ((Cap % 10) * 9) \div 10

NoJob  == [kind |-> "none", file |-> None, add |-> 0, sub |-> 0]
Unseen == [f \in Files |-> 0]

Goto(r, step) == pc' = [pc EXCEPT ![r] = step]
Job(r, kind, file) == job' = [job EXCEPT ![r] = [NoJob EXCEPT !.kind = kind, !.file = file]]

Begin(r, kind, f, step) ==
    /\ pc[r] = "open" /\ changes < MaxChanges
    /\ changes' = changes + 1
    /\ Job(r, kind, f)
    /\ Goto(r, step)

-----------------------------------------------------------------------------
(* What a run does outside the lock. *)

Open(r) ==
    /\ pc[r] = "none"
    /\ Goto(r, "open")
    /\ UNCHANGED <<files, size, lock, job, pending, placed, flags, walk, bounds, drifted>>

\* A blob, or a tree's lines, that are not the bytes named are removed; a
\* blob's removal has `size` recounted by finish.
Verified(r, f) ==
    /\ f \in bad
    /\ Begin(r, "remove", f, "lock")
    /\ \E noted \in {{}, {"resync"}} : flags' = [flags EXCEPT ![r] = @ \cup noted]
    /\ UNCHANGED <<files, size, lock, pending, placed, walk, damages, kills, drifted>>

\* A view that contradicts an answer, or one too many.
RemoveView(r, f) ==
    /\ f \in Views /\ held[f] # 0
    /\ Begin(r, "remove", f, "lock")
    /\ UNCHANGED <<files, size, lock, pending, placed, flags, walk, damages, kills, drifted>>

WriteView(r, f) ==
    /\ f \in Views
    /\ Begin(r, "put", f, "lock")
    /\ UNCHANGED <<files, size, lock, pending, placed, flags, walk, damages, kills, drifted>>

Admit(r, f) ==
    /\ f \in Blobs /\ held[f] = 0
    /\ Begin(r, "admit", f, "lock")
    /\ UNCHANGED <<files, size, lock, pending, placed, flags, walk, damages, kills, drifted>>

\* The first placement of a run has `size` stand before it.
\* (PlacesAtOnce: it does not.)
PlacesAtOnce(r, f) ==
    /\ f \in Blobs /\ held[f] = 0
    /\ Begin(r, "place", f, "place")
    /\ UNCHANGED <<files, size, lock, pending, placed, flags, walk, damages, kills, drifted>>

Place(r, f) ==
    /\ f \in Blobs /\ held[f] = 0
    /\ IF "counted" \notin flags[r] /\ size = Missing
       THEN Begin(r, "first", f, "lock")
       ELSE Begin(r, "place", f, "place")
    /\ flags' = [flags EXCEPT ![r] = @ \cup {"counted"}]
    /\ UNCHANGED <<files, size, lock, pending, placed, walk, damages, kills, drifted>>

\* Renamed in without the lock, never over a file standing there.
Renames(r) ==
    /\ pc[r] = "place" /\ held[job[r].file] = 0
    /\ LET f == job[r].file
       IN  /\ held' = [held EXCEPT ![f] = Length[f]]
           /\ pending' = [pending EXCEPT ![r] = @ + Length[f]]
    /\ placed' = [placed EXCEPT ![r] = (@ + 1) % FlushEvery]
    /\ flags' = [flags EXCEPT ![r] = @ \cup {"admitted"}]
    /\ IF placed'[r] = 0 THEN Job(r, "flush", None) /\ Goto(r, "lock")
                         ELSE Job(r, "none", None) /\ Goto(r, "open")
    /\ UNCHANGED <<bad, size, lock, walk, bounds, drifted>>

FindsPlaced(r) ==
    /\ pc[r] = "place" /\ held[job[r].file] # 0
    /\ Job(r, "none", None) /\ Goto(r, "open")
    /\ UNCHANGED <<files, size, lock, pending, placed, flags, walk, bounds, drifted>>

EndRun(r) ==
    /\ Goto(r, "none") /\ Job(r, "none", None)
    /\ pending' = [pending EXCEPT ![r] = 0]
    /\ placed' = [placed EXCEPT ![r] = 0]
    /\ flags' = [flags EXCEPT ![r] = {}]
    /\ found' = [found EXCEPT ![r] = Unseen]
    /\ left' = [left EXCEPT ![r] = {}]

\* `size` as finish reads it with no lock, perhaps while it is written.
Over == size \in Nat /\ PastCap(size)
BeingWritten == \E q \in Runs : pc[q] = "count"

\* finish, where the run changed nothing and nothing is past the cap.
\* (FinishesUnderCap: where nothing is past the cap.)
FinishesUnderCap(r) ==
    /\ pc[r] = "open" /\ ~Over
    /\ EndRun(r)
    /\ UNCHANGED <<files, size, lock, bounds, drifted>>

FinishesUnlocked(r) ==
    /\ pc[r] = "open" /\ flags[r] \cap {"admitted", "resync"} = {}
    /\ ~Over \/ BeingWritten
    /\ EndRun(r)
    /\ UNCHANGED <<files, size, lock, bounds, drifted>>

\* finish in all other cases, a run that only holds hints to merge included.
Finish(r) ==
    /\ pc[r] = "open"
    /\ Job(r, "finish", None) /\ Goto(r, "lock")
    /\ UNCHANGED <<files, size, lock, pending, placed, flags, walk, bounds, drifted>>

\* read/listing.rs `list` drops its store with no finish, what it placed
\* included.
ListingEnds(r) ==
    /\ pc[r] = "open" /\ (Listings \/ flags[r] = {})
    /\ EndRun(r)
    /\ UNCHANGED <<files, size, lock, bounds, drifted>>

-----------------------------------------------------------------------------
(* Under the lock. *)

Walks(r) ==
    /\ found' = [found EXCEPT ![r] = Unseen]
    /\ left' = [left EXCEPT ![r] = Files]
    /\ Goto(r, "walk")

\* read_size: `size` where it is a number, the files walked where it is not.
ReadsSize(r, step) ==
    IF size \in Nat THEN Goto(r, step) /\ UNCHANGED walk ELSE Walks(r)
SizeRead(r) == IF size \in Nat THEN size ELSE Bytes(found[r])

\* Whether the lock, once held, still finds its job to do.
Needed(r) ==
    CASE job[r].kind = "admit"  -> held[job[r].file] = 0
      [] job[r].kind = "remove" -> held[job[r].file] # 0
      [] job[r].kind = "first"  -> size = Missing
      [] OTHER -> TRUE

\* (LocksUnheld: the lock not waited for.)
LocksUnheld(r) ==
    /\ pc[r] = "lock" /\ Needed(r)
    /\ lock' = r
    /\ CASE job[r].kind = "first" -> Walks(r)
         [] job[r].kind \in {"flush", "finish"} -> Goto(r, "flush") /\ UNCHANGED walk
         [] OTHER -> ReadsSize(r, "change")
    /\ UNCHANGED <<files, size, job, pending, placed, flags, bounds, drifted>>

Locks(r) ==
    /\ pc[r] = "lock" /\ lock = None /\ Needed(r)
    /\ lock' = r
    /\ CASE job[r].kind = "first" -> Walks(r)
         [] job[r].kind \in {"flush", "finish"} -> Goto(r, "flush") /\ UNCHANGED walk
         [] OTHER -> ReadsSize(r, "change")
    /\ UNCHANGED <<files, size, job, pending, placed, flags, bounds, drifted>>

NotNeeded(r) ==
    /\ pc[r] = "lock" /\ lock = None /\ ~Needed(r)
    /\ Goto(r, IF job[r].kind = "first" THEN "place" ELSE "open")
    /\ job' = IF job[r].kind = "first" THEN job ELSE [job EXCEPT ![r] = NoJob]
    /\ UNCHANGED <<files, size, lock, pending, placed, flags, walk, bounds, drifted>>

\* admit, put_counted, remove_counted: the file renamed in or removed, which
\* may find that a placement came first.
Changes(r) ==
    /\ pc[r] = "change"
    /\ LET f == job[r].file
       IN  \/ /\ job[r].kind = "admit" /\ held[f] = 0
              /\ held' = [held EXCEPT ![f] = Length[f]]
           \/ /\ job[r].kind = "put"
              /\ \E length \in 1 .. Length[f] : held' = [held EXCEPT ![f] = length]
           \/ /\ job[r].kind = "remove" /\ held[f] # 0
              /\ held' = [held EXCEPT ![f] = 0]
    /\ LET f == job[r].file
       IN  /\ bad' = bad \ {f}
           /\ job' = [job EXCEPT ![r].add = held'[f], ![r].sub = held[f]]
    /\ Goto(r, "count")
    /\ UNCHANGED <<size, lock, pending, placed, flags, walk, bounds, drifted>>

\* A placement took the admission's name, or a hand the removal's file.
FindsChanged(r) ==
    /\ pc[r] = "change"
    /\ \/ job[r].kind = "admit" /\ held[job[r].file] # 0
       \/ job[r].kind = "remove" /\ held[job[r].file] = 0
    /\ lock' = None
    /\ Goto(r, "open") /\ Job(r, "none", None)
    /\ found' = [found EXCEPT ![r] = Unseen]
    /\ UNCHANGED <<files, size, pending, placed, flags, left, bounds, drifted>>

\* flush_pending_locked: the bytes taken over, then counted.
Flushes(r) ==
    /\ pc[r] = "flush"
    /\ pending' = [pending EXCEPT ![r] = 0]
    /\ job' = [job EXCEPT ![r].add = pending[r]]
    /\ IF pending[r] = 0 THEN Goto(r, "flushed") /\ UNCHANGED walk
                         ELSE ReadsSize(r, "count")
    /\ UNCHANGED <<files, size, lock, placed, flags, bounds, drifted>>

\* The files seen one after another, while others are placed.
WalkSees(r, f) ==
    /\ pc[r] = "walk" /\ f \in left[r]
    /\ found' = [found EXCEPT ![r][f] = held[f]]
    /\ left' = [left EXCEPT ![r] = @ \ {f}]
    /\ drifted' = (drifted \/ (size # Missing /\ \E q \in Runs : pending[q] # 0))
    /\ UNCHANGED <<files, size, lock, pc, job, pending, placed, flags, bounds>>

Walked(r) ==
    /\ pc[r] = "walk" /\ left[r] = {}
    /\ Goto(r, CASE job[r].kind \in {"admit", "put", "remove"} -> "change"
                 [] job[r].kind = "capped" -> "cap"
                 [] job[r].kind = "sweep"  -> "sweep"
                 [] OTHER -> "count")
    /\ left' = [left EXCEPT ![r] = IF job[r].kind = "sweep" THEN {f \in Files : found[r][f] # 0}
                                   ELSE {}]
    /\ UNCHANGED <<files, size, lock, job, pending, placed, flags, found, bounds, drifted>>

\* What write_size writes: a walk's total as it is, which holds the bytes a
\* flush came to add, or `size` changed.
SizeToWrite(r) ==
    CASE job[r].kind \in {"first", "resync", "sweep"} -> Bytes(found[r])
      [] job[r].kind \in {"flush", "finish"} /\ size \notin Nat -> Bytes(found[r])
      [] OTHER -> Minus(SizeRead(r), job[r].sub) + job[r].add

Counts(r) ==
    /\ pc[r] = "count"
    /\ size' = SizeToWrite(r)
    /\ flags' = [flags EXCEPT ![r] =
                    CASE job[r].kind \in {"admit", "put"} -> @ \cup {"admitted"}
                      [] job[r].kind = "resync" -> @ \ {"resync"}
                      [] OTHER -> @]
    /\ Goto(r, CASE job[r].kind \in {"finish", "resync"} -> "flushed"
                 [] job[r].kind = "sweep" -> "swept"
                 [] job[r].kind = "first" -> "place"
                 [] OTHER -> "open")
    /\ lock' = IF job[r].kind \in {"finish", "resync", "sweep"} THEN lock ELSE None
    /\ job' = IF job[r].kind = "first" THEN job ELSE [job EXCEPT ![r] = NoJob]
    /\ found' = [found EXCEPT ![r] = Unseen]
    /\ UNCHANGED <<files, pending, placed, left, bounds, drifted>>

\* finish, the flush done: a recount where a blob failed its check, and the
\* sweep where `size` then stands past the cap.
Resyncs(r) ==
    /\ pc[r] = "flushed" /\ "resync" \in flags[r]
    /\ Job(r, "resync", None) /\ Walks(r)
    /\ UNCHANGED <<files, size, lock, pending, placed, flags, bounds, drifted>>

ChecksCap(r) ==
    /\ pc[r] = "flushed" /\ "resync" \notin flags[r]
    /\ Job(r, "capped", None) /\ ReadsSize(r, "cap")
    /\ UNCHANGED <<files, size, lock, pending, placed, flags, bounds, drifted>>

Sweeps(r) ==
    /\ pc[r] = "cap" /\ PastCap(SizeRead(r))
    /\ Job(r, "sweep", None) /\ Walks(r)
    /\ UNCHANGED <<files, size, lock, pending, placed, flags, bounds, drifted>>

\* Whatever the order of eviction, it goes on to the low water.
Evicting(r) == Bytes(found[r]) > LowWater

Evicts(r, f) ==
    /\ pc[r] = "sweep" /\ Evicting(r) /\ f \in left[r]
    /\ left' = [left EXCEPT ![r] = @ \ {f}]
    /\ found' = [found EXCEPT ![r][f] = IF held[f] # 0 THEN 0 ELSE @]
    /\ held' = [held EXCEPT ![f] = 0] /\ bad' = bad \ {f}
    /\ UNCHANGED <<size, lock, pc, job, pending, placed, flags, bounds, drifted>>

Evicted(r) ==
    /\ pc[r] = "sweep" /\ (~Evicting(r) \/ left[r] = {})
    /\ Goto(r, "count")
    /\ left' = [left EXCEPT ![r] = {}]
    /\ UNCHANGED <<files, size, lock, job, pending, placed, flags, found, bounds, drifted>>

Finishes(r) ==
    /\ \/ pc[r] = "cap" /\ ~PastCap(SizeRead(r))
       \/ pc[r] = "swept"
    /\ lock' = None
    /\ EndRun(r)
    /\ UNCHANGED <<files, size, bounds, drifted>>

-----------------------------------------------------------------------------
(* A run killed, the system releasing its lock, and a file changed by hand. *)

Kill(r) ==
    /\ pc[r] # "none" /\ kills < MaxKills
    /\ kills' = kills + 1
    /\ lock' = IF lock = r THEN None ELSE lock
    /\ size' \in {size} \cup (IF pc[r] = "count" THEN {Torn} ELSE {})
    /\ EndRun(r)
    /\ UNCHANGED <<files, changes, damages, drifted>>

Damage(f) ==
    /\ held[f] # 0 /\ damages < MaxDamages
    /\ damages' = damages + 1
    /\ \E length \in 0 .. held[f] : held' = [held EXCEPT ![f] = length]
    /\ bad' = IF held'[f] = 0 THEN bad \ {f} ELSE bad \cup {f}
    /\ UNCHANGED <<size, lock, pc, job, pending, placed, flags, walk, changes, kills, drifted>>

-----------------------------------------------------------------------------
Init ==
    /\ held = [f \in Files |-> 0] /\ bad = {} /\ size = Missing /\ lock = None
    /\ pc = [r \in Runs |-> "none"] /\ job = [r \in Runs |-> NoJob]
    /\ pending = [r \in Runs |-> 0] /\ placed = [r \in Runs |-> 0]
    /\ flags = [r \in Runs |-> {}]
    /\ found = [r \in Runs |-> Unseen] /\ left = [r \in Runs |-> {}]
    /\ changes = 0 /\ damages = 0 /\ kills = 0
    /\ drifted = FALSE

Outside(r) ==
    \/ Open(r)
    \/ \E f \in Files :
          Verified(r, f) \/ RemoveView(r, f) \/ WriteView(r, f) \/ Admit(r, f) \/ Place(r, f)
    \/ Renames(r) \/ FindsPlaced(r)
    \/ FinishesUnlocked(r) \/ Finish(r) \/ ListingEnds(r)

Inside(r) ==
    \/ Locks(r) \/ NotNeeded(r) \/ Changes(r) \/ FindsChanged(r) \/ Flushes(r)
    \/ \E f \in Files : WalkSees(r, f) \/ Evicts(r, f)
    \/ Walked(r) \/ Counts(r) \/ Resyncs(r) \/ ChecksCap(r) \/ Sweeps(r) \/ Evicted(r)
    \/ Finishes(r)

Next ==
    \/ \E r \in Runs : Outside(r) \/ Inside(r) \/ Kill(r)
    \/ \E f \in Files : Damage(f)

Spec == Init /\ [][Next]_vars

-----------------------------------------------------------------------------
(* Properties. *)

TypeOK ==
    /\ held \in [Files -> Nat] /\ bad \subseteq {f \in Files : held[f] # 0}
    /\ size \in Nat \cup {Missing, Torn} /\ lock \in Runs \cup {None}
    /\ \A r \in Runs :
          /\ pc[r] \in {"none", "open", "place", "lock"} \/ lock = r
          /\ pc[r] \in {"walk", "sweep"} \/ left[r] = {}
          /\ flags[r] \subseteq {"admitted", "resync", "counted"}
          /\ pending[r] \in Nat /\ placed[r] \in 0 .. FlushEvery - 1

NoRun == \A r \in Runs : pc[r] = "none"

\* The most bytes one killed run may leave uncounted.
KillLoss == FlushEvery * Max({Length[f] : f \in Files})

\* With no run under way, `size` counts every byte held but for what the
\* killed runs left, at most FLUSH_EVERY files each (the comment in place):
\* no interleaving of placements, walks, sweeps and removals loses a count.
UncountedByKillsOnly ==
    NoRun /\ size \in Nat => Bytes(held) <= size + kills * KillLoss

\* Once every run has finished and none was killed, the store is within its
\* cap, whichever run finished last and whoever placed what filled it (finish).
WithinCap == NoRun /\ kills = 0 => Bytes(held) <= Cap

\* However many runs admit, place, replace and remove the same names, each
\* file is counted once: `size` is exact where nothing was killed, no hand
\* touched a file and no sweep met bytes a placement was yet to count.  The
\* walk that first makes `size` never does (place).
CountedOnce ==
    NoRun /\ size \in Nat /\ ~drifted /\ kills = 0 /\ damages = 0 => size = Bytes(held)

(* What `size` promises of the files held: store.rs place, walk, finish.    *)
SizeIsHonest == UncountedByKillsOnly /\ WithinCap /\ CountedOnce
=============================================================================
