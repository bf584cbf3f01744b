# A TLA+ model of syns-cli

`syns` is the command line of a repository service. Its hardest part is
`syns sync`: a folder on disk, the state the command keeps beside it and the
repository's head are brought together while the user goes on editing, other
writers commit, requests fail and the process may be killed anywhere. Around it
stand publications, changesets, the commands that read, and the commands that
bind a folder to a repository, each with interleavings of its own. This
directory models them, checks them with TLC on small instances and proves part
of what is checked with TLAPS for every instance. Paths below are relative to
the crate (`push/...` is `src/push/...` of the repository).

Contents: 1 the system, 2 the modules, 3-9 how each group of modules corresponds
to the code, 10 the runs, 11 what the violation runs and the hand checks show,
12 what is proved, 13 what is not modelled.

## 1. The system

| part | source | state | hard because | what makes it correct |
|---|---|---|---|---|
| three-way comparison | `push/reconcile.rs` | none | every path in exactly one list; delete against modify; add against add | a partition of the changed paths; a clean merge loses no edit |
| convergence | `push/converge.rs` | the run: collection, pass, candidate, head | every `await` lets the folder and the head change; each durable step may be the last | no work lost, none of another writer's replaced unseen, what is published was reviewed, everything converges |
| working copy state | `push/working_copy.rs` | per home: `base.json`, `outbox.json`, `resolution.json`, `stat-record.json`, two snapshots and their contents, `state.stamp`, `state.lock`, `folder.json` | crashes between files; two homes and two locks; a folder removed and made again | one run at a time; the last completed change is read whole; nothing of a removed folder is read |
| publication | `push/smart.rs`, `push/manifest.rs`, `commands/push.rs` | the record of what was last published | a chain of commits that may break anywhere; deletions last; a moved head | a broken chain leaves a record the next push completes; a moved folder is never overwritten |
| collection | `push/collector.rs`, `machine_local.rs`, `hash.rs` | stat record | a file changes beside its hash and its read; a coarse clock | what is sent has the hash collected |
| head reads | `push/v2reads.rs`, `read/closure.rs`, `read/view.rs` | a view per head | the head's content may vanish while it is read; views carried forward over masks | what is shown is the head's |
| folder checks | `push/folder_check.rs` | none | paging a growing history | a folder taken for unmoved did not move |
| reviews | `push/converge.rs` 372-520, 2554-3084 | one review lock per directory tree | two copies over the same files | one review per path |
| read store | `read/store.rs` | blobs, trees, views, hints, a byte counter | many processes, lock-free placements | the counter is right once all have finished; the sweep brings it under the limit |
| read commands | `read/*.rs`, `commands/{cat,grep,ls,glob,diff,history,...}.rs` | kept heads and hints | batches cut and sent again, answers in any order, pages over a growing history | each path answered once, at one commit, in order |
| changesets | `write/mod.rs`, `commands/{write,edit,rm,mv,cp,commit}.rs` | none | a head moved outside the folder is retried | no retry over a change of the folder |
| HTTP client | `client.rs`, `shared_client.rs` | sends made, one client per origin | two retry loops sharing a budget; a handshake gate | a write is sent once; no gate is left closed |
| device login | `auth/device.rs`, `auth/token.rs` | interval, deadline, credentials file | polling against a deadline, logins beside each other | an approval before the deadline is taken; the name kept is the token's |
| upgrade | `commands/upgrade.rs`, `checksum_verify.rs` | the installed binary | replacement of the running binary | nothing unverified is installed |
| placement, identity | `commands/{place,pull,fork}.rs`, `repo/*` | the identity file | a file both the person's and the program's; nested copies | every later run names the repository it was bound to |
| sharing | `commands/share.rs` | the identity file, bases | the server changed between a read and a write of the file | an edit beside a settling stands |
| the rest | `config.rs`, `errors.rs`, `output.rs`, one-request commands | none of their own | - | - |

How they interact: `commands/sync.rs` calls `converge`, which takes the working
copy's lock, settles the outbox, reads the resolution, collects the folder
through the collector, reads the head through `v2reads` and the client, and
publishes through `smart_push`, all under the one lock. Everything a run knows
that is not in the four state files is lost with its process. Another process
can write the same files of the folder (the user's editor), the same repository
(other writers), and the same read store (other runs of `syns`), never the same
working copy's state while the lock is held. `syns push PATH`, `--force` and the
changesets take no part in this: they send a body of their own and, inside a
folder, decide by a folder check whether a moved head may be written over.

## 2. Modules

| module | models |
|---|---|
| `Reconcile` | trees, the lists of a comparison, the merge of two texts |
| `Convergence` | one working copy: runs, passes, publications, resumptions, kills, the user and the other writers |
| `StateHomes` | two homes, locks, stamps, adoption, a removed folder's state, snapshots and contents, over concurrent runs |
| `IdentityRecord` | the identity file of a whole-repository copy through retrievals, reviews and publications |
| `Reviews` | one review per path across a checkout and the folder copies inside it |
| `Versions` | the repository as publications rely on it, with the other writers |
| `FolderCheck` | the check of a folder over a growing history, one request a step |
| `SmartPush` | a path-scoped or forced `syns push`: passes, batches, refusals, resends, the record |
| `ChangesetSend` | a changeset sent inside a folder or outside one |
| `GuardedChange` | what a changeset promises: the abstract specification `ChangesetSend` implements |
| `Changeset` | the changeset document: overlaps refused, deletions, moves, copies, edits |
| `Scopes` | where a run stands, what a typed path names, what a write does and reports |
| `Collection` | the walk over a folder and the hashes trusted from the stat record |
| `Placement`, `Sharing`, `Identities` | `syns place`; sharing, marking and unsharing; which repository a directory belongs to (`pull`, `push`, `sync`, `fork`) |
| `Views`, `BlobReads`, `Staging` | the head of a convergence through views; its raw reads under bounds; staging directories |
| `ReadBudget`, `BatchReads`, `RawReads` | the `--max-bytes` ledger; batched reads; one request per path |
| `PathReads`, `Listings`, `Search`, `DiffSince`, `History` | one path at a pin; `ls` and `glob`; `grep`; `diff --since`; `history` |
| `BlobStore` | the read store's placements, counter, walks and sweep |
| `Transport` | sends, resends, deadlines and the handshake gate |
| `DeviceLogin`, `Upgrade` | `login` and `logout`; `upgrade` |
| `MC...` | the small sets for TLC, and the compositions: `MCPublish` sums `SmartPush`, `ChangesetSend` and `Search` over one `Versions`; `MCCopies`, `MCCommands`, `MCReads` and `MCFolders` sum machines that share no state, so that a behaviour is about one of them |
| `...Proofs` | theorems and proofs, section 12; `FolderCheckProofs` holds the lemmas about a growing line of versions and a folder checked against it, which the proofs of changesets, publications and placements share |

Composition. `Convergence` takes each state file as one value replaced whole, by
one run at a time. `StateHomes` is what makes that so: `Exclusive` and
`ReadsWholeChange` say that a run reads what the last change left, and that no
other run is between two of its steps. `Convergence` takes a collection for the
folder's content; `Collection` says when that is right. It reads a head's tree
at once; `Views`, `BlobReads` and `Staging` are how. It knows of no other copy:
`Reviews` is what keeps two copies from reviewing one path. `SmartPush` and
`ChangesetSend` extend `FolderCheck`, and that `Versions`. `PathReads`, `Search`
and `Listings` take a read to be answered or refused; `Transport` is how often
it is sent.

## 3. How `Convergence` corresponds to the code

State. `folder` is the tree on disk, `commits` the repository's first-parent
history. `base`, `outbox`, `res` and `snap` are the files `base.json`,
`outbox.json`, `resolution.json` and `local-snapshot.json`. `pc`, `mode`,
`coll`, `todo`, `pass`, `named`, `req` and `cand` are one run's memory: the next
step, the command, the collection handed on between the functions, the paths
still to be written, the pass, the head a publication is sent at, the request
and the candidate. They vanish with the process (`EndRun`, `Stop`). `texts`,
`deletes`, `others` and `stops` count towards bounds; the ghosts (`mine`, `seen`,
`blind` and the others grouped in `ghosts`) are history that no guard reads.

Contents. A text is the set of the edits it is made of: the user and the other
writers each author a new edit number, a clean merge is the three-way merge of
these sets, an overlapping one is their union with `Marker`. Which of the two
happens, and whether the content is text at all, is chosen freely, so that
every outcome of `merge_text` is covered. Two files are equal exactly when
their sets are, as two files are equal to the code when their hashes are.

Steps. One action is the code between two points where something else may
happen: a durable write, a network read, or a use of the folder. Reads of the
folder that follow each other with no `await` are one step; the ones with an
`await` between are separate. The exclusion test and the snapshot of one pass
are separate steps because the head's content is read between them; a path is
hashed and replaced in one step (see section 13).

| function | actions |
|---|---|
| `converge_locked`, `continue_locked`, `discard_resolution` | `Start`, `Continue`, `DiscardRestores`, `DiscardRestored` |
| `settle_outbox` | `NothingToSettle`, `SettleLanded`, `SettleWithoutToken`, `SettleResumes`, `SettleDrops`, `Landed...` |
| `converge_from_resolution`, `finish_preparation` | `NoResolution`, `FinishPreparation`, `Attention`, `ResumeReviewed`, `OverwriteResolution` |
| `converge_from_head` | `FolderHoldsHead`, `HeadIsBase`, `HeadPastBase`, `OverwritePlans` |
| `prepare_candidate` | `CandidatePlan`, `CandidateReads`, `CandidateResolve`, `CandidateTouches`, `CandidateMissed`, `CandidateSynced`, `CandidateStands` |
| `publish_reviewed` | `PublishChanged` ... `PublishRefused`, `Acknowledged`, `DropOutbox`, `DropResolution`, `DropSnapshots` |
| `chunked_push` | `SendStale`, `SendBatch`, `SendConflicts` |
| `take_in_disjoint_move`, `guard_refused` | `TakeInMove`, `TakenInCollided`, `TakenIn`, `RaiseRound`, `PrepareAgain` |
| `overwrite_with_head` | `OverwriteStale`, `OverwriteSnapshot`, `OverwriteTouches`, `OverwriteRecords`, `OverwriteEnds` |

`Stop` stands for every way a run ends early without a durable effect of its
own: a kill, a read the server refuses, a required check that fails, a send
that is not answered. A send whose body landed before the answer was lost is
`SendBatch` followed by `Stop`.

The server. A body is compared with the head by the parent it claims; one that
claims none is not compared. The code says both that such a body lands
(`commands/push.rs`, the warning of `--force`) and that a first publication may be
refused where commits already stand (`publish_reviewed`, the conflict naming no
head), so `SendBatch` and `PublishRefused` allow either. Where such a body lands
beside files of another writer, those pass over unread: `blind` keeps the heads
it was answered upon, `StoodUnread` says that a path of a commit still holds what
one of them held, and `NoBlindOverwrite` speaks of publications that claim a
parent.

## 4. How `StateHomes` corresponds to the code

State. `file[h][n]` is the file named `n` in home `h`: the time it was written at
(what `copy_keeping_time` keeps and `Standing::Unstamped` compares), and for a
snapshot the contents it names. Two documents are equal to the model when their
times are: every write of the program has a time of its own. `stamp`, `ident`
and `lockFiles` are `state.stamp`, `folder.json` and where `state.lock` stands;
`holder` is the operating system's lock, released with its process. `folder`
numbers the folders that stood at the root. `stale` is the field `stale_default`,
read at `at` and used at `lock`. `allowed` is history: the state the last
completed change left, and those a change begun since was about to leave. A
reader may answer any of these; a change is complete once its stamp is written.

| function | actions |
|---|---|
| `open`, `at` | `OpensDefault`, `OpensInRoot` |
| `settle_folder_identity` | `Settles`, `Discards` (one entry of the directory, in any order), `Settled` |
| `lock` | `LocksFirst`, `LocksSecond`, `ComparesStamps` |
| `adopt` | `AdoptRemoves`, `AdoptCopies`, `AdoptStamps` |
| `write_state`, `remove_state`, `restamp` | `WritesDoc`, `RemovesDoc`, `Stamps` |
| `store_with`, `remove_created` | `StoresContent`, `RemovesCreated` |
| `write_snapshots`, `remove_snapshots`, `prune_snapshot_content` | `BeginsWrite`, `BeginsRemoval`, `SnapshotStep`, `Prunes`, `Pruned`, `Stamps`, `SnapshotsFail` |

Which documents a run changes, and in which order, is free: what `converge.rs`
writes is `Convergence`'s subject. A run writes either home, as the default root
takes its writes or refuses them; which, is free for each run. `Kill` may come
at any step, `CreatesAgain` while no run is under way.

Five constants name circumstances under which the code does not keep what it
says. Each is FALSE in the run that checks the properties; section 11 says what
becomes of the first three:

- `DiscardsCut`, a kill among the removals of a removed folder's state;
  `AdoptionsCut`, one halfway through the adoption of a home with no stamp; and
  `StampFails`, an error after a snapshot's contents were stored. With any one
  TRUE TLC refutes `ReadsWholeChange`.
- `FirstUse`, a copy neither home of which was used before: two first runs, one
  writing each home, may each look for the other's lock file before it is made
  (`take_standing_lock` makes none), and both go on. With it TRUE TLC refutes
  `Exclusive`.
- `Overlaps`, runs overlapping over a folder that was made again: one reads
  `stale_default`, another settles the home and writes to it, and the first then
  neither waits for that home's lock nor reads it. With it TRUE TLC refutes
  `Exclusive` and `ReadsWholeChange`.

The clock only goes forward. A system clock set back between two runs stamps a
completed change before the state it replaced, and the next run that writes the
other home adopts that one over it.

## 5. Copies, reviews and the identity file

`Reviews`. Two copies, a checkout and a folder inside it, each with a base and a
resolution of its own, over one disk and one holder. `TakeReviewLock` is
`review_lock`, `ReadElsewhere` is `resolution_elsewhere`, `WriteReview` and
`WriteFolder` are the writing of the resolution and of the folder,
`ContinueReview`, `HandBack` and `Send` a publication. A pass is cut only where
the other copy's run can meet it. `OneReviewPerPath` speaks of the paths a review
was prepared over (`names`): a publication that hands changed paths back to the
resolution (3895-3908) takes no review lock and may raise a path the other copy
reviews, contrary to the comment at 1907.

`IdentityRecord`. The identity file of a whole-repository copy, and one other file.
A retrieval that finds no identity file writes one and records it as not being
the head's (`hold`); `MutPublicationHolds` and the like are the tests by which
later runs tell this record from the person's edit. `Retrieve`, `Pull`,
`WriteIdentity`, `Publish`, `Continue`, `Lands`, `TakeIn` and `Refused` are whole
runs; what happens inside them is `Convergence`'s. `IdentityFileStands` says that
the record by itself never opens a review or replaces an identity file of the
head, and that a person's edit stands unless it is overwritten on request.

`Collection`. `Read` and `StatAfter` are the read of a file between two looks at
its times, `Trusted` the entry of the stat record a hash is taken from,
`Attribute` the second walk, which tells why a file is missing. `clock` names what
the filesystem's clock guarantees: "fine", where two edits never share a time,
or "coarse", where they may but a tick passes before the record is next written.
Under a clock that promises neither a stale hash is possible (section 11).

## 6. Publications and changesets

`Versions` is the repository: a line of versions, each a tree. A body is refused
where it claims a parent that is not the head (`PassesHeadCheck`); `OtherCommits`
is everybody else. `FolderCheck` is `folder_check.rs`, one request per action:
`ReadNewest` (the newest version that changed the folder, within `ScanBound`
pages), `ReadHeadVersion`, `NumberSince`, `Compare`. Between any two the history
may grow.

`SmartPush` is `syns push PATH` and `--force`: `Begin`, `ReadHead`, `Collect`,
`Plan`, the bodies (`SendAccepted`, `SendTooLarge`, `SendMissesBlobs`,
`SendConflicts`, `SendRefused`, `SendUnanswered`), `CheckRuns`, `SendAgain` or
`CollectAgain`, then what is recorded: `SaveRecord`, `LayCopy`, `AdoptForced`,
`LayFolder`, `LayOverEnclosing`. Beside it the user edits, others publish, other
runs converge this copy or the enclosing one. Past the guard of a changeset only
the other writers go on in `MCPublish`: nothing else it reads can change.

`AsCommitted` says that a base names exactly its commit's files. Of a folder inside
a copy that records a base itself it is said outside the folder always, and of the
folder's own base in its first run (`FirstOrAlone`), because past that it is not
so. The last two steps of a folder's publication, `LayFolder` and
`LayOverEnclosing`, are apart: `lay_folder_publication` records the folder's base,
then waits for the enclosing copy's lock and lays the files over that copy's base
under the commit and the recorded time it finds there (converge.rs 3011-3068). A
run of the enclosing copy that records a later head between the two leaves the
folder's older files under the later commit and the later time. The folder's next
run takes the base recorded last (`folder_base`, working_copy.rs 1479), which is
that one: a file another writer changed at the later commit, and the user meanwhile
set back to the older text, then reads as unchanged, and a sync replaces it. The
attempt to prove the stronger property found this; TLC shows the trace with
`MaxRuns = 2`, which `MCPublish` has at 1.

`ChangesetSend` is the send of a changeset: `GuardWrite`, `ReadRepository`,
`ResolveParent`, `FirstSend`, then `SetLands`, `SetRefused` or `SetConflicts`, the
check and `SendNamed` or `SetGivesUp`. `GuardedChange` has one variable beside the
versions, the change pinned (`pending`): it is dropped or it lands, once, on a
head that still holds at its paths what the pinned version held there. The
mapping takes a changeset at the steps `first`, `send` and `named` for a pending
change, with what it lays worked out on the pinned tree, while the detailed
machine applies the body to the head it lands on.

`Changeset` is a document: a person adds members, deletions, files and edits one
by one, `Admitted` is what `overlaps` lets pass, and `MembersMeanOneTree` says that
in whichever order an admitted document's moves and copies are made the same tree
comes out. `Scopes` is where it is typed: `Resolve`, `MemberPath` and `HolderPath`
map a typed path, `Guarded` and `Dirty` are the checkout's guard, `SendWrite` and
`LeftBehind` the report. `WhereTyped` says that a write changes what was meant and
reports each member, and that a history shows what was meant (`History`).

## 7. Placement, sharing, identities

`Placement`: `ReadHead`, `BodyLands` (or refused, or its answer lost), `WriteFile`
per file, the identity file last, then `Lay` over each copy and `RecordOwn` for the
new folder. `lay_files` lays the placed hashes over whatever
base it finds, under that base's commit. So where another run has brought a copy
past a later change of a placed file, its base regains the template's hash there at
a commit that does not hold it. `LaidBaseIsCommitted` states just that: a base names
its own commit's files, the placed ones laid over them only where it stands at
another commit than the placement's. A base never names a commit whose other
changes the copy has not taken in. `RecordOwn` records the placed files alone
(place.rs 785-789, 846-849), not the landed commit's folder. The two differ where the
holder was read empty, the body claims no parent, and another writer created a
file under the folder before it landed: that base lacks the file
(`PlacedAlone`). It costs nothing: the next run compares the base with the head's
tree, finds the file in the head only and takes it in. `OnePlacement` is place.rs
343-348: one version of the placed files alone, no file written before it landed, and
all of them written before a base is laid or another run takes the folder in; an
identity file written first would break it. `Sharing`: `share`, `mark` and `unshare` with
`settle_identity_file` cut at its reads (`CompareStanding`, `ReadBefore`,
`Replace`, `LayBefore`, `LayAfter`), beside a run and edits. `Identities`: a chain of
nested directories with identity files, `Pull...`, `Push...`, `Fork`, and the
person who moves and removes them; `LeadsBack` says that the next bare run in a
directory serves the repository the last one was bound to, and that a refused
push leaves no link.

## 8. Reads

`Views`: `ReadHead`, `AskClosure` or `AskChanges` (`Laid` carries a kept view
forward), `SettleKinds`, `ReadBlobs`; commits, masks, a day passing and dropped entries
come between. `BlobReads`: tasks admitted by `Admitted` (their number and the
heaviest outstanding size), `HoldAnswered` or `StageAnswered`, joined in any order;
the first refusal gives back everything (`GiveBack`). `Staging`: a directory per
run, named, made and locked in three steps, swept by others in three steps.

`BatchReads`: chunks opened several at a time, `Frame` handed on as it comes,
`Cut` and `Join` with a resend of what is lacking, `PutOff` for a path too large
for its chunk. `RawReads`: one request per path through gates under
`--max-bytes`. Both use the ledger `ReadBudget`. `PathReads`: a pin by a kept head's
tag, a path looked up in the store by a hint and read otherwise, heads and hints
left for other runs. `Listings`, `Search` and `DiffSince` page over what may change
between two pages; `Search` lets fetches land in any order.

`BlobStore`. `held[f]` is the length of the file standing under the name `f`, 0 for
none: the counter, the walks and the sweep see nothing else of it. `bad` are the
files whose bytes are not the ones named, by a hand on the disk. `size` is the
file of that name: a number, `Missing`, or `Torn` when a run was killed writing
it. `pending`, `placed` and `flags` are the fields `pending`, `placed` and
`admitted`, `resync`, `counted` of a `Store`. `found` and `left` are the local
variables of a walk or a sweep, `job` what the lock is taken for. `drifted` is
history: a walk over a store whose `size` stood met bytes a placement was yet to
count, which are then counted a second time. A walk sees one file per step.
Whether a file stands is looked at before the lock and again under it, in two
steps; a placement without the lock looks twice too.

| function | actions |
|---|---|
| `open_at` | `Open` |
| `verified`, `remove_blob`, `remove_view`, `write_view`, `admit` | `Verified`, `RemoveView`, `WriteView`, `Admit`, then `Locks`, `NotNeeded`, `Changes`, `FindsChanged`, `Counts` |
| `place` | `Place`, `Renames`, `FindsPlaced` |
| `flush_pending` | `Locks`, `Flushes`, `Counts` |
| `walk`, `read_size` | `WalkSees`, `Walked` |
| `finish` | `FinishesUnlocked`, or `Finish`, `Locks`, `Flushes`, `Counts`, `Resyncs`, `ChecksCap`, `Finishes` |
| `sweep_locked` | `Sweeps`, `WalkSees`, `Evicts`, `Evicted`, `Counts` |
| `read/listing.rs` `list`, which ends with no `finish` | `ListingEnds` |

## 9. Client, login, upgrade

`Transport`: a call is a shape (which verb, with or without a body, by which entry
of `SynsClient`) taken from the tables of requests; `sends` counts against the
budget both retry loops share. A connect takes the gate's lock, listens for the
first one's verdict or finds it settled (`TakeLock`, `Listen`, `AwaitsUnchecked`,
`CheckAnswered`, `Notified`, `GateDeadline`). The gate's own deadline of 30 seconds
is reached in practice only by a waiting request that sent a body. `DeviceLogin`
counts time in units of five seconds, with logins beside each other and a logout.
`Upgrade` walks every combination of flags and failures to the swap.

## 10. Runs

Bounds bound what the world does and how often, never what a run may do next,
so every state of a state space has the whole code ahead of it. Deadlock is not
checked in any run: when the bounds of the world are used up an idle copy has
nothing left to do.

| run | module | what it shows |
|---|---|---|
| `two_paths` | `Convergence` | what lands is what was reviewed, the base is the commit it names, no text of the user's is lost, nothing of another writer is replaced unseen |
| `hostile` | `Convergence` | with files created beside runs and paths restored: the base names committed content, no half-written candidate counts as reviewed, no conflict marker is published |
| `sync_converges` | `Convergence` | every run ends; folder, base and head come together |
| `restored_file` | `Convergence` | violates `NoBlindOverwrite` |
| `homes` | `StateHomes`, `IdentityRecord`, `Listings` | `Exclusive`, `ReadsWholeChange`, `NotAllWaiting`, `IdentityFileStands`, `ListsAsShown` |
| `transport` | `Transport` | `SendsAsAllowed`, `GateHolds`, and `AllEnd` |
| `publish` | `SmartPush`, `ChangesetSend`, `Search` | `AsCommitted`, `TakesOnlyWhatItSaw`, `LandsOnPinnedState`, the refinement `IsOneGuardedChange`, `ShowsWhatMatches` |
| `folder_excluded` | `SmartPush` | violates `FolderDeletesOnlyGone` |
| `commands` | `DeviceLogin`, `Upgrade`, `Changeset`, `BlobStore`, `PathReads`, `DiffSince` | one property each |
| `reads` | `BatchReads`, `RawReads`, `Views`, `BlobReads`, `Staging` | one property each |
| `read_at_one_commit` | `BatchReads` | violates `ReadAtOneCommit` |
| `folders` | `Collection`, `Placement`, `Sharing`, `Identities`, `Reviews`, `Scopes`, `History` | one property each |

### Bounds and why they are enough

- `Convergence`: `MaxPasses = 2` (the code: 8), enough for a refused pass followed
  by a fresh one and by the end of the passes; `RoundBound = 1` (the code: 4),
  enough for a resolution within the bound and one past it. `two_paths` has two
  paths, one committed, one text beside the first, one deletion, two commits of
  others and one stop: two paths for chunks, disjoint moves and writes that come
  before removals, two commits so that the head moves during a publication and
  again while the move is taken in. `hostile` has one commit of others, with
  `LateFiles` (the user creates a file while a run is under way) and `Restores` (a
  path comes back while an outbox stands). `sync_converges` has one path, both
  switches, one commit of others, one stop, and `UserRewrites`, which no bound of
  number holds: while the repository has fewer than three commits
  (`MaxRewritten`) and the stop is spent (one at a run's first step changes
  nothing), the user may put an earlier text over the file a run collected, for
  ever. So only the count of passes ends a preparation or a publication there. Its
  `VIEW` leaves out the history variables, which no step and no property of the
  run reads; without the view and the rewriting the same run holds. A variant
  of `two_paths` with three texts, one commit of others and no stop (1.45 million
  states) was checked by hand and holds.
- `LateFiles` and `Restores` are off in `two_paths` because with them
  `NoBlindOverwrite`, `BaseIsCommitted` and `PublishedAsReviewed` fail, for the
  reasons section 11 gives. `MaxStops` is 1 there because two allow a settlement
  cut short and then the head put back (`ack_lost`, section 11).
- `homes`: two runs at a time, three in all; one of the four documents that are
  alike, both snapshots, one content; three changes, two kills, two folders. Two
  runs are enough for both locks to be held and waited for in either order; a
  third comes after both, so that what one run left in each home is adopted. Runs
  are interchangeable, and a symmetry set. The identity file has three versions
  and two edits; a listing two changes of the mask.
- `transport`: two calls, three connects, three sends a read (the code: 4), one
  connection cut. Two calls suffice for one to wait at the other's gate; a third
  connect is one that arrives after the verdict.
- `publish`: four files, three in the folder, of which one is outside the pushed
  prefix or excluded; four versions, one page of history a check reads before it
  gives up (`ScanBound`), three sends, one run.
- `commands`: a store of two contents of different lengths and one view, a cap of
  two bytes, counts flushed at every second placement, one kill; a device code
  that lasts three or nine units; three releases; documents of at most four
  entries over paths of two names, against every tree over them.
- `reads`: five places over distinct paths of three sizes, chunks of two paths, two
  in flight, two attempts; three commits; raw reads of up to three paths with a
  count of two and a byte bound two files pass; three staging runs.
- `folders`: nested directories of depth two (three was checked by hand: 1.96
  million states), two changes by the person, two copies and two moves of others
  for the reviews, three versions for a placement, with others writing beside the place and at a placed
  file, two verbs of sharing with two
  edits, three writes of typed paths.

### Fairness

`RunsEnd` assumes weak fairness of the run's own steps: a process that is not
killed goes on. Nothing is assumed of the user, who may rewrite what was collected
before every pass; with the count left out of the passes of a preparation or of a
publication TLC finds a run that never ends. Takings-in of a moved head each need
a commit of another writer; the line of commits being finite in the model,
`RunsEnd` says nothing of what bounds them, nor of `ROUND_BOUND`, past which the
code only waits for the user. `Converges` also assumes that the user repeats `syns
sync` and `syns resolution continue` and removes conflict markers (strong fairness
of each, being enabled only between runs), and only speaks of behaviours in which
from some point on nobody edits, commits or kills (`<>Quiet`). It says that such a
behaviour is converged again and again (`[]<>`), so also after that point, from
every state a kill, a refused send or an edit can leave there, and that no later
run takes the agreement apart for good. The emptied folder is excepted: the code
refuses to publish a tree of no files. `AllEnd` assumes weak fairness of every call's and connect's step, failures
included: each has a timeout, so a call that may go on or fail does one of the
two. Nothing is assumed of the server.

## 11. Where the code differs from what it says

### Runs that find a violation

- `restored_file`: the exclusion test of `settle_outbox` reads "absent from the
  recorded tree, present on disk" as "kept out by an ignore rule". For a path the
  publication deleted and the user created again that is wrong, a change of
  another writer to the path is taken as this copy's own, and the next
  publication replaces it with no review. A file created between the
  collection and the test of `converge_from_head` is misread the same way. The
  third reading of the kind has no run: with `LateFiles`, a file created after a
  pass's exclusion test and before its snapshot is replaced as if collected. Its
  bytes are kept in the snapshot, so nothing is lost, but it is not merged.
- `folder_excluded`: a path-scoped publication of a folder plans the deletion of
  a file that stands on disk and that an exclusion keeps out of the walk.
- `read_at_one_commit`: `syns cat --json` of several paths at `head`: the first
  chunk is cut, asked again at `head`, and answered from a later commit than
  the files already handed on.

### Met while modelling, confirmed on a trace, kept in no run

Convergence and its state:
- The snapshot a discard restores is the first one taken since the resolution
  stood, also where the run that took it was killed before it wrote the path and
  the user has edited the path since. That edit is not in the folder after a
  discard. (`NoLostLocalWork` excepts a discard.)
- Whether a publication landed is decided from trees alone (`ack_lost`). If another
  writer has put the paths back since, it is sent again and undoes that commit.
- After a first publication that claimed no parent beside another writer's file,
  the base names the commit but lacks that file. A later resolution at that head
  takes the base's files for its reference (`base.commit == commit`, converge.rs
  3960), so that a reviewed deletion of the file is not sent, and it comes back at
  the next sync. `PublishedAsReviewed` and `BaseIsCommitted` except such files by
  `StoodUnread`; nothing else is excepted.
- The state of a removed folder is removed entry by entry, and the identity that
  tells it is one of the entries. Killed after that one, the run leaves a state
  with no identity, which the next run adopts (`DiscardsCut`).
- Until a first change has been stamped, the newest file tells which home is the
  later (`Standing::Unstamped`), and adoption copies the newest last. A run killed
  halfway through such an adoption leaves part of the state in its home; that part
  is the later home once the adopted one has been emptied by a removal, also one
  killed before its stamp, and is then read: a state no change ever left
  (`AdoptionsCut`). Three changes, none of which reached its stamp, and five runs
  are needed, more than `MCCopies` has; found while proving `ReadsWhole`.
- When writing the snapshots answers an error, the contents the pass created are
  removed as unnamed. The error may come after the document that names them was
  written (`StampFails`).
- A stat entry may be trusted for a file changed within one tick of a clock that
  is neither fine nor ticks before the next record (working_copy.rs 237-239).
- A folder copy's direct publication at the head sends a file the checkout
  holds under an unreviewed collision review, markers included. The check of a
  forced or path-scoped push (push.rs 440-465) reads other copies without their
  lock. Two different review locks serve one tree only where the default one was
  refused to a process before it first existed.
- `pull` without overwrite restores the `checks` a person removed from
  `.syns.yaml` where exactly the identity text is left, contrary to pull.rs 412. A
  first retrieval with no base, then a review, then `pull --overwrite-local` leaves
  the held-out identity file while the base records the head's entry: the next
  publication puts it over the newer head's. A retrieval keeps an identity file
  the head dropped, and a later publication adds it back.

Publications, changesets, folders:
- One path may be named by two entries of a changeset document (commit.rs
  101-103, 234, 478).
- `lay_folder_publication` and `adopt_forced_publication` may move a base back where
  another run advanced it.
- A write with `--repo` naming the holder, from a folder bound to its identity,
  does not name the folder behind when the path is typed with dots
  (write/mod.rs 1541 against 1214-1219) or when the path removed or moved stands
  above the folder (876-879). `WhereTyped` excepts both. From a holder-bound
  folder `--repo IDENTITY` is neither guarded nor named; a folder alone with
  `--repo HOLDER` is named behind for any changed file.
- A placement whose answer is lost leaves a version with no files on disk, where
  place.rs 343-348 excepts a failing disk write only; `OnePlacement` leaves that half
  of the sentence out. A file the person creates after the folder was found empty
  is overwritten by `write_folder`.
- A settling beside a run may put an older version of the identity file back where
  the base records the newer, or lay a base entry backward; in an identity-bound
  folder it lays only that identity's copy (share.rs 419-427).
- A kill between a push's writing the identity file and taking it back, or a second
  push of the same name beside it, makes the retry count as linked and joins the
  taken name (push.rs 270-295). `syns pull OWNER/NAME ./sub` inside its own checkout
  writes the whole tree beneath. A fork whose head still names its source rebinds
  a fresh pull.

Reads and the rest:
- `ls` and `glob` place trees and end without `finish`, so their bytes are never
  counted until a walk happens (`Listings`). A kept view that names a root keeps
  its stale tag, so a listing under a changed mask reads the closure every time. A
  derived view kept under the unmasked tag may keep an entry hidden while it
  changed.
- An ask answered too large once, before the cut, is never asked again when a
  later frame stops the run (main.rs 186); the first head chunk giving up under
  `keep_going` drops its second asks from the failed ones.
- `diff --since`: an address naming no place whose gaps make `top - to` overshoot
  its list reads an empty page and credits no path, contrary to diff_since.rs
  227-228. The model keeps the subtraction inside the list.
- `grep --offset` counts rows with the server's search and kept paths without it,
  so a server that loses the search between pages makes a caller skip or repeat;
  a page closed early by `--head-limit` names no next offset though files stand
  past the window.
- A logout beside a login's second write leaves the credential on disk. A server
  interval above a minute is lowered to one by `slow_down`.

## 12. What is proved

Proofs are checked by TLAPS for every value of the constants that satisfies the
named assumptions of the modules. Each strengthening was checked by TLC first.

### `ConvergenceProofs`

From `BoundsAssumption` and `SeedAssumption`: `TypeCorrect` (`Spec => []TypeOK`),
`ReviewedWhole` (`ReviewedIsWhole`), `BaseCommitted` (`BaseNamesCommitted`).

`TypeOK` is not inductive. A step applies `TreeAt` to commit numbers read from
records, and reads fields of `cand`, `req`, `res` and `outbox` that are `None` for
most of a run. The inductive invariant `ShapeInv` adds two parts: `CommitsNamed`
(every commit number in `base`, `outbox`, `res`, `named`, `req` and `cand` names a
commit the repository holds; commits are only appended) and `StepsHold` (at
each step the records that step reads are there: `CandidateSteps` and
`RequestSteps`). `ReviewedIsWhole` is inductive on top of `ShapeInv`: a resolution
becomes reviewed only in `Continue` (guarded by `Reviewable`) and in `TakenIn` (after
`CandidateStands` cleared what was owed). `BaseNamesCommitted` needs
`SendHolds`: during a send, what the request no longer has to send already
stands in the commit named by `req.parent`, so the last body's commit holds the
whole collection. The proofs go one action at a time, one lemma per family of
steps.

The second half of the module is about publications. `PublishedReviewed` (`PublishedAsReviewed`) and `BaseIsWholeTree` (`BaseIsCommitted`),
where `LateFiles` is FALSE (with it TRUE TLC refutes both). They rest on two
invariants. `NoneBehind`: outside the steps that rewrite the folder no file stands
that the run's collection lacks, so that a deletion it plans is of a file that
is gone. `SendCovers`: every path that a collection a base, a named head, a
request or an acknowledged one lacks is deleted by the last body, is absent
from the commit, or was passed over by a body claiming no parent. A commit then
holds the collection and nothing besides, but for the last.

`MarkersNeverPublished` (`MarkersStayLocal`), with files created behind runs and
kills: the check before a publication looks only at the files the standing
resolution names as collided, so what has to be known is that a marker stands
nowhere else. `MarkInv` says so (`MarksStand`: every path marked on disk is one the
resolution, or the candidate that will become one, names), that no commit, base,
named head, record or snapshot is marked (`TreesUnmarked`), and what each step of
a preparation knows of the marks it is about to write or replace
(`MarksPrepared`).

`LocalWorkKept` (`NoLostLocalWork`), where `LateFiles` is FALSE. It proves more than
the run states: a text of the user's that was not deleted, overwritten or
discarded is in the folder or in a commit (`WorkKept`); the snapshot, which the
property allows too, is needed by a discard alone. The invariant adds what a
discard and an overwrite give up (`WorkGivenUp`) and that the trees a comparison
takes for committed stood in the commit they are named after (`WorkCompared`), so
that a text a merge drops is one a commit holds.

Three hypotheses tell values apart that the constants leave open: `NoneIsFresh` and
`NoFileIsFresh`, that `None` is no record or tree and `NoFile` no text (in the code
`Option`s), and `SeedUnmarked`, that the repository does not start with a file a
merge marked. They stand in the theorems and not with the constants because TLC
cannot evaluate the first: it compares a model value with sets of sets.

### `StateHomesProofs`

From `HomesAssumption` only unless said otherwise: `HomesTypeCorrect`
(`Spec => []TypeOK`), `SomeRunGoesOn` (`NotAllWaiting`), and `RunsExclude`
(`Exclusive`, assuming `~FirstUse` and `~Overlaps`, without either of which TLC
refutes it).

`TypeOK` says that a run past `lock` holds its write home's lock. That another
run cannot take it away needs to be known of the runs on the way there:
`LockInv` adds which lock a run discarding a folder's state and a run halfway
through `lock` hold, and at which steps the holder of each lock can be
(`HolderSteps`). The second is also what rules out a cycle of waits: the holder
of the in-root home's lock is past `lock` and waits for nothing. `FileInv` is the
part about files and times, inductive by itself. Exclusion needs `OneHome`: while
the first folder stands, the default home's lock file stands and nothing makes
that home unreadable, so every run takes that lock first whichever home it
writes; a later folder has one run at a time. The steps of a run that keeps its
locks are proved once (`Holding`), and each action is shown to be one of them.

`ReadsWhole` (`ReadsWholeChange`), assuming also `~DiscardsCut`, `~AdoptionsCut` and
`~StampFails`: what a run at work and a reader without a lock read is a state a
change left, with every content it names. `ReadInv` has five parts besides types.
`HomesRead`: a home not behind the other is whole, that is, holds a state a read may
answer and the contents it names. While neither home has a stamp both are whole,
but for one that is being adopted into, since a removal takes the newest file away
and may put either home behind: it is here that a cut adoption breaks the argument.
`RunsRead`: the home a run changes is whole, and the one it adopts from stays the
later until the two are the same; the copying of the newest file last is what
keeps it so. `TimesTell`: a time is of one file, copies aside, which the copying
needs to leave a lesser newest time until its last step. `IdentTells`: what each run
knows of `folder.json`, and that a home without it is empty unless it is being
discarded. `MemoryTells`: what a run stored and has yet to name stands, and nothing
it created is named already, so that taking it back on failure takes back no
content a snapshot names.

### `ChangesetSendProofs`

Both senders share `FolderCheckProofs`. That the head a changeset claims is its
pinned one, or one up to which no version changed the folder, is a statement about
every version between: it would need induction over the versions to conclude that
the folder's files are the same at both ends. The invariant carries the conclusion
instead (`FolderSteady`), which each landed version keeps or ends, and `CheckSays`,
what each answer of a running check is worth against the page it read, ties a
check's verdict to it.

Changesets: `ChangesetInvariant`, `ChangesetLandsOnPinnedState`
(`LandsOnPinnedState`) and the refinement `ChangesetIsOneGuardedChange`
(`IsOneGuardedChange`), for every repository, folder, scan bound and number of
sends. The refinement maps every step to `Pin`, `Land`, `Drop`, another writer's
version or a stutter.

Publications: `PublishesAsCommitted` (`AsCommitted`) and
`PublicationTakesOnlyWhatItSaw` (`TakesOnlyWhatItSaw`), for every copy, prefix,
exclusion, number of bodies and interleaving with the user, other writers and
other runs. Neither property is inductive: a base is laid from what the run knows,
several steps after it read it. `PushInv` says of a run, from its reading of the
head on, that the reference is what the parent holds of the copy (`Referred`), that
the commit a body claims is the parent with what the run has landed since
(`Claimed`), that a path it does not send is as the reference has it (`Payload`)
and that the record it lays over is the parent's (`Recorded`). The laid base is then
the parent with every body over it, which is the commit. Of a folder sent again
after a check, `CheckSays` carries the reference over to a head the run never read.
`FirstOrAlone` (section 6) stands in the properties, and in `PushInv` only where the
run depends on the base it started from.

### `FoldersProofs`

- `ReviewsStandApart` (`OneReviewPerPath`), for any number of copies over any
  paths. The property relates two resolutions; the invariant relates each to the
  passes of the others: a pass that has read the resolutions elsewhere holds the
  review lock until it has written its own (`HoldsTheLock`), and what it is about to
  write down meets no other (`StillDisjoint`). `ReviewsKeepTheirTypes` beside it.
- `EditsLeftStanding` (`EditLeftStanding`): a base's entry and what a verb read of
  the holder are versions the holder has had (`BasesHold`, `VerbHolds`), so that a
  file equal to one of them is not the person's. `SharingKeepsItsTypes` beside it.
- `CollectsAsItStands` (`CollectedAsItStands`), under `SureClocks`: each folder's
  file system has a fine clock or a coarse one that ticks before the next record.
  The third, which promises neither, is one of the model's clocks because the code
  meets it, and under it a stale hash is possible (section 11): the stamp of
  `StatRecord` protects against no more. `SpareInv` says which entries name the
  file as it stands (under a fine clock all, under a coarse one those older than
  the stamp), `LeftInv` what a walk has listed, kept, left and met.
- `PlacesAsCommitted` (`PlacedAsCommitted`): what a placement claims and what it
  landed over (`ClaimsHold`, `LandedHolds`) is kept through checks and resends by
  `FolderSteady`; a base may be advanced only from a commit that lacks nothing but
  the placed files (`AdvanceHolds`). The new folder's own base holds the placed
  files, which is the folder's whole tree where a parent was claimed
  (`PlacedAreAll`). `FilesStand`, beside it, says that the identity file stands
  only where every file does.
- `RunsLeadBack` (`LeadsBack`), for any chain of directories and any repositories.
  Most of the argument is about what the chain of identity files above a directory
  is read as (`RootRead`, `FolderRead`): which files bind it, which one names its
  repository. The invariant adds what a push under way stands on (`PushStands`): a
  root file of its repository bound by no identity above, which, if it wrote the
  file itself, is the only one that would be found.

### `CommandsProofs` and `ReadsProofs`

`SignInOnTerms` (`SignsInOnTerms`): for any number of logins; the invariant says of
each flow what its deadline, interval and last poll are in terms of its answers.
`UpgradeAsClaimed` (`ReplacedAsClaimed`): the invariant says what each step of an
upgrade already established of the archive. `LiveDirectoryKept`
(`LiveDirectoryStands`): for any number of runs; a lock is on a file, not on its
name, and the invariant has to say of a run that opened a lock file whether it
is still the one under the name (`NewFileIsNew`: a file created is none any run
ever held).

`SinceAsListed` (`DiffsAsListed`): the list a walk pages only grows in front, so what
it read at an offset stands there or further on (`WalkInv`); a narrowed diff says of
the folder the same whichever moves the server paired. `PathReadsWell`
(`ReadsAtOnePin`), for any number of runs: whatever a run may pin is no older than
its start (`PinIsLate`), and the hint the runs share never gives a content a type
it has not (`HintTells`). `PathReadsAssumption` keeps the types apart from the values
that stand for no type.

`DocumentsMeanOneTree` (`DocumentMeansOneTree`), for documents of any length: the
moves and copies are a fold over their order, the files and edits folds over
sets, whose elements are taken in an order nothing fixes. Each fold is given in
closed form (`After`, `EditedAt`), and two functions of sets that differ part at a
set one smaller than which they agree on (`FirstApart`). The closed form takes one
more member to itself (`MovedIs`, `MovedInTurn`) because no two sides of an admitted
document nest: a path arrives from one place (`BroughtIs`), and what a member reads
at the parent is what the members before it left there. `DocAssumption` says that
a path is the sequence of its names and a tree a function.

`ViewsShow` (`AsShown`), for any served paths and masks: `ViewsInv` says of every view,
in the store or in the run's hands, that while no mask changes it lists what the
server shows at its own commit (`Tells`), and of every file named to the run that
the server named it. A head derived from a view that tells is one that tells
(`LaidShown`): the paths outside the changes stand as they did, those inside come
from the closure's answer.

`ListingsShow` (`ListsAsShown`), for any commits, links, hidden paths, sweeps and cuts
of an answer. A path is a join of paths and a folder's tree the remainders of the
paths that open with it (`OpensIs`, `BelowFolder`), so a tree within a tree is a tree
of the commit (`BelowTwice`). Of a closure three things are shown. Every line of one
belongs to the last tree line before it, and that survives joining the blocks and
cutting the body anywhere (`Regular`). What the fold over such lines gives is known
in closed form (`FoldIs`): a block per tree line, with the entries up to the next.
And blocks in which every named tree stands hold, by the depth at which one could
first be missing, every tree of the scope (`ClosureWhole`): a cut body that parses
is whole. `ListingInv` then says that a held view has the tree its tag
stands for, that every moment the server answered at is among those the run was
told of, and what was printed. `ListingsAssumption`: a path is the sequence of its
names, a commit has finitely many files, and no file is a folder too.

`SendsWhatItMay` (`SendsAsAllowed`) and `GateHoldsAlways` (`GateHolds`), for any calls,
connections and bounds. `SendsInv`: a call that waits to send again has a send
left, and is one that may. `GateInv`: since a connection carried a request under
HTTP/2 no connect at the gate has a request waiting on it, a connect that listens
for the first answer hears it (`ConnectStands`), and where nothing failed one
handshake was made (`HandshakesCounted`). They assume that a read is sent at least
once and that `NoCall` is no call (`AttemptsAssumption`, `NoCallAssumption`).

### `StoreProofs`

What counts bytes. A sum over a finite set is a function on the subsets of it
that adds one element's term to the sum of the rest (`Summed`, `Sum`). The library's
induction theorems take an operator as a parameter, which no installed prover
can instantiate, but its theorem that a well-founded relation has minimal
elements takes none: a fact of every subset (that the function exists, splits
over a part and the rest, follows its terms) is proved by taking a smallest
subset without it. The same way the places of a raw read are summed. The entries
of a sequence are numbered by bijections, for the cardinalities.

`BlobsBounded` (`BoundedAndReleased`), for any contents wanted, sizes told or not,
and bounds (`BlobReadsAssumption`, `WantsAssumption`: a content's length is a number
and a head tells of its size or does not). The code gives a weight back with any
read that is joined, so the property relates a list of weights to a set of reads.
`BlobInv` says that the two match: the weights outstanding are one for one those
of the reads sent and not joined (`Weighed`), though in which order nobody knows,
and the bytes held are those of the answers kept (`HoldsCounted`).

`RawComplete` (`RawReadsComplete`), for any places asked, sizes, budgets and failures
(`PlacesAssumption`, `SizesAssumption`, `RawAssumption`). `RawInv`: paths are sent in
order, a path that ended has told its size, one that was deferred stands past the
cut, and one that was dropped has a stop to explain it. That the cut moves no
earlier as more sizes are told is what keeps the third.

`StoreSizeIsHonest` (`SizeIsHonest`), for any number of processes, files, lengths and
caps, from `StoreAssumption` and where no `ls` or `glob` places (`~Listings`: they
drop their store with no `finish`, section 11; the run has it so too). The
property is about a store nobody is using, so everything is in the invariant.
What the runs placed and have yet to count, with what the killed ones may have
left uncounted, is *owed*; `StoreHonest` says that no figure falls short by more
than that: not `size`, not what a walk has found together with what stands
beyond it, not the number a run is about to write, nor what a sweep goes by. Only
the lock's holder goes by a figure (`HolderFits`), so a step is proved for its holder
and for the store by it (`HolderMoves`). Beside that stand the duty to bring the
store under its cap, which some run has whenever it is over and nothing was
killed, and the two facts that make the number exact when nobody meddled.

### Only model-checked, and why

- Liveness: `RunsEnd`, `Converges`, `AllEnd`. Out of the prover's reach.
- `AskedOnceWithinBudget` and `ShowsWhatMatches` are about sequences cut into packets and
  pages and flattened again, `WhereTyped` about a typed path folded name by name.
  Each would need an induction over every one of those folds. `StoreProofs` shows
  that an induction can be had, at some thousands of lines each; these were not
  undertaken.
- `IdentityFileStands`: its part `RecordIsNoWork` rests on which texts a three-way merge
  can make of identity files nobody edited, and no inductive form of it was found.
- `Convergence`'s `NoBlindOverwrite` is no theorem: two stops in one publication
  allow the settlement cut short of section 11 (`ack_lost`), so it is checked
  where `MaxStops` is 1. `LocalWorkKept` holds with any number.

Every other safety property of a passing run is a theorem.

## 13. What is not modelled

- In `Convergence`: the copies around it (`Reviews` has them), collisions of a file
  with a folder of its name, the identity file (`IdentityRecord`), truncated trees,
  a copy with no account, the remote snapshot document (never read back by a
  run) and the content files of the local one: a snapshot is written in one step.
  `StateHomes` has both documents and the contents, not what they say.
- In `StateHomes`: bases carried between copies and laid over them, homes of
  another account, contents kept inside a snapshot by older builds, temporaries
  of interrupted writes, the directory flushes (a completed write survives a
  kill of the process; a loss of power is not modelled).
- In `BlobStore`: the hint files, which views are kept for which scope, the order
  of eviction (free), the removal of old temporaries, failing reads of a directory.
- The instant between the last hash of a path and the rename over it. The code
  narrows it to a few system calls; the model closes it. An overwrite and a
  discard test nothing before they write: there the user's concurrent edits are
  given up (`mine` is cleared), as the commands' purpose is to replace the folder.
- In `Collection`: symbolic links, file modes, the syntax of ignore patterns. In
  `Reviews`: folder forms that come and go beside the runs, and moves a
  publication takes in, which are `Convergence`'s.
- In `PathReads`: a repository deleted and made again beside a run (the content is
  read at an ordinal). In `History`: a server that follows moves through an identity,
  and the form of whole paths of moves outside the folder. In `Scopes`: the
  arguments of a listing. In `Search`: a typed `--path` other than the folder.
- What a server does is external everywhere: it is modelled as the callers rely
  on it, refusals and silence included.
- Back-off pauses, progress lines, exit codes and wording; configuration and
  argument parsing.
