----------------------------- MODULE Identities -----------------------------
(***************************************************************************)
(* Which repository a directory belongs to: the identity files standing in *)
(* nested directories (src/repo/), read by every run to find the           *)
(* repository and the directory it converges, and written by `syns pull`,  *)
(* `syns push`, `syns sync` and `syns fork` (src/commands/) while the      *)
(* person moves and removes them.                                          *)
(*                                                                         *)
(* The directories are one chain, each inside the one before, all of one   *)
(* name: a folder's path is its depth under its repository's root.  Every  *)
(* file is read as one form; a marked one is read by its local side and so *)
(* as the form it was.                                                     *)
(***************************************************************************)
EXTENDS Naturals, FiniteSets, FiniteSetsExt

CONSTANTS
    Depth,          \* the directories, 1 the outermost
    Plain,          \* the repositories
    Holder,         \* the one whose folder is shared
    Identity,       \* the identity that folder is shared as
    FolderPath,     \* the shared folder's path in Holder
    MaxChanges      \* how often the person changes an identity file

ASSUME IdentitiesAssumption ==
    /\ Depth \in Nat \ {0} /\ Holder \in Plain /\ Identity \notin Plain
    /\ "none" \notin Plain \cup {Identity}
    /\ FolderPath \in 1 .. Depth

VARIABLES tree, served, holding, links, push, ran, changes
identitiesVars == <<tree, served, holding, links, push, ran, changes>>

Dirs == 1 .. Depth
Repos == Plain \cup {Identity}

(* `IdentityForm`, with what the folder form carries under `shared_as`.     *)
NoForm == [form |-> "none", repo |-> "none", path |-> 0, shared |-> FALSE]
RootForm(r) == [form |-> "root", repo |-> r, path |-> 0, shared |-> FALSE]
FolderForm(shared) == [form |-> "folder", repo |-> Holder, path |-> FolderPath, shared |-> shared]
Forms == {NoForm} \cup {RootForm(r) : r \in Plain} \cup {FolderForm(s) : s \in BOOLEAN}

NoPush == [at |-> "no", dir |-> 0, repo |-> "none", unlinked |-> FALSE, wrote |-> FALSE]
NothingRan == [dir |-> 0, repo |-> "none"]

IdentitiesStart(files) ==
    /\ tree = [d \in Dirs |-> NoForm] /\ served = files
    /\ holding = {r \in Repos : files[r] # NoForm} /\ links = {}
    /\ push = NoPush /\ ran = NothingRan /\ changes = 0
IdentitiesInit ==
    \E own \in [Plain -> {NoForm} \cup {RootForm(r) : r \in Plain}] :
        /\ \A r \in Plain : own[r] \in {NoForm, RootForm(r)}
        /\ IdentitiesStart([r \in Repos |-> IF r = Identity THEN FolderForm(TRUE) ELSE own[r]])

-----------------------------------------------------------------------------
(* What a run standing at d reads.                                          *)
Formed(d) == {e \in 1 .. d : tree[e] # NoForm}
FormsFrom(d, form) == {e \in Formed(d) : tree[e].form = form}

(* `find_syns_yaml`, and `nearest_identity` where that file is a root form. *)
Nearest(d) == IF Formed(d) = {} THEN 0 ELSE Max(Formed(d))
NearestNames(d, r) == Nearest(d) # 0 /\ tree[Nearest(d)] = RootForm(r)

(* `folder_checkout` for a folder at, or about to stand at, d: the nearest  *)
(* root form above past every folder form, or else the outermost folder     *)
(* form above, fixes its place.                                             *)
Misplaced(d, form) ==
    LET roots  == FormsFrom(d - 1, "root")
        outers == FormsFrom(d - 1, "folder")
    IN IF roots # {} THEN tree[Max(roots)].repo # form.repo \/ d - Max(roots) # form.path
       ELSE outers # {} /\ LET o == Min(outers)
                           IN \/ tree[o].repo # form.repo \/ form.path <= tree[o].path
                              \/ tree[o].path + (d - o) # form.path

(* `identity_scope`: the outermost folder form, nothing above it, where it  *)
(* names its identity: every identity file beneath it is content.           *)
BoundAt(d) ==
    LET outers == FormsFrom(d, "folder")
    IN IF outers # {} /\ Formed(Min(outers)) = {Min(outers)} /\ tree[Min(outers)].shared
       THEN Min(outers) ELSE 0

(* `resolve_folder_scope`, then the nearest root form: the repository a run *)
(* at d addresses and the directory it converges, none or refused.          *)
Nowhere == [dir |-> 0, repo |-> "none", folder |-> FALSE]
Refused == [dir |-> 0, repo |-> "none", folder |-> TRUE]
Addressed(d) ==
    LET n == Nearest(d)
    IN IF BoundAt(d) # 0 THEN [dir |-> BoundAt(d), repo |-> Identity, folder |-> TRUE]
       ELSE IF n = 0 THEN Nowhere
       ELSE IF tree[n].form = "root" THEN [dir |-> n, repo |-> tree[n].repo, folder |-> FALSE]
       ELSE IF Misplaced(n, tree[n]) THEN Refused
       ELSE [dir |-> n, repo |-> tree[n].repo, folder |-> TRUE]

\* `repository_of`: a folder counts as its holder's, whichever binding it has.
Home(r) == IF r = Identity THEN Holder ELSE r
RepositoryOf(d) == Home(Addressed(d).repo)

(* `identity_file_stands`.  Mutant: any file at or above will do.           *)
MutStands(files, d, r) == \E e \in 1 .. d : files[e] # NoForm
Holds(files, d, r) ==
    LET above == {e \in 1 .. d : files[e] # NoForm}
    IN files[d] # NoForm \/ (above # {} /\ files[Max(above)] = RootForm(r))
\* `write_syns_yaml_where_none_stands`.
WithIdentity(files, d, r) == IF Holds(files, d, r) THEN files ELSE [files EXCEPT ![d] = RootForm(r)]

-----------------------------------------------------------------------------
(* `syns pull`.  The repository's own root file arrives with its content    *)
(* where none stands; what becomes of one that does is IdentityRecord's.    *)
Retrieved(files, d, r) ==
    IF files[d] = NoForm /\ r \in holding THEN [files EXCEPT ![d] = served[r]] ELSE files
NotPushing == push.at = "no"
Runs(d, r) == ran' = [dir |-> d, repo |-> r]
Links(d, r) == links' = links \cup {<<d, r>>}

PullScoped(d, r) ==
    /\ NotPushing /\ Addressed(d).folder /\ Addressed(d).repo = r
    /\ Links(Addressed(d).dir, r) /\ Runs(d, r)
    /\ UNCHANGED <<tree, served, holding, push, changes>>

PullNamed(d, r, explicit) ==
    LET target == IF ~explicit /\ NearestNames(d, r) THEN Nearest(d) ELSE d
    IN /\ NotPushing /\ r \in Plain /\ ~Addressed(d).folder
       /\ Nearest(d) # 0 => NearestNames(d, r)
       /\ tree' = WithIdentity(Retrieved(tree, target, r), target, r)
       /\ Links(target, r) /\ Runs(d, r)
       /\ UNCHANGED <<served, holding, push, changes>>

\* The repository found, none named: no identity file is written.
PullBare(d, explicit) ==
    LET to == Addressed(d)
        target == IF explicit THEN d ELSE to.dir
    IN /\ NotPushing /\ to.dir # 0 /\ ~to.folder
       /\ tree' = Retrieved(tree, target, to.repo)
       /\ Links(target, to.repo) /\ Runs(d, to.repo)
       /\ UNCHANGED <<served, holding, push, changes>>

(* A shared folder's identity named where no identity file stands: checked  *)
(* out under its marker.                                                    *)
PullIdentity(d) ==
    /\ NotPushing /\ Nearest(d) = 0 /\ served[Identity].form = "folder" /\ served[Identity].shared
    /\ tree' = [tree EXCEPT ![d] = served[Identity]]
    /\ Links(d, Identity) /\ Runs(d, Identity)
    /\ UNCHANGED <<served, holding, push, changes>>

(* `pull_folder_alone`: the file standing, the place, then the marker at    *)
(* the holder.                                                              *)
PullFolder(d, marker) ==
    /\ NotPushing /\ marker.form = "folder"
    /\ Nearest(d) # 0 => tree[Nearest(d)].repo = Holder
    /\ tree[d] \in {NoForm} \cup {FolderForm(s) : s \in BOOLEAN}
    /\ ~Misplaced(d, marker)
    /\ tree' = IF tree[d] = NoForm THEN [tree EXCEPT ![d] = marker] ELSE tree
    /\ Links(d, Holder) /\ Runs(d, Holder)
    /\ UNCHANGED <<served, holding, push, changes>>

-----------------------------------------------------------------------------
(* `syns push` and `syns sync`.                                             *)

(* A bare push, the repository named or found: `refuse_another_repository`, *)
(* `push_scope`, then the identity file.                                    *)
\* `refuse_another_repository`: the file standing in d itself names no other.
NamesNoOther(d, r) == tree[d] \in {NoForm, RootForm(r)}
PushRoot(d, r) == IF NearestNames(d, r) THEN Nearest(d) ELSE d
BeginPush(d, r, named) ==
    LET root == PushRoot(d, r)
    IN /\ NotPushing /\ ~Addressed(d).folder /\ r \in Plain
       /\ IF named THEN NamesNoOther(d, r) ELSE Addressed(d).repo = r
       /\ push' = [at |-> "sent", dir |-> root, repo |-> r, unlinked |-> named /\ ~Holds(tree, root, r),
                   wrote |-> ~Holds(tree, root, r)]
       /\ tree' = WithIdentity(tree, root, r) /\ ran' = NothingRan
       /\ UNCHANGED <<served, holding, links, changes>>

PushLinked == <<push.dir, push.repo>> \in links
NameTaken == push.unlinked /\ ~PushLinked /\ push.repo \in holding

(* The convergence lands, or records what it took; the root file goes with  *)
(* it where the repository has none.                                        *)
PushLands ==
    /\ push.at = "sent" /\ ~NameTaken
    /\ holding' = holding \cup {push.repo}
    /\ served' = [served EXCEPT ![push.repo] = IF @ = NoForm THEN tree[push.dir] ELSE @]
    /\ Links(push.dir, push.repo) /\ Runs(push.dir, push.repo) /\ push' = NoPush
    /\ UNCHANGED <<tree, changes>>

(* Refused, or failed before anything was recorded: an unlinked run takes   *)
(* back the file it wrote, where nothing links the folder.  A failure after *)
(* the send leaves an outbox, which links it.                               *)
(* Mutant: taken back under the refusal alone.                              *)
MutTakesBack == NameTaken /\ push.wrote
TakesBack == push.wrote /\ push.unlinked /\ ~PushLinked
PushFails ==
    /\ push.at = "sent"
    /\ tree' = IF TakesBack THEN [tree EXCEPT ![push.dir] = NoForm] ELSE tree
    /\ push' = NoPush /\ UNCHANGED <<served, holding, links, ran, changes>>
PushUnanswered ==
    /\ push.at = "sent" /\ ~NameTaken /\ Links(push.dir, push.repo) /\ push' = NoPush
    /\ UNCHANGED <<tree, served, holding, ran, changes>>

(* A forced or path-scoped publication writes no identity file.             *)
PushForced(d, r) ==
    /\ NotPushing /\ ~Addressed(d).folder /\ r \in Plain /\ NamesNoOther(d, r)
    /\ holding' = holding \cup {r} /\ ran' = NothingRan
    /\ UNCHANGED <<tree, served, links, push, changes>>

-----------------------------------------------------------------------------
(* `syns fork`: a file standing in d itself and naming the source is        *)
(* repointed; inside a folder the fork is refused.                          *)
Fork(d, from, to) ==
    /\ NotPushing /\ from \in holding /\ to \notin holding /\ {from, to} \subseteq Plain
    /\ Addressed(d).repo = from => ~Addressed(d).folder
    /\ Addressed(d) # Refused
    /\ tree' = IF tree[d] = RootForm(from) THEN [tree EXCEPT ![d] = RootForm(to)] ELSE tree
    /\ served' = [served EXCEPT ![to] = served[from]] /\ holding' = holding \cup {to}
    /\ ran' = NothingRan /\ UNCHANGED <<links, push, changes>>

\* The person removes an identity file, writes one, or copies one along.
Changes(d, form) ==
    /\ NotPushing /\ changes < MaxChanges /\ tree[d] # form
    /\ tree' = [tree EXCEPT ![d] = form] /\ changes' = changes + 1 /\ ran' = NothingRan
    /\ UNCHANGED <<served, holding, links, push>>

IdentitiesNext ==
    \/ \E d \in Dirs, r \in Repos : PullScoped(d, r)
    \/ \E d \in Dirs, r \in Repos, explicit \in BOOLEAN : PullNamed(d, r, explicit)
    \/ \E d \in Dirs, explicit \in BOOLEAN : PullBare(d, explicit)
    \/ \E d \in Dirs : PullIdentity(d)
    \/ \E d \in Dirs, shared \in BOOLEAN : PullFolder(d, FolderForm(shared))
    \/ \E d \in Dirs, r \in Plain, named \in BOOLEAN : BeginPush(d, r, named)
    \/ PushLands \/ PushFails \/ PushUnanswered
    \/ \E d \in Dirs, r \in Plain : PushForced(d, r)
    \/ \E d \in Dirs, from \in Plain, to \in Plain : Fork(d, from, to)
    \/ \E d \in Dirs, form \in Forms : Changes(d, form)

IdentitiesSpec == IdentitiesInit /\ [][IdentitiesNext]_identitiesVars

-----------------------------------------------------------------------------
(* A run comes back: after a retrieval or a publication from a directory, a *)
(* bare run there belongs to the repository it retrieved or published,       *)
(* unless that repository's own root file names another (syns_yaml.rs       *)
(* `write_syns_yaml_where_none_stands`).                                    *)
RunsComeBack ==
    (ran # NothingRan /\ served[ran.repo].repo \in {"none", Home(ran.repo)})
        => RepositoryOf(ran.dir) = Home(ran.repo)

(* A push by name that published nothing leaves the folder unlinked: its    *)
(* identity file gone, so that a retry is refused by a taken name again     *)
(* (push.rs `links_the_folder`, converge.rs `converge_unlinked`).           *)
RefusedPushLeavesNothing ==
    [][(push.at = "sent" /\ push.unlinked /\ push'.at = "no" /\ <<push.dir, push.repo>> \notin links')
         => ~Holds(tree', push.dir, push.repo)]_identitiesVars

(* Safety: what a run leaves in a directory leads the next bare run to the  *)
(* repository it served, and a refused publication leaves nothing to lead.  *)
LeadsBack == []RunsComeBack /\ RefusedPushLeavesNothing
=============================================================================
