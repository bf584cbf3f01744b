------------------------------- MODULE Views -------------------------------
(***************************************************************************)
(* The head of a convergence read through views (src/push/v2reads.rs,      *)
(* src/read/view.rs, closure.rs, run.rs): the server's entry list at one   *)
(* commit, kept in the store, carried forward by `changes` while it is     *)
(* fresh, and otherwise read again as the closure; and the blob reads that *)
(* take the store's bytes only for what this run's own answers named.      *)
(*                                                                         *)
(* Content stands for its hash.  The copy is a folder of a holder with no  *)
(* checkout: its view also records the holder's root `.synsignore`, here   *)
(* the path Ignore.  A closure is taken whole or refused (Closure::parse); *)
(* the resends of a request are the module BatchReads'.  The server, and   *)
(* the paths it hides from this reader, are external.                      *)
(***************************************************************************)
EXTENDS Naturals, Sequences, FiniteSets, Functions

CONSTANTS
    ScopePaths, \* the paths of the folder
    Ignore,     \* the holder's `.synsignore`, outside it
    Contents,   \* what a file may hold
    Unknown,    \* no answer it could be taken from
    Gone,       \* none stands there
    NoView,
    MaxCommits, \* bound: commits of the holder
    MaxEvents   \* bound: changes of what is hidden, refresh ages passed, files dropped

ASSUME ViewsAssumption ==
    /\ {Unknown, Gone} \cap Contents = {}
    /\ MaxCommits \in Nat \ {0} /\ MaxEvents \in Nat

VARIABLES
    shelf,   \* the server: its commits' trees, what it hides, changes of that
    kept,    \* the store: by commit its view, and the blobs held
    base,    \* the commit the copy is based on, 0 for none
    fetch    \* the run

viewsVars == <<shelf, kept, base, fetch>>

Served == ScopePaths \cup {Ignore}
Tip == Len(shelf.trees)
ShownAt(c) == Restrict(shelf.trees[c], DOMAIN shelf.trees[c] \ shelf.hidden)
InScope(files) == Restrict(files, DOMAIN files \cap ScopePaths)
(* Entries laid over others.                                                *)
LaidOver(upper, lower) ==
    [p \in DOMAIN upper \cup DOMAIN lower |-> IF p \in DOMAIN upper THEN upper[p] ELSE lower[p]]
At(files, p) == IF p \in DOMAIN files THEN files[p] ELSE Gone

(* A closure's tag: its commit and what was hidden (`tag_parts`).           *)
Tag(c) == <<c, shelf.hidden>>
UnmaskedTag(c) == <<c, {}>>

(* A view: `files` are its entries, and `unsettled` those of them that are  *)
(* no file of the head.                                                     *)
ViewOf(c) ==
    [commit |-> c, tag |-> Tag(c), fresh |-> TRUE, masked |-> shelf.hidden # {},
     ignore |-> IF fetch.ignore[1] = c THEN fetch.ignore[2] ELSE Unknown,
     files |-> InScope(ShownAt(c)), unsettled |-> {}]
HeadFiles(view) == Restrict(view.files, DOMAIN view.files \ view.unsettled)

NoRead ==
    [at |-> "idle", hint |-> NoView, from |-> NoView, asked |-> {}, changed |-> {},
     head |-> NoView, viewHead |-> <<>>, restarted |-> FALSE, named |-> <<>>,
     ignore |-> <<0, Unknown>>, handed |-> {}, shown |-> {}]
Fails == fetch' = NoRead

ViewAt(c) == IF c = 0 THEN NoView ELSE kept.views[c]
Keep(view) == [kept EXCEPT !.views[view.commit] = view]
WithBlobs(store, blobs) == [store EXCEPT !.blobs = @ \cup blobs]
Pairs(files) == {<<p, files[p]>> : p \in DOMAIN files}

ViewsStart(first, hidden, at) ==
    /\ shelf = [trees |-> <<first>>, hidden |-> hidden, masks |-> 0, events |-> 0]
    /\ kept = [views |-> [c \in 1 .. MaxCommits |-> NoView], blobs |-> {}]
    /\ base = at /\ fetch = NoRead
ViewsInit ==
    \E first \in [Served -> Contents], hidden \in SUBSET Served, at \in {0, 1} :
        ViewsStart(first, hidden, at)

-----------------------------------------------------------------------------
(* The holder's `.synsignore` (`holder_synsignore_v2`): from the base's     *)
(* view, else read at the base, or at the head where there is none.         *)

IgnoreKept ==
    LET view == ViewAt(base)
    IN /\ view # NoView
       /\ view.ignore = Gone \/ view.ignore \in kept.blobs

BeginRun ==
    /\ fetch.at = "idle"
    /\ LET at == IF base = 0 THEN Tip ELSE base
           found == At(ShownAt(at), Ignore)
           read == [NoRead EXCEPT !.at = "head"]
       IN \/ /\ IgnoreKept /\ UNCHANGED kept
             /\ fetch' = [read EXCEPT !.ignore = <<base, ViewAt(base).ignore>>]
          \/ /\ ~IgnoreKept
             /\ fetch' = [read EXCEPT !.ignore = <<at, found>>]
             /\ LET noted == IF ViewAt(at) = NoView THEN kept
                             ELSE Keep([ViewAt(at) EXCEPT !.ignore = found])
                IN kept' = WithBlobs(noted, {found} \ {Gone})
    /\ UNCHANGED <<shelf, base>>

-----------------------------------------------------------------------------
(* The head (`read_head_v2`).                                               *)

Fresh(view) == view # NoView /\ ~view.masked /\ view.fresh
(* The tag sent with a closure: the base's view, or the newest one kept.    *)
Hints ==
    LET views == {kept.views[c] : c \in 1 .. MaxCommits} \ {NoView}
    IN IF views = {} THEN {NoView} ELSE views

ReadHead ==
    /\ fetch.at = "head"
    /\ LET view == ViewAt(base)
           read == [fetch EXCEPT !.viewHead = <<>>, !.head = NoView]
       IN \/ Fresh(view) /\ fetch' = [read EXCEPT !.at = "changes", !.from = view]
          \/ /\ ~Fresh(view) /\ view # NoView
             /\ fetch' = [read EXCEPT !.at = "closure", !.hint = view]
          \/ /\ view = NoView
             /\ \E hint \in Hints : fetch' = [read EXCEPT !.at = "closure", !.hint = hint]
    /\ UNCHANGED <<shelf, kept, base>>

(* `by_closure`: a `304` names the view its tag was sent for, its refresh   *)
(* time taken anew where it was read under no mask.                         *)
HeadRead(view, store) ==
    /\ fetch' = [fetch EXCEPT !.at = "blobs", !.head = view,
                              !.named = LaidOver(view.files, @), !.shown = @ \cup Pairs(view.files)]
    /\ kept' = store
AskClosure ==
    LET hint == fetch.hint
        again == [hint EXCEPT !.fresh = @ \/ ~hint.masked]
        held == hint # NoView /\ hint.tag = Tag(Tip)
    IN /\ fetch.at = "closure"
       /\ \/ held /\ HeadRead(again, IF hint.masked THEN kept ELSE Keep(again))
          \/ ~held /\ HeadRead(ViewOf(Tip), Keep(ViewOf(Tip)))
       /\ UNCHANGED <<shelf, base>>

(* `by_changes`: the entries changed since the view's commit, laid over it. *)
(* Mutant: a deleted path keeps its entry.                                  *)
MutLaid(files, changed, after) == LaidOver(Restrict(after, changed \cap DOMAIN after), files)
Laid(files, changed, after) ==
    LaidOver(Restrict(after, changed \cap DOMAIN after), Restrict(files, DOMAIN files \ changed))

(* Mutant: every entry of the view counts as named.                         *)
MutNamedBy(view, asked) == view.files
NamedBy(view, asked) == Restrict(view.files, asked)

IgnoreFrom(was, before, after) ==
    LET old == At(before, Ignore)
    IN IF old = At(after, Ignore) THEN was
       ELSE IF was \in {Unknown, old} THEN At(after, Ignore) ELSE Unknown

ToClosure == [fetch EXCEPT !.at = "closure", !.hint = NoView]
NewestHint == \E hint \in Hints' : fetch' = [ToClosure EXCEPT !.hint = hint]

AskChanges ==
    LET view == fetch.from
        before == ShownAt(view.commit)
        after == ShownAt(Tip)
        changed == {p \in Served : At(before, p) # At(after, p)}
        inside == changed \cap ScopePaths
        contradicted == \E p \in inside : At(before, p) # At(view.files, p)
        asked == inside \cap DOMAIN after
        derived == [commit |-> Tip, fresh |-> view.fresh, masked |-> FALSE,
                    tag |-> IF Tip = view.commit THEN view.tag ELSE UnmaskedTag(Tip),
                    ignore |-> IgnoreFrom(view.ignore, before, after),
                    files |-> Laid(view.files, inside, after),
                    unsettled |-> IF Tip = view.commit THEN view.unsettled
                                  ELSE view.unsettled \ inside]
    IN /\ fetch.at = "changes"
       /\ \/ UNCHANGED kept /\ NewestHint
          \/ /\ contradicted
             /\ kept' = [kept EXCEPT !.views[view.commit] = NoView]
             /\ NewestHint
          \/ /\ ~contradicted /\ UNCHANGED kept
             /\ fetch' = [fetch EXCEPT !.at = "settle", !.asked = asked, !.head = derived,
                                       !.changed = changed,
                                       !.shown = @ \cup Pairs(Restrict(after, asked))]
       /\ UNCHANGED <<shelf, base>>

(* One batch at the commit answered settles each changed path's kind; one   *)
(* hidden since is no file of the head, and a hidden `.synsignore` is none. *)
SettleKinds ==
    LET shown == ShownAt(fetch.head.commit)
        answered == fetch.asked \cap DOMAIN shown
        lost == Ignore \in fetch.changed /\ fetch.head.ignore \in Contents
                  /\ Ignore \notin DOMAIN shown
        head == [fetch.head EXCEPT !.unsettled = @ \cup (fetch.asked \ answered),
                                   !.ignore = IF lost THEN Gone ELSE @]
    IN /\ fetch.at = "settle"
       /\ \E admitted \in SUBSET {shown[p] : p \in answered} :
            kept' = WithBlobs(IF head = fetch.from THEN kept ELSE Keep(head), admitted)
       /\ fetch' = [fetch EXCEPT !.at = "blobs", !.head = head,
                                 !.named = LaidOver(NamedBy(head, fetch.asked), @),
                                 !.viewHead = <<fetch.from.commit, head.commit>>]
       /\ UNCHANGED <<shelf, base>>

-----------------------------------------------------------------------------
(* The contents wanted of the head (`read_blobs_v2`), from the store where  *)
(* this run named the hash for the path, else asked at the head's commit.   *)

Unasked(p) ==
    LET sha == fetch.head.files[p]
    IN p \in DOMAIN fetch.named /\ fetch.named[p] = sha /\ sha \in kept.blobs

(* A path not found that no request of this run named: the head is read     *)
(* again, once, without the views it came from.                             *)
Dropped(views, commits) == [c \in DOMAIN views |-> IF c \in commits THEN NoView ELSE views[c]]
NotFound(read, store, missing) ==
    LET carried == \E p \in missing : p \notin DOMAIN fetch.named
    IN \/ /\ carried /\ read.viewHead # <<>> /\ ~read.restarted
          /\ kept' = [store EXCEPT !.views = Dropped(@, {read.viewHead[1], read.viewHead[2]})]
          /\ fetch' = [read EXCEPT !.at = "head", !.restarted = TRUE, !.handed = {}]
       \/ carried /\ read.viewHead # <<>> /\ read.restarted /\ kept' = store /\ Fails
       \/ /\ ~carried \/ read.viewHead = <<>>
          /\ kept' = [store EXCEPT !.views = Dropped(@, {read.head.commit})] /\ Fails

ReadBlobs ==
    /\ fetch.at = "blobs"
    /\ \E wanted \in SUBSET DOMAIN HeadFiles(fetch.head) :
         LET files == fetch.head.files
             shown == ShownAt(fetch.head.commit)
             asks == {p \in wanted : ~Unasked(p)}
             answered == {p \in asks : At(shown, p) = files[p]}
             missing == {p \in asks : At(shown, p) = Gone}
             store == WithBlobs(kept, {files[p] : p \in answered})
             read == [fetch EXCEPT !.named = LaidOver(Restrict(files, answered), @),
                                   !.shown = @ \cup Pairs(Restrict(shown, answered)),
                                   !.handed = @ \cup Pairs(Restrict(files, wanted))]
         IN \/ asks # answered \cup missing /\ kept' = kept /\ Fails
            \/ /\ asks = answered /\ kept' = store
               /\ fetch' = [read EXCEPT !.at = "read"]
            \/ asks = answered \cup missing /\ missing # {} /\ NotFound(read, store, missing)
    /\ UNCHANGED <<shelf, base>>

(* The convergence's end: its head is the base, or what it published on it. *)
EndRun ==
    /\ fetch.at = "read" /\ fetch' = NoRead
    /\ base' \in {base, fetch.head.commit}
    /\ UNCHANGED <<shelf, kept>>
RunStops ==
    /\ fetch.at # "idle" /\ Fails
    /\ UNCHANGED <<shelf, kept, base>>

-----------------------------------------------------------------------------
(* The server, the clock and the store's other runs.                        *)

Commit(p, content) ==
    /\ Tip < MaxCommits
    /\ LET tree == shelf.trees[Tip]
           next == IF content = Gone THEN Restrict(tree, DOMAIN tree \ {p})
                   ELSE LaidOver([q \in {p} |-> content], tree)
       IN next # tree /\ shelf' = [shelf EXCEPT !.trees = Append(@, next)]
    /\ UNCHANGED <<kept, base, fetch>>
Masks(p) ==
    /\ shelf.events < MaxEvents
    /\ shelf' = [shelf EXCEPT !.events = @ + 1, !.masks = @ + 1,
                              !.hidden = IF p \in @ THEN @ \ {p} ELSE @ \cup {p}]
    /\ UNCHANGED <<kept, base, fetch>>
DayPasses ==
    /\ shelf.events < MaxEvents /\ shelf' = [shelf EXCEPT !.events = @ + 1]
    /\ kept' = [kept EXCEPT !.views =
                   [c \in DOMAIN @ |-> IF @[c] = NoView THEN NoView ELSE [@[c] EXCEPT !.fresh = FALSE]]]
    /\ UNCHANGED <<base, fetch>>
StoreDrops ==
    /\ shelf.events < MaxEvents /\ shelf' = [shelf EXCEPT !.events = @ + 1]
    /\ \/ \E c \in 1 .. MaxCommits : kept' = [kept EXCEPT !.views[c] = NoView]
       \/ \E b \in kept.blobs : kept' = [kept EXCEPT !.blobs = @ \ {b}]
    /\ UNCHANGED <<base, fetch>>

ViewsNext ==
    \/ BeginRun \/ ReadHead \/ AskClosure \/ AskChanges \/ SettleKinds \/ ReadBlobs \/ EndRun \/ RunStops
    \/ \E p \in Served, content \in Contents \cup {Gone} : Commit(p, content)
    \/ \E p \in Served : Masks(p)
    \/ DayPasses \/ StoreDrops

ViewsSpec == ViewsInit /\ [][ViewsNext]_viewsVars

-----------------------------------------------------------------------------
(* While what the server hides does not change, the head a run reads holds  *)
(* the files the server shows at its commit, whichever views it was carried *)
(* through, dropped or read again, and the `.synsignore` recorded with it   *)
(* is the one shown there (v2reads.rs 285 to 455).                          *)
HeadAsShown ==
    (shelf.masks = 0 /\ fetch.at \in {"blobs", "read"}) =>
      /\ HeadFiles(fetch.head) = InScope(ShownAt(fetch.head.commit))
      /\ fetch.head.ignore \in {Unknown, At(ShownAt(fetch.head.commit), Ignore)}

(* The store hands a run only what the server answered to that very run,    *)
(* or confirmed by the tag of an unchanged view: a file hidden since stays  *)
(* hidden although its bytes are stored (v2reads.rs 735 to 760).            *)
HandedAsShown == fetch.handed \subseteq fetch.shown

(* What a run reads of a head is what the server shows it: v2reads.rs 285   *)
(* to 760.                                                                  *)
AsShown == HeadAsShown /\ HandedAsShown
=============================================================================
