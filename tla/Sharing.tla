------------------------------ MODULE Sharing ------------------------------
(***************************************************************************)
(* A folder shared under an identity of its own, marked and unshared       *)
(* (src/commands/share.rs), and its identity file settled after each       *)
(* (`settle_identity_file`), beside a run in the folder and the edits of   *)
(* its person and of others.                                               *)
(*                                                                         *)
(* The identity file ("marker") is the identity it names and its text; its *)
(* content stands for its hash, the number of a holder's version for its   *)
(* sha.  A folder alone is bound by the marker on disk to its holder or to *)
(* an identity, a working copy for each at its directory; one inside a     *)
(* checkout of its holder is worked on through the checkout's copy.  No    *)
(* copy holds a resolution or an outbox of the marker.                     *)
(***************************************************************************)
EXTENDS Naturals, Sequences, SequencesExt

CONSTANTS Names,      \* the identity names one may ask for
          Offered,    \* the one a share offers, and a marking mints when sent none
          HeldNames,  \* those other repositories hold
          MaxEdits, MaxRuns, MaxVerbs, MaxAsks

ASSUME SharingAssumption ==
    /\ Offered \in Names /\ HeldNames \subseteq Names
    /\ {MaxEdits, MaxRuns, MaxVerbs, MaxAsks} \subseteq Nat

VARIABLES holder, folder, entries, verb, run
sharingVars == <<holder, folder, entries, verb, run>>

None == "none"
NoText == [as |-> None, text |-> 0]     \* no identity file
Based == Names \cup {"holder", "checkout"}
NoEntry == [at |-> 0, marker |-> NoText, time |-> 0]
NoVerb(left) == [at |-> "idle", kind |-> "share", name |-> None, asks |-> 0, shared |-> TRUE,
                 entry |-> 0, read |-> NoText, scope |-> "holder", recorded |-> {}, left |-> left]

(* An unshared folder, placed alone or standing in a checkout, with its     *)
(* marker or (in a checkout) without one.                                   *)
SharingStart(setting, text) ==
    /\ text = 0 => setting = "checkout"
    /\ LET first == [as |-> None, text |-> text]
           base == [at |-> 1, marker |-> first, time |-> 1]
       IN /\ holder = [versions |-> <<first>>, identity |-> None, shared |-> FALSE, marked |-> FALSE]
          /\ folder = [setting |-> setting, marker |-> first, texts |-> 1, edits |-> 0]
          /\ entries = [c \in Based |->
                        IF c = (IF setting = "alone" THEN "holder" ELSE "checkout") THEN base ELSE NoEntry]
    /\ verb = NoVerb(MaxVerbs)
    /\ run = [at |-> "idle", copy |-> "holder", left |-> MaxRuns, clock |-> 1]
SharingInit == \E setting \in {"alone", "checkout"}, text \in {0, 1} : SharingStart(setting, text)

Tip == Last(holder.versions)
(* `resolve_folder_scope` at the folder: the copy a run inside it opens.    *)
Scope == IF folder.setting = "checkout" THEN "checkout"
         ELSE IF folder.marker.as = None THEN "holder" ELSE folder.marker.as

-----------------------------------------------------------------------------
(* The server.                                                              *)

StandingFile == holder.identity # None
Committed(marker) == [holder EXCEPT !.versions = Append(@, marker)]
Minted(name, marked) ==
    [Committed([as |-> name, text |-> IF Tip = NoText THEN 1 ELSE Tip.text])
        EXCEPT !.identity = name, !.shared = ~marked, !.marked = marked]
Retired == [Committed([Tip EXCEPT !.as = None])
               EXCEPT !.identity = None, !.shared = FALSE, !.marked = FALSE]
Stopped == IF holder.marked THEN [holder EXCEPT !.shared = FALSE] ELSE Retired

(* Somebody else publishes an edit of the identity file's text, or shares,  *)
(* marks or unshares the folder.                                            *)
Somebody ==
    /\ folder.edits < MaxEdits
    /\ \/ /\ Tip # NoText
          /\ holder' = Committed([Tip EXCEPT !.text = folder.texts + 1])
          /\ folder' = [folder EXCEPT !.edits = @ + 1, !.texts = @ + 1]
       \/ /\ folder' = [folder EXCEPT !.edits = @ + 1]
          /\ \/ ~StandingFile /\ \E name \in Names \ HeldNames, marked \in BOOLEAN : holder' = Minted(name, marked)
             \/ StandingFile /\ holder' \in {Stopped, [holder EXCEPT !.shared = TRUE], [holder EXCEPT !.marked = TRUE]}
    /\ UNCHANGED <<entries, verb, run>>

(* The person edits the text.                                               *)
EditMarker ==
    /\ folder.edits < MaxEdits /\ folder.marker # NoText
    /\ folder' = [folder EXCEPT !.edits = @ + 1, !.texts = @ + 1, !.marker.text = folder.texts + 1]
    /\ UNCHANGED <<holder, entries, verb, run>>

-----------------------------------------------------------------------------
(* The verbs: `cmd_share` and `share_with_names`, `cmd_mark_folder` and     *)
(* `mark_with_names`, `cmd_unshare`.  A lookup or a sending may be refused, *)
(* or its answer lost.                                                      *)

BeginVerb ==
    /\ verb.at = "idle" /\ verb.left > 0
    /\ \/ verb' = [verb EXCEPT !.left = @ - 1, !.asks = MaxAsks, !.kind = "share", !.at = "lookup"]
       \/ \E name \in Names \cup {None} :
            verb' = [verb EXCEPT !.left = @ - 1, !.asks = MaxAsks, !.kind = "mark", !.at = "send", !.name = name]
       \/ verb' = [verb EXCEPT !.left = @ - 1, !.kind = "unshare", !.at = "lookup"]
    /\ UNCHANGED <<holder, folder, entries, run>>

Settles(name, shared) == [verb EXCEPT !.at = "newest", !.name = name, !.shared = shared]
Over == NoVerb(verb.left)
VerbRefused ==
    /\ verb.at # "idle"
    /\ verb.at \notin {"compare", "ready", "replace", "lay_before", "lay_after"}
    /\ verb' = Over
    /\ UNCHANGED <<holder, folder, entries, run>>

(* An identity standing ends a share shared; another name is one the person *)
(* may be asked for.                                                        *)
Another == \E name \in Names : verb.asks > 0 /\ verb' = [verb EXCEPT !.at = "send", !.name = name, !.asks = @ - 1]
ShareLookup ==
    /\ verb.kind = "share" /\ verb.at = "lookup"
    /\ IF StandingFile THEN verb' = Settles(holder.identity, TRUE)
       ELSE \E name \in Names : verb' = [verb EXCEPT !.at = "send", !.name = name]
    /\ UNCHANGED <<holder, folder, entries, run>>
ShareSend ==
    /\ verb.kind = "share" /\ verb.at = "send"
    /\ IF StandingFile \/ verb.name \in HeldNames
       THEN verb' = [verb EXCEPT !.at = "held"] /\ UNCHANGED holder
       ELSE holder' = Minted(verb.name, FALSE) /\ verb' \in {Settles(verb.name, TRUE), Over}
    /\ UNCHANGED <<folder, entries, run>>
ShareHeld ==
    /\ verb.kind = "share" /\ verb.at = "held"
    /\ IF StandingFile THEN verb' = Settles(holder.identity, TRUE) ELSE Another \/ verb' = Over
    /\ UNCHANGED <<holder, folder, entries, run>>

(* A marking of an identity standing takes no name; one sent none mints the *)
(* name the server offers.                                                  *)
MarkSend ==
    LET minted == IF verb.name = None THEN Offered ELSE verb.name
    IN /\ verb.kind = "mark" /\ verb.at \in {"send", "again"}
       /\ \/ /\ StandingFile /\ verb.name = None
             /\ holder' = [holder EXCEPT !.marked = TRUE]
             /\ verb' \in {Settles(holder.identity, TRUE), Over}
          \/ /\ ~StandingFile /\ minted \notin HeldNames
             /\ holder' = Minted(minted, TRUE)
             /\ verb' \in {Settles(minted, TRUE), Over}
          \/ /\ (IF StandingFile THEN verb.name # None ELSE minted \in HeldNames)
             /\ verb' = IF verb.at = "again" THEN Over ELSE [verb EXCEPT !.at = "held"]
             /\ UNCHANGED holder
       /\ UNCHANGED <<folder, entries, run>>
MarkHeld ==
    /\ verb.kind = "mark" /\ verb.at = "held"
    /\ IF StandingFile THEN verb' = [verb EXCEPT !.at = "again", !.name = None] ELSE Another \/ verb' = Over
    /\ UNCHANGED <<holder, folder, entries, run>>

(* The identity removed, then looked up again: one that stands by a         *)
(* visibility of its own, or whose lookup is refused, ends the verb there.  *)
UnshareLookup ==
    /\ verb.kind = "unshare" /\ verb.at = "lookup"
    /\ verb' = IF StandingFile THEN [verb EXCEPT !.at = "remove", !.name = holder.identity] ELSE Over
    /\ UNCHANGED <<holder, folder, entries, run>>
UnshareRemove ==
    /\ verb.kind = "unshare" /\ verb.at = "remove"
    /\ IF StandingFile THEN holder' = Stopped /\ verb' \in {[verb EXCEPT !.at = "after"], Over}
       ELSE verb' = Over /\ UNCHANGED holder
    /\ UNCHANGED <<folder, entries, run>>
UnshareAfter ==
    /\ verb.kind = "unshare" /\ verb.at = "after"
    /\ verb' = IF StandingFile THEN Over ELSE [verb EXCEPT !.at = "carry"]
    /\ UNCHANGED <<holder, folder, entries, run>>

(* `WorkingCopy::carry_base`: the base of one copy of the directory carried *)
(* to another where it was recorded after that copy's own.                  *)
Carried(from, to) == IF entries[from].time > entries[to].time THEN [entries EXCEPT ![to] = entries[from]] ELSE entries
Free(copies) == run.at = "idle" \/ run.copy \notin copies     \* a copy's state lock

(* `carry_identity_base`, then the settling.                                *)
UnshareCarry ==
    /\ verb.kind = "unshare" /\ verb.at = "carry"
    /\ IF Scope = verb.name
       THEN Free({"holder"}) /\ entries' = Carried(verb.name, "holder")
       ELSE UNCHANGED entries
    /\ verb' = Settles(verb.name, FALSE)
    /\ UNCHANGED <<holder, folder, run>>

-----------------------------------------------------------------------------
(* `settle_identity_file`, a refusal or a file that does not stand as it    *)
(* asks ending it with a warning.                                           *)

Changing == {v \in 1..Len(holder.versions) :
               holder.versions[v] # IF v = 1 THEN NoText ELSE holder.versions[v - 1]}
(* `reads_as_settled`. *)
Settled(marker) == marker # NoText /\ marker.as = IF verb.shared THEN verb.name ELSE None
Entry == holder.versions[verb.entry]
Prior == IF verb.entry = 1 THEN NoText ELSE holder.versions[verb.entry - 1]

(* 1 and 2: the newest version changing the file, and its bytes.            *)
NewestVersion ==
    /\ verb.at = "newest"
    /\ LET shown == {v \in Changing : (\A w \in Changing : w <= v) /\ Settled(holder.versions[v])}
       IN verb' \in IF shown = {} THEN {Over} ELSE {[verb EXCEPT !.at = "compare", !.entry = v] : v \in shown}
    /\ UNCHANGED <<holder, folder, entries, run>>

(* 3: the file on disk holds them already, or is compared with the version  *)
(* before, whose read may be refused.                                       *)
CompareStanding ==
    /\ verb.at = "compare"
    /\ verb' \in IF folder.marker = Entry
                 THEN {[verb EXCEPT !.at = "lay_after"]}
                 ELSE {[verb EXCEPT !.at = "ready", !.read = folder.marker], Over}
    /\ UNCHANGED <<holder, folder, entries, run>>

(* 5: the scope and what its base records, then the file read again and     *)
(* replaced.                                                                *)
ReadBefore ==
    /\ verb.at = "ready"
    /\ verb' = [verb EXCEPT !.at = "replace", !.scope = Scope, !.recorded = {entries[Scope].marker} \ {NoText}]
    /\ UNCHANGED <<holder, folder, entries, run>>
(* Mutant: the file is judged as it was read at the comparison.             *)
MutReread == verb.read
Reread == folder.marker
Replace ==
    /\ verb.at = "replace"
    /\ IF Reread = Prior \/ Reread \in verb.recorded
       THEN folder' = [folder EXCEPT !.marker = Entry] /\ verb' = [verb EXCEPT !.at = "lay_before"]
       ELSE verb' = Over /\ UNCHANGED folder
    /\ UNCHANGED <<holder, entries, run>>

(* 6: `lay_identity_file` over the copy read before, then over the one the  *)
(* file now binds (`WorkingCopy::lay_files`: nothing over no base).         *)
LaidOn(base) ==
    IF base = NoEntry THEN base
    ELSE [base EXCEPT !.marker = Entry, !.at = IF @ = verb.entry - 1 THEN verb.entry ELSE @]
LayBefore ==
    /\ verb.at = "lay_before" /\ Free({verb.scope})
    /\ entries' = [entries EXCEPT ![verb.scope] = LaidOn(@)]
    /\ verb' = [verb EXCEPT !.at = "lay_after"]
    /\ UNCHANGED <<holder, folder, run>>
LayAfter ==
    /\ verb.at = "lay_after" /\ Free({Scope})
    /\ entries' = [entries EXCEPT ![Scope] = LaidOn(@)]
    /\ verb' = Over
    /\ UNCHANGED <<holder, folder, run>>

-----------------------------------------------------------------------------
(* A run in the folder (`syns sync`), its convergence abstracted to what it *)
(* leaves of the marker.                                                    *)

(* `WorkingCopy::open_folder`. *)
OpenRun ==
    /\ run.at = "idle" /\ run.left > 0
    /\ entries' = IF Scope \in Names THEN Carried("holder", Scope) ELSE entries
    /\ run' = [run EXCEPT !.at = "open", !.copy = Scope, !.left = @ - 1]
    /\ UNCHANGED <<holder, folder, verb>>

(* A request through an identity gone is answered NOT_FOUND: the folder     *)
(* returns to its holder where the holder's file names the identity no more *)
(* (`return_to_holder`), and the run begins again through the holder.       *)
Answers == run.copy \notin Names \/ holder.identity = run.copy
ReturnToHolder ==
    /\ run.at = "open" /\ ~Answers
    /\ IF Tip # NoText /\ Tip.as # run.copy
       THEN entries' = Carried(run.copy, "holder") /\ run' = [run EXCEPT !.copy = "holder"]
       ELSE run' = [run EXCEPT !.at = "idle"] /\ UNCHANGED entries
    /\ UNCHANGED <<holder, folder, verb>>

(* A base of this version and file is left as it was recorded.              *)
Recorded(marker, at) ==
    IF entries[run.copy].marker = marker /\ entries[run.copy].at = at
    THEN run' = [run EXCEPT !.at = "idle"] /\ UNCHANGED entries
    ELSE /\ entries' = [entries EXCEPT ![run.copy] = [at |-> at, marker |-> marker, time |-> run.clock + 1]]
         /\ run' = [run EXCEPT !.at = "idle", !.clock = @ + 1]
(* The three-way comparison of the marker, and whether the run stops.       *)
Stops == LET base == entries[run.copy].marker
         IN folder.marker # Tip /\ base # Tip /\ folder.marker # base
EndRun ==
    /\ run.at = "open" /\ Answers
    /\ \/ Stops /\ run' = [run EXCEPT !.at = "idle"] /\ UNCHANGED <<holder, folder, entries>>
       \/ /\ ~Stops /\ folder.marker = entries[run.copy].marker
          /\ folder' = [folder EXCEPT !.marker = Tip]
          /\ Recorded(Tip, Len(holder.versions))
          /\ UNCHANGED holder
       \/ /\ ~Stops /\ folder.marker # entries[run.copy].marker
          /\ holder' = IF folder.marker = Tip THEN holder ELSE Committed(folder.marker)
          /\ Recorded(folder.marker, Len(holder'.versions))
          /\ UNCHANGED folder
    /\ UNCHANGED verb

SharingNext == \/ Somebody \/ EditMarker \/ BeginVerb \/ VerbRefused
               \/ ShareLookup \/ ShareSend \/ ShareHeld \/ MarkSend \/ MarkHeld
               \/ UnshareLookup \/ UnshareRemove \/ UnshareAfter \/ UnshareCarry
               \/ NewestVersion \/ CompareStanding \/ ReadBefore \/ Replace \/ LayBefore \/ LayAfter
               \/ OpenRun \/ ReturnToHolder \/ EndRun
SharingSpec == SharingInit /\ [][SharingNext]_sharingVars

-----------------------------------------------------------------------------
(* The identity file is replaced, by a settling or by a run, only where     *)
(* what stands there is held by a version of the holder: an edit of the     *)
(* person, made before a settling or under its reads, is never lost to it.  *)
EditLeftStanding ==
    [][folder'.marker # folder.marker /\ folder'.edits = folder.edits
       => folder.marker \in ToSet(holder.versions) \cup {NoText}]_sharingVars
=============================================================================
