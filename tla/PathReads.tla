----------------------------- MODULE PathReads -----------------------------
(***************************************************************************)
(* A read verb's run over one path (src/read/mod.rs, files.rs, store.rs,   *)
(* commands/cat.rs, read.rs): the reference it pins while others publish,  *)
(* the path read at it through the store, and the hint it leaves for the   *)
(* next run.  ReadRuns of one account share the store's heads, hints and       *)
(* blobs; what the store's size counts is the module BlobStore's.          *)
(*                                                                         *)
(* A commit is its number in the history, and a content stands for its     *)
(* hash; a content that is no text is served under the media type          *)
(* TypeOf of it.  A hint's type is that, Unnamed or Unknown.               *)
(***************************************************************************)
EXTENDS Naturals, Sequences

CONSTANTS ReadRuns,         \* the runs
          Texts, Typed,        \* contents that are text, and others
          NoContent,           \* none stands at the path, or is held
          MaxVersions,          \* bound: versions of the repository
          MaxTyped             \* bound: the newest version a caller types (0: none)

ASSUME PathReadsAssumption ==
    /\ NoContent \notin Texts \cup Typed /\ Texts \cap Typed = {}
    /\ Typed \cap {"none", "seen", "unknown", "unnamed"} = {}  \* no media type reads so
    /\ {MaxVersions, MaxTyped} \subseteq Nat

VARIABLES history,  \* the path's content at each version
          account,  \* the account's store: the head it kept, the path's hint, the blobs
          run    \* the runs
pathReadsVars == <<history, account, run>>

TypeOf(content) == IF content \in Texts THEN "none" ELSE content
NoHint == [sha |-> NoContent, media |-> "unknown"]
NoReader == [at |-> "idle", verb |-> "cat", from |-> 0, kept |-> 0, record |-> 0, newest |-> 0,
             pin |-> 0, held |-> NoHint, bytes |-> NoContent, media |-> "none", note |-> NoHint]

PathReadsStart(first) ==
    /\ history = <<first>>
    /\ account = [head |-> 0, hint |-> NoHint, blobs |-> {}]
    /\ run = [r \in ReadRuns |-> NoReader]
PathReadsInit == \E first \in Texts \cup Typed : PathReadsStart(first)

NewestListed == Len(history)
Reads(r, step) == run[r].at = step
EndsRun(r) == run' = [run EXCEPT ![r] = NoReader]
(* What a run carries past its reference: its verb and the pinned commit.   *)
Pins(r, pin) == run' = [run EXCEPT ![r] = [NoReader EXCEPT !.at = "pinned", !.verb = run[r].verb,
                                                   !.from = run[r].from, !.pin = pin]]

-----------------------------------------------------------------------------
(* The reference.  A version the caller typed is looked up (`cat` writes    *)
(* the bytes, `json` the document with the type, `grep` reads a listing);   *)
(* `from` remembers the newest at the start of a run that typed none.       *)

BeginRead(r) ==
    /\ Reads(r, "idle")
    /\ \E verb \in {"cat", "json", "grep"}, typed \in 0 .. MaxTyped :
          run' = [run EXCEPT ![r] =
            [NoReader EXCEPT !.verb = verb, !.record = typed, !.from = IF typed = 0 THEN NewestListed ELSE 0,
                             !.at = IF typed = 0 THEN "head" ELSE "lookup"]]
    /\ UNCHANGED <<history, account>>

(* One v2 `head`, the commit the store keeps sent with it (`v2_head`): a    *)
(* 304 answers the pair kept when it was asked; a 200 is kept in its place  *)
(* once it has come.  No v2, or no number, reads the record and the newest  *)
(* listed version at once.                                                  *)
AskHead(r) ==
    /\ Reads(r, "head")
    /\ run' = [run EXCEPT ![r].at = "asked", ![r].kept = account.head]
    /\ UNCHANGED <<history, account>>

MutKept(r) == account.head
Kept(r) == run[r].kept
HeadNotModified(r) ==
    /\ Reads(r, "asked") /\ run[r].kept = NewestListed
    /\ Pins(r, Kept(r)) /\ UNCHANGED <<history, account>>
HeadNamed(r) ==
    /\ Reads(r, "asked") /\ run[r].kept # NewestListed
    /\ run' = [run EXCEPT ![r].at = "named", ![r].kept = NewestListed]
    /\ UNCHANGED <<history, account>>
KeepHead(r) ==
    /\ Reads(r, "named")
    /\ account' = [account EXCEPT !.head = run[r].kept]
    /\ Pins(r, run[r].kept) /\ UNCHANGED history
HeadAbsent(r) ==
    /\ Reads(r, "asked")
    /\ run' = [run EXCEPT ![r].at = "record", ![r].kept = 0]
    /\ UNCHANGED <<history, account>>

RecordAnswers(r) ==
    /\ Reads(r, "record") /\ run[r].record = 0
    /\ run' = [run EXCEPT ![r].record = NewestListed]
    /\ UNCHANGED <<history, account>>
NewestAnswers(r) ==
    /\ Reads(r, "record") /\ run[r].newest = 0
    /\ run' = [run EXCEPT ![r].newest = NewestListed]
    /\ UNCHANGED <<history, account>>

(* The newest is the reference where the record marks a shared folder, or   *)
(* where it is the record's head; else that head is looked up.              *)
RecordPins(r) ==
    /\ Reads(r, "record") /\ run[r].record # 0 /\ run[r].newest # 0
    /\ \E shared \in BOOLEAN :
          IF shared \/ run[r].newest = run[r].record THEN Pins(r, run[r].newest)
          ELSE run' = [run EXCEPT ![r].at = "lookup", ![r].newest = 0]
    /\ UNCHANGED <<history, account>>
LookUp(r) ==
    /\ Reads(r, "lookup")
    /\ IF run[r].record <= NewestListed THEN Pins(r, run[r].record) ELSE EndsRun(r)
    /\ UNCHANGED <<history, account>>

-----------------------------------------------------------------------------
(* The path, at the pinned version.                                         *)

Standing(r) == history[run[r].pin]

(* A blob admitted is found, or was swept or altered meanwhile: an altered  *)
(* one is removed.                                                          *)
Found(content) == IF content \in account.blobs THEN BOOLEAN ELSE {FALSE}

(* The blob the hint names, verified and held before anything is asked; a   *)
(* content that is no text and of no known type is not asked for by the     *)
(* document that writes its type (`held`, `Policy::want_type`).             *)
MutTypeKnown(r, hint) == TRUE
TypeKnown(r, hint) == run[r].verb = "json" => hint.media # "unknown" \/ hint.sha \in Texts
Asks(r) ==
    LET hint == account.hint
    IN \E found \in Found(hint.sha) :
       /\ Reads(r, "pinned") /\ run[r].verb # "grep"
       /\ run' = [run EXCEPT ![r].at = "sent", ![r].from = 0,
                       ![r].held = IF found /\ TypeKnown(r, hint) THEN hint ELSE NoHint]
       /\ UNCHANGED <<history, account>>

(* A 304 naming the hash sent, or none, answers with what is held; naming   *)
(* another (a cache's) it is no answer, and the path is asked again alone.  *)
Prints(r, content, media) ==
    [run EXCEPT ![r].at = "read", ![r].from = 0, ![r].held = NoHint,
                ![r].bytes = content, ![r].media = media]
MediaOf(hint) == IF hint.media \in {"unknown", "unnamed"} THEN "none" ELSE hint.media
NotModified(r) ==
    /\ Reads(r, "sent") /\ run[r].held # NoHint /\ run[r].held.sha = Standing(r)
    /\ run' = Prints(r, run[r].held.sha, MediaOf(run[r].held))
    /\ UNCHANGED <<history, account>>
NamesAnother(r) ==
    /\ Reads(r, "sent") /\ run[r].held # NoHint /\ run[r].held.sha # Standing(r)
    /\ run' = [run EXCEPT ![r].held = NoHint]
    /\ UNCHANGED <<history, account>>

(* A 200 is checked against its `ETag`, admitted and noted with its type;   *)
(* one without is only printed.                                             *)
BodyAnswers(r) ==
    LET content == Standing(r)
        media == TypeOf(content)
    IN /\ Reads(r, "sent") /\ content # NoContent
       /\ \/ /\ run' = [Prints(r, content, media) EXCEPT ![r].note =
                            [sha |-> content, media |-> IF media = "none" THEN "unnamed" ELSE media]]
             /\ account' = [account EXCEPT !.blobs = @ \cup {content}]
          \/ run' = Prints(r, content, media) /\ UNCHANGED account
       /\ UNCHANGED history
PathRefused(r) ==
    /\ Reads(r, "sent") /\ EndsRun(r)
    /\ UNCHANGED <<history, account>>

(* grep: the blob the listing names, else the file entry's text, which is   *)
(* admitted; either leaves the hash with no type (`get_or_fetch`).          *)
GrepReads(r) ==
    LET content == Standing(r)
    IN /\ Reads(r, "pinned") /\ run[r].verb = "grep" /\ content # NoContent
       /\ \E found \in Found(content) :
          IF found \/ content \in Texts
          THEN /\ run' = [Prints(r, content, "none") EXCEPT ![r].note = [sha |-> content, media |-> "seen"]]
               /\ account' = [account EXCEPT !.blobs = @ \cup {content}]
          ELSE EndsRun(r) /\ UNCHANGED account
       /\ UNCHANGED history

-----------------------------------------------------------------------------
(* The end (`finish`): the hint merged into what other runs left, under the *)
(* store's lock.  A hash merely seen keeps the type of the same hash.       *)

MutMerged(note) ==
    IF note.media # "seen" THEN note ELSE [account.hint EXCEPT !.sha = note.sha]
Merged(note) ==
    IF note.media # "seen" THEN note
    ELSE IF account.hint.sha = note.sha THEN account.hint
    ELSE [note EXCEPT !.media = "unknown"]
FinishRead(r) ==
    /\ Reads(r, "read")
    /\ account' = IF run[r].note = NoHint THEN account
                  ELSE [account EXCEPT !.hint = Merged(run[r].note)]
    /\ EndsRun(r) /\ UNCHANGED history
KilledRead(r) ==
    /\ run[r].at # "idle" /\ EndsRun(r)
    /\ UNCHANGED <<history, account>>

(* Others publish.                                                          *)
Publish ==
    /\ NewestListed < MaxVersions
    /\ \E content \in Texts \cup Typed \cup {NoContent} :
          history' = Append(history, content)
    /\ UNCHANGED <<account, run>>

PathReadsNext ==
    \/ Publish
    \/ \E r \in ReadRuns :
          \/ BeginRead(r) \/ AskHead(r) \/ HeadNotModified(r) \/ HeadNamed(r) \/ KeepHead(r) \/ HeadAbsent(r)
          \/ RecordAnswers(r) \/ NewestAnswers(r) \/ RecordPins(r) \/ LookUp(r)
          \/ Asks(r) \/ NotModified(r) \/ NamesAnother(r) \/ BodyAnswers(r) \/ PathRefused(r)
          \/ GrepReads(r) \/ FinishRead(r) \/ KilledRead(r)

PathReadsSpec == PathReadsInit /\ [][PathReadsNext]_pathReadsVars

-----------------------------------------------------------------------------
(* With no version typed, a run reads at one that was the newest at some    *)
(* moment of the run, whatever heads other runs keep meanwhile.             *)
PinsANewest ==
    \A r \in ReadRuns : Reads(r, "pinned") => run[r].pin >= run[r].from

(* What it writes is what a 200 at that version would have: the same bytes, *)
(* and in the document the same type, whatever hint and blob it was taken   *)
(* from (cat.rs 86 to 87).                                                  *)
WritesAsFresh ==
    \A r \in ReadRuns : run[r].at = "read" =>
        /\ run[r].bytes = Standing(r)
        /\ run[r].verb = "json" => run[r].media = TypeOf(Standing(r))

ReadsAtOnePin == PinsANewest /\ WritesAsFresh
=============================================================================
