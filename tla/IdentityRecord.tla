--------------------------- MODULE IdentityRecord ---------------------------
(***************************************************************************)
(* The identity file of a whole-repository copy (src/repo/syns_yaml.rs,    *)
(* src/push/converge.rs): a retrieval writes one where the repository      *)
(* carries none, and later runs have to tell that record from the person's *)
(* own edit, while the repository gains, changes or drops a file of its    *)
(* own at the same path.                                                   *)
(*                                                                         *)
(* A run is one step up to its send: an edit beside a run, a crash and a   *)
(* lost answer are Convergence's.  A text is the set of its lines.         *)
(***************************************************************************)
EXTENDS Reconcile, Sequences

CONSTANTS
    Id,          \* the path `.syns.yaml`
    Us, Them,    \* the lines naming the copy's repository, or another one
    Texts,       \* what the person or another writer leaves at a path
    MaxVersions, MaxEdits

ASSUME IdentityAssumption ==
    /\ Id \in Paths /\ {Us, Them} \subseteq Nat \ {Marker} /\ Us # Them
    /\ Texts \in [Paths -> SUBSET Content]

VARIABLES files, base, versions, review, send, edited, edits
recordVars == <<files, base, versions, review, send, edited, edits>>

\* `identity_text`: what a retrieval writes.
IdentityText == {Us}
\* `text_names_root_identity`.
NamesUs(text) == text # NoFile /\ Us \in text /\ Them \notin text /\ Marker \notin text

HeadCommit == Len(versions)
TreeAt(n) == IF n = 0 THEN EmptyTree ELSE versions[n]
HeadTree == TreeAt(HeadCommit)

(* The base: the commit recorded, 0 for none, and the tree it names.        *)
NoBase == [commit |-> 0, tree |-> EmptyTree]
NoReview == [head |-> 0, reviewed |-> FALSE]
NoSend == [at |-> "no", parent |-> 0, reference |-> EmptyTree, tree |-> EmptyTree]

RecordStart(tree) ==
    /\ files = EmptyTree /\ base = NoBase /\ versions = <<tree>>
    /\ review = NoReview /\ send = NoSend /\ edited = {} /\ edits = 0
Left == {t \in [Paths -> UNION {Texts[p] : p \in Paths}] : \A p \in Paths : t[p] \in Texts[p]}
RecordInit == \E tree \in Left : RecordStart(tree)

(* A run of this copy starts where the folder names its repository, a       *)
(* marked file read by its local side, or names none.                       *)
Bound == files[Id] # NoFile => NamesUs(files[Id]) \/ {Us, Marker} \subseteq files[Id]
Idle == send.at = "no"
Agree(a, b, paths) == \A p \in paths : a[p] = b[p]

\* `retrieval_wrote_root_identity`.
WroteRecord ==
    /\ base.commit # 0 /\ files[Id] = IdentityText
    /\ HeadTree[Id] \in {NoFile, files[Id]} \/ NamesUs(HeadTree[Id])

\* `held_root_identity`.
HeldRecord == base.commit # 0 /\ base.tree[Id] = NoFile /\ files[Id] = IdentityText

HeadReplaces == files[Id] # NoFile /\ HeadTree[Id] \notin {NoFile, files[Id]}

\* `holds_root_identity`.
RetrievalHolds ==
    files[Id] # NoFile /\ ~(HeadReplaces /\ (base.tree[Id] = files[Id] \/ WroteRecord))

(* `publication_holds_root_identity`, past the commit and tree compared.    *)
(* Mutant: never.                                                           *)
MutPublicationHolds(commit, tree) == FALSE
PublicationHolds(commit, tree) ==
    /\ HeldRecord /\ HeadCommit \notin {0, commit}
    /\ tree[Id] = NoFile /\ HeadTree[Id] = NoFile

(* `recorded_entries`: a held file neither side names keeps the base's      *)
(* entry.                                                                   *)
Recorded(hold, prior) ==
    IF hold /\ prior.commit # 0 /\ files[Id] \notin {HeadTree[Id], prior.tree[Id]}
    THEN [HeadTree EXCEPT ![Id] = prior.tree[Id]] ELSE HeadTree

Seen(hold) == IF hold THEN Paths \ {Id} ELSE Paths
RecordsBase(entries) == base' = [commit |-> HeadCommit, tree |-> entries]

\* A path is the person's no longer once the base names what it holds.
StillEdited == edited' = {p \in edited : files'[p] # base'.tree[p]}

(* `prepare_candidate` over the base handed in: what only the head changed  *)
(* is written, what both changed merged; local work under a publication and *)
(* a collision wait for a review.  A refused send forces one only where     *)
(* local work stands, which a publication's does already.  Mutant of the    *)
(* base compared: any file the head names otherwise gives way.              *)
MutComparedBase(hold, from) ==
    IF ~hold /\ HeadReplaces THEN [from EXCEPT ![Id] = files[Id]] ELSE from
ComparedBase(hold, from) ==
    IF ~hold /\ WroteRecord /\ HeadReplaces THEN [from EXCEPT ![Id] = files[Id]] ELSE from
MergesOf(from, p) ==
    {MarkedMerge(TextOf(from[p]), files[p], HeadTree[p])} \cup
        (IF from[p] = NoFile THEN {} ELSE {CleanMerge(from[p], files[p], HeadTree[p])})
Merged(from, hold) ==
    LET taken == RemoteOnly(from, files, HeadTree) \cup DeleteModify(from, files, HeadTree)
        both  == BothHold(from, files, HeadTree)
        answers(p) == IF p \notin Seen(hold) THEN {files[p]}
                      ELSE IF p \in taken THEN {HeadTree[p]}
                      ELSE IF p \in both THEN MergesOf(from, p) ELSE {files[p]}
    IN {t \in [Paths -> UNION {answers(p) : p \in Paths}] : \A p \in Paths : t[p] \in answers(p)}

Prepare(publishing, prior, hold, standing) ==
    LET from  == ComparedBase(hold, prior.tree)
        ours == LocalOnly(from, files, HeadTree) \cap Seen(hold)
        clash == Collisions(from, files, HeadTree) \cap Seen(hold)
    IN /\ files' \in Merged(from, hold)
       /\ IF (publishing /\ ours # {}) \/ clash # {} \/ standing
          THEN review' = [head |-> HeadCommit, reviewed |-> FALSE] /\ UNCHANGED base
          ELSE RecordsBase(Recorded(hold, prior)) /\ review' = NoReview
       /\ StillEdited /\ send' = NoSend

-----------------------------------------------------------------------------
(* The runs.                                                                *)

\* `write_syns_yaml_where_none_stands`, at the root the run stands at.
WritesRecord(tree) == IF tree[Id] = NoFile THEN [tree EXCEPT ![Id] = IdentityText] ELSE tree

\* Step 8: the folder holds the head already.
Matches(hold) == Agree(files, HeadTree, Seen(hold))
AdoptsHead(hold) ==
    /\ UNCHANGED <<files, review, send>>
    /\ IF base.commit # HeadCommit \/ ~Agree(base.tree, HeadTree, Seen(hold))
       THEN RecordsBase(Recorded(hold, base)) ELSE UNCHANGED base
    /\ StillEdited
\* Step 9: the head is where the base is.
AtHead(hold) ==
    /\ HeadCommit = base.commit /\ Agree(base.tree, HeadTree, Seen(hold) \cup {Id})
    /\ ~(WroteRecord /\ HeadReplaces)

\* Step 7: the folder made to hold the head, but for a record held out.
TakesHead(hold) ==
    /\ files' = IF hold THEN [HeadTree EXCEPT ![Id] = files[Id]] ELSE HeadTree
    /\ RecordsBase(Recorded(hold, base)) /\ review' = NoReview
    /\ StillEdited /\ UNCHANGED send

(* `syns pull`, a repository named: the convergence, then the record where  *)
(* no identity file stands.                                                 *)
Retrieve(overwrite) ==
    LET hold == RetrievalHolds
    IN IF review.head # 0 /\ ~overwrite THEN FALSE
       ELSE IF overwrite /\ (~Matches(hold) \/ review.head # 0) THEN TakesHead(hold)
       ELSE IF Matches(hold) THEN AdoptsHead(hold)
       ELSE IF AtHead(hold) THEN FALSE
       ELSE Prepare(FALSE, base, hold, FALSE)
Pull(overwrite) ==
    /\ Idle /\ Bound /\ Retrieve(overwrite) /\ UNCHANGED <<versions, edits>>
WriteIdentity ==
    /\ Idle /\ review.head = 0 /\ base.commit # 0 /\ files[Id] = NoFile /\ Id \notin edited
    /\ files' = WritesRecord(files)
    /\ UNCHANGED <<base, versions, review, send, edited, edits>>

(* `syns sync` and a bare `syns push`: a marked identity file refused.      *)
OpenSend(parent, reference) ==
    /\ send' = [at |-> "sent", parent |-> parent, reference |-> reference, tree |-> files]
    /\ UNCHANGED <<files, base, review, edited>>
Publish ==
    /\ Idle /\ review.head = 0 /\ NamesUs(files[Id])
    /\ LET hold == PublicationHolds(base.commit, base.tree)
       IN IF Matches(hold) THEN AdoptsHead(hold)
          ELSE IF AtHead(hold) THEN OpenSend(base.commit, base.tree)
          ELSE Prepare(TRUE, base, hold, FALSE)
    /\ UNCHANGED <<versions, edits>>

\* `syns resolution continue`, nothing marked left.
Continue ==
    /\ Idle /\ review.head # 0 /\ NamesUs(files[Id]) /\ \A p \in Paths : ~HoldsMarker(files[p])
    /\ send' = [at |-> "sent", parent |-> review.head, reference |-> TreeAt(review.head), tree |-> files]
    /\ review' = [review EXCEPT !.reviewed = TRUE]
    /\ UNCHANGED <<files, base, versions, edited, edits>>

Lands ==
    /\ send.at = "sent" /\ HeadCommit = send.parent /\ HeadCommit < MaxVersions
    /\ versions' = Append(versions, send.tree)
    /\ base' = [commit |-> HeadCommit + 1, tree |-> send.tree]
    /\ review' = NoReview /\ send' = NoSend
    /\ edited' = {p \in edited : files[p] # send.tree[p]}
    /\ UNCHANGED <<files, edits>>

(* `take_in_disjoint_move`: the reviewed work and the move share no path,   *)
(* and neither names the identity file.                                     *)
Moved == Changed(send.reference, HeadTree)
Disjoint ==
    /\ review.reviewed /\ Id \notin Changed(send.reference, send.tree) \cup Moved
    /\ Changed(send.reference, send.tree) \cap Moved = {}
TakeIn ==
    /\ send.at = "sent" /\ HeadCommit # send.parent /\ Disjoint
    /\ files' = [p \in Paths |-> IF p \in Moved THEN HeadTree[p] ELSE files[p]]
    /\ review' = [review EXCEPT !.head = HeadCommit]
    /\ send' = [at |-> "sent", parent |-> HeadCommit, reference |-> HeadTree,
                tree |-> [p \in Paths |-> IF p \in Moved THEN HeadTree[p] ELSE send.tree[p]]]
    /\ UNCHANGED <<base, versions, edited, edits>>

(* `guard_refused`: prepared again over the newest head, the refused parent *)
(* standing as the base.                                                    *)
Refused ==
    /\ send.at = "sent" /\ HeadCommit # send.parent /\ ~Disjoint
    /\ LET prior == [commit |-> send.parent, tree |-> send.reference]
           hold  == PublicationHolds(send.parent, send.reference)
       IN Prepare(TRUE, prior, hold, review.head # 0)
    /\ UNCHANGED <<versions, edits>>

-----------------------------------------------------------------------------
(* The person, in their folder, and another writer of the repository.       *)
Edit ==
    /\ Idle /\ edits < MaxEdits /\ edits' = edits + 1
    /\ \E p \in Paths : \E text \in Texts[p] \ {files[p]} :
         /\ files' = [files EXCEPT ![p] = text]
         /\ edited' = IF base.tree[p] = text /\ review.head = 0 THEN edited \ {p} ELSE edited \cup {p}
    /\ UNCHANGED <<base, versions, review, send>>
OtherWrites ==
    /\ HeadCommit < MaxVersions
    /\ \E p \in Paths : \E text \in Texts[p] \ {HeadTree[p]} :
         versions' = Append(versions, [HeadTree EXCEPT ![p] = text])
    /\ UNCHANGED <<files, base, review, send, edited, edits>>

RecordNext ==
    \/ Pull(FALSE) \/ Pull(TRUE) \/ WriteIdentity \/ Publish \/ Continue \/ Lands \/ TakeIn \/ Refused
    \/ Edit \/ OtherWrites

RecordSpec == RecordInit /\ [][RecordNext]_recordVars

-----------------------------------------------------------------------------
(* The record a retrieval wrote is no local work.  While the base names the *)
(* record or no file and the head names no other repository, a run with     *)
(* nothing edited stops for no review over it; and no publication puts it   *)
(* where the head it claims carries this repository's own file, dropping    *)
(* the checks that file declares (converge.rs                               *)
(* `retrieval_wrote_root_identity`, `publication_holds_root_identity`).     *)
Ours(text) == text # NoFile => NamesUs(text)
RecordIsNoWork ==
    [][/\ (files[Id] = IdentityText /\ base.commit # 0 /\ edited = {} /\ review.head = 0)
            => (base.tree[Id] \in {NoFile, files[Id]} /\ Ours(HeadTree[Id]) => review'.head = 0)
       /\ (Lands /\ Id \notin edited /\ send.tree[Id] = IdentityText)
            => (NamesUs(send.reference[Id]) => send.reference[Id] = IdentityText)]_recordVars

(* A person's edit of the identity file stands through every run, in the    *)
(* folder or under a review, but where the person asks for the head or the  *)
(* edit leaves the very text a retrieval writes.                            *)
EditStands ==
    [][edits' = edits /\ Id \in edited /\ files'[Id] # files[Id]
         => files[Id] = IdentityText \/ review'.head # 0 \/ Pull(TRUE)]_recordVars

(* What a run promises of the identity file: converge.rs 1646 to 1780.      *)
IdentityFileStands == RecordIsNoWork /\ EditStands
=============================================================================
