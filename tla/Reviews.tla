------------------------------ MODULE Reviews ------------------------------
(***************************************************************************)
(* One review per path across every working copy of a holder that stands   *)
(* over the same files (src/push/converge.rs, `review_lock` to             *)
(* `resolution_elsewhere`): the holder's checkout and the folder copies    *)
(* inside it, which share the files on disk and the holder on the server,  *)
(* and keep each a base and a resolution of its own.                       *)
(*                                                                         *)
(* Content stands for its hash; a collision's merged text holds its        *)
(* markers, and is Marked.  A pass is cut here where another copy's run    *)
(* can meet it; what it does between is the module Convergence's.  The     *)
(* folder forms stand before the runs begin, so every copy finds every     *)
(* other.  A path that is not there holds the content Absent.              *)
(***************************************************************************)
EXTENDS Naturals, Sequences

CONSTANTS CopyNames, Covers,   \* the copies, and the paths each stands over
          Texts, Marked,       \* contents, and the text with markers
          MaxMoves,            \* bound: edits of the person and commits of others
          MaxTrees          \* bound: commits of the holder

Unheld == "unheld"
ASSUME ReviewsAssumption ==
    /\ Marked \notin Texts /\ Unheld \notin CopyNames
    /\ {MaxMoves, MaxTrees} \subseteq Nat

VARIABLES trees, onDisk, copies, reviewLock, passes, moves
reviewsVars == <<trees, onDisk, copies, reviewLock, passes, moves>>

Spans(c) == Covers[c]
AllPaths == UNION {Covers[c] : c \in CopyNames}
NoReview == [names |-> {}, raised |-> {}, collided |-> {}, head |-> 0,
             pending |-> FALSE, accepted |-> <<>>, prior |-> <<>>]
NoPass == [at |-> "idle", publishing |-> FALSE, files |-> <<>>, base |-> 0, head |-> 0]

ReviewsStart(first) ==
    /\ trees = <<first>> /\ onDisk = first
    /\ copies = [c \in CopyNames |-> [base |-> 1, review |-> NoReview]]
    /\ reviewLock = Unheld
    /\ passes = [c \in CopyNames |-> NoPass]
    /\ moves = 0
ReviewsInit == \E k \in Texts : ReviewsStart([p \in AllPaths |-> k])

Newest == Len(trees)
PutOver(f, g) == [p \in DOMAIN f \cup DOMAIN g |-> IF p \in DOMAIN f THEN f[p] ELSE g[p]]
Under(c, files) == [p \in Spans(c) |-> files[p]]
Reviewing(c) == copies[c].review # NoReview
Named(c) == copies[c].review.names \cup copies[c].review.raised
Goes(c, at) == passes' = [passes EXCEPT ![c].at = at]
EndPass(c) == passes' = [passes EXCEPT ![c] = NoPass]

(* The three-way comparison of a pass: of the base, the collected folder    *)
(* and the head, by path.                                                   *)
Local(c) == {p \in Spans(c) : passes[c].files[p] # trees[passes[c].base][p]}
Remote(c) == {p \in Spans(c) : trees[passes[c].head][p] # trees[passes[c].base][p]}
Agreed(c) == {p \in Spans(c) : passes[c].files[p] = trees[passes[c].head][p]}
Collisions(c) == (Local(c) \cap Remote(c)) \ Agreed(c)
Brought(c) == (Local(c) \cup Remote(c)) \ Agreed(c)
Aim(c, p) == IF p \in Collisions(c) THEN Marked ELSE trees[passes[c].head][p]
Rewritten(c) == (Remote(c) \ Agreed(c))

(* Where the pass goes on to write a resolution.                            *)
IsResolving(c) ==
    \/ Reviewing(c) \/ Collisions(c) # {}
    \/ passes[c].publishing /\ Local(c) \ Agreed(c) # {}

(* A copy's review, its writes made, its files accepted, further paths      *)
(* raised by a publication handed back.                                     *)
ReviewWritten(c) == [copies[c].review EXCEPT !.pending = FALSE]
ReviewAccepted(c, files) == [copies[c].review EXCEPT !.accepted = files]
ReviewRaised(c, changed) == [copies[c].review EXCEPT !.raised = @ \cup changed, !.accepted = <<>>]

HoldsNone(c, ours) == \A d \in CopyNames \ {c} : Named(d) \cap ours = {}

-----------------------------------------------------------------------------
(* A run, from the collection to the head it compares (`converge_locked`).  *)
(* A run meeting a resolution finishes its writes, publishes it where it is *)
(* accepted, or else answers it.                                            *)

Pass(c, at, publishing) ==
    [at |-> at, publishing |-> publishing, files |-> Under(c, onDisk), base |-> copies[c].base,
     head |-> 0]

BeginRun(c) ==
    /\ passes[c] = NoPass
    /\ \E publishing \in BOOLEAN :
          \/ /\ ~Reviewing(c) \/ copies[c].review.pending
             /\ passes' = [passes EXCEPT ![c] = Pass(c, "collected", publishing)]
          \/ /\ publishing /\ ~copies[c].review.pending /\ copies[c].review.accepted # <<>>
             /\ passes' = [passes EXCEPT ![c] = Pass(c, "sends", TRUE)]
    /\ UNCHANGED <<trees, onDisk, copies, reviewLock, moves>>

CompareHead(c) ==
    /\ passes[c].at = "collected"
    /\ passes' = [passes EXCEPT ![c].head = Newest, ![c].at = "read"]
    /\ UNCHANGED <<trees, onDisk, copies, reviewLock, moves>>

(* The head is the base: nothing to retrieve, or the folder is sent as it   *)
(* stands.                                                                  *)
AtBase(c) ==
    /\ passes[c].at = "read" /\ passes[c].head = copies[c].base /\ ~Reviewing(c)
    /\ IF passes[c].publishing THEN Goes(c, "sends") ELSE EndPass(c)
    /\ UNCHANGED <<trees, onDisk, copies, reviewLock, moves>>

-----------------------------------------------------------------------------
(* A preparation (`prepare_candidate`): where it resolves, the holder's     *)
(* review lock is taken, the other copies' resolutions are read, and its    *)
(* own is written before the lock is let go.                                *)

PastBase(c) == passes[c].at = "read" /\ (passes[c].head # copies[c].base \/ Reviewing(c))

(* Mutant: another copy's lock is passed over.                              *)
MutTakeReviewLock(c) ==
    /\ PastBase(c) /\ IsResolving(c)
    /\ reviewLock' = c
    /\ Goes(c, "locked")
    /\ UNCHANGED <<trees, onDisk, copies, moves>>
TakeReviewLock(c) ==
    /\ PastBase(c) /\ IsResolving(c)
    /\ reviewLock = Unheld /\ reviewLock' = c
    /\ Goes(c, "locked")
    /\ UNCHANGED <<trees, onDisk, copies, moves>>

(* `resolution_elsewhere`: the resolution of another copy answers the run.  *)
ReadElsewhere(c) ==
    /\ passes[c].at = "locked"
    /\ IF HoldsNone(c, Brought(c) \cup copies[c].review.names) THEN Goes(c, "prepares") /\ UNCHANGED reviewLock
       ELSE EndPass(c) /\ reviewLock' = Unheld
    /\ UNCHANGED <<trees, onDisk, copies, moves>>

ReviewPrepared(c) ==
    [copies[c].review EXCEPT !.names = @ \cup Brought(c), !.collided = @ \cup Collisions(c),
        !.head = passes[c].head, !.pending = TRUE, !.accepted = <<>>,
        !.prior = PutOver(@, [p \in Rewritten(c) |-> passes[c].files[p]])]
WriteReview(c) ==
    /\ passes[c].at = "prepares"
    /\ copies' = [copies EXCEPT ![c].review = ReviewPrepared(c)]
    /\ Goes(c, "writes") /\ reviewLock' = Unheld
    /\ UNCHANGED <<trees, onDisk, moves>>

PrepareNoReview(c) ==
    /\ PastBase(c) /\ ~IsResolving(c)
    /\ Goes(c, "writes")
    /\ UNCHANGED <<trees, onDisk, copies, reviewLock, moves>>

(* The folder writes, each path only where it still holds what was          *)
(* collected; a path that does not starts another pass.  Without a          *)
(* resolution the head becomes the base.                                    *)
WriteFolder(c) ==
    /\ passes[c].at = "writes"
    /\ LET met == {p \in Rewritten(c) : onDisk[p] = passes[c].files[p]}
       IN /\ onDisk' = [p \in AllPaths |-> IF p \in met THEN Aim(c, p) ELSE onDisk[p]]
          /\ IF met # Rewritten(c)
             THEN /\ passes' = [passes EXCEPT ![c].at = "collected", ![c].files = Under(c, onDisk')]
                  /\ UNCHANGED copies
             ELSE /\ EndPass(c)
                  /\ copies' = IF Reviewing(c) THEN [copies EXCEPT ![c].review = ReviewWritten(c)]
                               ELSE [copies EXCEPT ![c].base = passes[c].head]
    /\ UNCHANGED <<trees, reviewLock, moves>>

-----------------------------------------------------------------------------
(* A review accepted and published (`continue`, `publish_reviewed`), or the *)
(* folder sent with none.                                                   *)

ContinueReview(c) ==
    /\ passes[c] = NoPass /\ Reviewing(c) /\ ~copies[c].review.pending
    /\ copies' = [copies EXCEPT ![c].review = ReviewAccepted(c, Under(c, onDisk))]
    /\ passes' = [passes EXCEPT ![c] = Pass(c, "sends", TRUE)]
    /\ UNCHANGED <<trees, onDisk, reviewLock, moves>>

Refusals(c) ==
    LET review == copies[c].review
        changed == {p \in Spans(c) : review.accepted[p] # passes[c].files[p]}
    IN \/ /\ changed # {}
          /\ copies' = [copies EXCEPT ![c].review = ReviewRaised(c, changed)]
       \/ /\ changed = {} /\ UNCHANGED copies
          /\ \E p \in review.collided : passes[c].files[p] = Marked

HandBack(c) ==
    /\ passes[c].at = "sends" /\ Reviewing(c)
    /\ Refusals(c) /\ EndPass(c)
    /\ UNCHANGED <<trees, onDisk, reviewLock, moves>>

Send(c) ==
    LET review == copies[c].review
        files == passes[c].files
        parent == IF Reviewing(c) THEN review.head ELSE copies[c].base
        sent == [p \in AllPaths |-> IF p \in Spans(c) THEN files[p] ELSE trees[Newest][p]]
    IN /\ passes[c].at = "sends"
       /\ Reviewing(c) => /\ review.accepted = files
                          /\ \A p \in review.collided : files[p] # Marked
       /\ IF parent = Newest
          THEN /\ sent # trees[Newest] => Newest < MaxTrees
               /\ trees' = IF sent = trees[Newest] THEN trees ELSE Append(trees, sent)
               /\ copies' = [copies EXCEPT ![c] = [base |-> Len(trees'), review |-> NoReview]]
               /\ EndPass(c)
          ELSE \* refused: the recomputation over the refused parent (`guard_refused`)
               /\ copies' = [copies EXCEPT ![c].review = ReviewAccepted(c, <<>>)]
               /\ passes' = [passes EXCEPT ![c] = [Pass(c, "collected", TRUE) EXCEPT !.base = parent]]
               /\ UNCHANGED trees
       /\ UNCHANGED <<onDisk, reviewLock, moves>>

(* A run killed: its locks go with its process.                             *)
Killed(c) ==
    /\ passes[c] # NoPass /\ EndPass(c)
    /\ reviewLock' = IF reviewLock = c THEN Unheld ELSE reviewLock
    /\ UNCHANGED <<trees, onDisk, copies, moves>>

(* `discard_resolution`: the folder is put back as the review found it.     *)
DiscardReview(c) ==
    /\ passes[c] = NoPass /\ Reviewing(c)
    /\ copies' = [copies EXCEPT ![c].review = NoReview]
    /\ onDisk' = PutOver(copies[c].review.prior, onDisk)
    /\ UNCHANGED <<trees, reviewLock, passes, moves>>

PersonEdits ==
    /\ moves < MaxMoves /\ moves' = moves + 1
    /\ \E p \in AllPaths, k \in Texts : onDisk[p] # k /\ onDisk' = [onDisk EXCEPT ![p] = k]
    /\ UNCHANGED <<trees, copies, reviewLock, passes>>
OthersMove ==
    /\ moves < MaxMoves /\ moves' = moves + 1
    /\ \E p \in AllPaths, k \in Texts :
          Newest < MaxTrees /\ trees[Newest][p] # k /\ trees' = Append(trees, [trees[Newest] EXCEPT ![p] = k])
    /\ UNCHANGED <<onDisk, copies, reviewLock, passes>>

ReviewsNext ==
    \/ PersonEdits \/ OthersMove
    \/ \E c \in CopyNames :
          \/ BeginRun(c) \/ CompareHead(c) \/ AtBase(c) \/ TakeReviewLock(c) \/ ReadElsewhere(c)
          \/ WriteReview(c) \/ PrepareNoReview(c) \/ WriteFolder(c) \/ ContinueReview(c)
          \/ HandBack(c) \/ Send(c) \/ Killed(c) \/ DiscardReview(c)

ReviewsSpec == ReviewsInit /\ [][ReviewsNext]_reviewsVars

-----------------------------------------------------------------------------
(* No two copies over the same files hold a review prepared over one path:  *)
(* whichever prepares second meets the first's, which the review lock holds *)
(* from the reading of the others' to the writing of its own.  The paths a  *)
(* later publication hands back are not counted: it asks no other copy.     *)
OneReviewPerPath ==
    \A c, d \in CopyNames :
        c # d => copies[c].review.names \cap copies[d].review.names = {}
=============================================================================
