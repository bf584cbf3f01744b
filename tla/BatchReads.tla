----------------------------- MODULE BatchReads -----------------------------
(***************************************************************************)
(* `POST .../read` in chunks (src/read/batch.rs, under the budgets of      *)
(* src/read/v2.rs) and the sink of `syns cat --json` (src/read/files.rs):  *)
(* the asks of one run packed in order, several chunks open at once, each  *)
(* frame handed on as it arrives, a chunk resent for what it still lacks,  *)
(* a path answered `too_large` asked once more in a later chunk.           *)
(*                                                                         *)
(* An ask is a distinct path by its number.  Frames are classed by what    *)
(* the sink does with them; their bytes, hashes and line format are left   *)
(* out.  The server, its head and the limits it packs an answer under are  *)
(* external.                                                               *)
(***************************************************************************)
EXTENDS ReadBudget

CONSTANTS
    BatchModes,     \* how the run's caller asks: see CatModes and FetchModes
    ChunkPaths,     \* the most paths of one chunk
    BatchAttempts,  \* sends of a chunk with no progress before it gives up
    MaxHead         \* bound: commits the head moves to during the run

ASSUME BatchAssumption ==
    ChunkPaths \in Nat \ {0} /\ BatchAttempts \in Nat \ {0} /\ MaxHead \in Nat \ {0}

VARIABLE batch
batchVars == <<batch>>

(* `syns cat --json`, at `head` or at a resolved commit: a chunk that gives *)
(* up stops nothing else, and a budget opens one chunk at a time.           *)
CatModes(inFlight, budgets) ==
    {[pinned |-> p, keepGoing |-> TRUE, budget |-> b,
      inFlight |-> IF b = NoBudget THEN inFlight ELSE 1] : p \in BOOLEAN, b \in budgets}
(* A convergence's, a changeset's and `syns diff`'s reads at one commit.    *)
FetchModes(inFlight) ==
    {[pinned |-> TRUE, keepGoing |-> FALSE, budget |-> NoBudget, inFlight |-> inFlight]}

Unpinned == 0

(* `pack`: the asks in order, cut where one of a chunk's limits is met.     *)
Packings(asks) ==
    LET n == Len(asks)
        ends(cuts, i) == Min({c \in cuts : c > i})
        chunk(cuts, i) == SubSeq(asks, i + 1, ends(cuts, i))
        starts(cuts) == {0} \cup {c \in cuts : c < n}
        fits(cuts) == \A i \in starts(cuts) : Len(chunk(cuts, i)) <= ChunkPaths
    IN IF n = 0 THEN {<<>>}
       ELSE {[k \in 1 .. Cardinality(cuts) |->
                 chunk(cuts, SetToSortSeq(starts(cuts), <)[k])]
               : cuts \in {c \cup {n} : c \in {c \in SUBSET (1 .. n - 1) : fits(c \cup {n})}}}

Chunk(asks) ==
    [left |-> asks, again |-> <<>>, from |-> Unpinned, progress |-> FALSE,
     failures |-> 0, end |-> "open"]

BatchStart(mode, queue) ==
    [mode |-> mode, at |-> IF mode.pinned THEN 1 ELSE Unpinned, queue |-> queue,
     running |-> <<>>, second |-> {}, again |-> <<>>, failed |-> {},
     handed |-> [i \in Paths |-> <<>>], sizes |-> <<>>, header |-> Unpinned,
     stopped |-> FALSE, error |-> FALSE, ended |-> queue = <<>>, head |-> 1]

BatchInit ==
    \E mode \in BatchModes, queue \in Packings([i \in Paths |-> i]) :
       batch = BatchStart(mode, queue)

-----------------------------------------------------------------------------
(* Chunks open in order, the first of an unpinned run alone.                *)

InFlight == IF batch.at = Unpinned THEN 1 ELSE batch.mode.inFlight

OpenChunk ==
    /\ ~batch.ended /\ batch.queue # <<>>
    /\ Len(batch.running) < InFlight /\ ~batch.error /\ ~batch.stopped
    /\ batch' = [batch EXCEPT !.running = Append(@, Chunk(batch.queue[1])),
                              !.queue = Tail(@)]

(* The header of an answer: the commit asked, or the head as it stands.     *)
Header(k) ==
    /\ batch.running[k].end = "open" /\ batch.running[k].from = Unpinned
    /\ batch' = [batch EXCEPT !.running[k].from =
                     IF batch.at = Unpinned THEN batch.head ELSE batch.at]

(* What the sink makes of a frame: read, to be read alone (`too_large`      *)
(* twice, or `unchanged` with the stored blob gone), or the path's failure. *)
FrameKinds == {"read", "alone", "failed"}

(* `gave_up` and `admit` report to the ledger of a run with a budget.       *)
Reported(b, i, size) ==
    IF b.mode.budget = NoBudget THEN b ELSE [b EXCEPT !.sizes = Report(@, i, size)]
Admits(b, i) == FirstPlace(i) < CutAt(b.sizes, b.mode.budget)

HandedOn(b, k, i, kind) ==
    [b EXCEPT !.handed[i] = Append(@, [kind |-> kind, at |-> b.running[k].from]),
              !.running[k].left = Tail(@), !.running[k].progress = TRUE]
(* Mutant: the ask stays among those the chunk still lacks.                 *)
MutPutOff(b, k, i) ==
    [b EXCEPT !.running[k].left = Append(Tail(@), i), !.running[k].again = Append(@, i),
              !.running[k].progress = TRUE]
PutOff(b, k, i) ==
    [b EXCEPT !.running[k].left = Tail(@), !.running[k].again = Append(@, i),
              !.running[k].progress = TRUE]

Frame(k) ==
    LET chunk == batch.running[k]
        i == chunk.left[1]
        there == Reported(batch, i, SizeOf[i])
        gone == Reported(batch, i, 0)
    IN /\ chunk.end = "open" /\ chunk.from # Unpinned /\ chunk.left # <<>>
       /\ \/ /\ ~Admits(there, i)
             /\ batch' = [there EXCEPT !.running[k].end = "stopped"]
          \/ /\ Admits(there, i)
             /\ \/ \E kind \in FrameKinds : batch' = HandedOn(there, k, i, kind)
                \/ i \notin batch.second /\ batch' = PutOff(there, k, i)
          \/ Admits(gone, i) /\ batch' = HandedOn(gone, k, i, "failed")

(* A send with no answer, or cut: resent for what is left, at no cost after *)
(* a frame, and otherwise until its sends or its time are spent.            *)
Cut(k) ==
    LET chunk == batch.running[k]
        failures == chunk.failures + 1
        resent == [chunk EXCEPT !.from = Unpinned, !.progress = FALSE]
    IN /\ chunk.end = "open" /\ chunk.left # <<>>
       /\ \/ chunk.progress /\ batch' = [batch EXCEPT !.running[k] = resent]
          \/ /\ ~chunk.progress /\ failures < BatchAttempts
             /\ batch' = [batch EXCEPT !.running[k] = [resent EXCEPT !.failures = failures]]
          \/ ~chunk.progress /\ batch' = [batch EXCEPT !.running[k].end = "gave up"]

(* A refusal, a frame for another path, a wait past its budget, or a frame  *)
(* the sink refuses: not sent again.                                        *)
Refuse(k) ==
    /\ batch.running[k].end = "open" /\ batch.running[k].left # <<>>
    /\ batch' = [batch EXCEPT !.running[k].end = "gave up"]

(* Mutant: the asks a chunk gave up on are never reported.                  *)
MutGaveUp(b, asks) == b
GaveUp(b, asks) == FoldSeq(LAMBDA i, acc : Reported(acc, i, 0), b, asks)

Over(chunk) == chunk.end # "open" \/ (chunk.left = <<>> /\ chunk.from # Unpinned)

(* The first chunk of an unpinned run: its header pins the rest, which no   *)
(* answer would have named where it gave up.                                *)
JoinFirst ==
    LET chunk == batch.running[1]
        joined == [batch EXCEPT !.running = <<>>]
    IN /\ batch.at = Unpinned /\ batch.running # <<>> /\ Over(chunk)
       /\ \/ /\ chunk.end # "gave up"
             /\ \E more \in Packings(chunk.again) :
                  batch' = [joined EXCEPT !.at = chunk.from, !.header = chunk.from,
                                          !.stopped = chunk.end = "stopped",
                                          !.second = ToSet(chunk.again), !.queue = @ \o more]
          \/ /\ chunk.end = "gave up" /\ batch.mode.keepGoing
             /\ batch' = [GaveUp(joined, chunk.left) EXCEPT
                             !.failed = ToSet(chunk.left) \cup ToSet(FlattenSeq(batch.queue)),
                             !.queue = <<>>, !.ended = TRUE]

Join(k) ==
    LET chunk == batch.running[k]
        joined == [batch EXCEPT !.running = RemoveAt(@, k), !.again = @ \o chunk.again]
    IN /\ batch.at # Unpinned /\ Over(chunk)
       /\ \/ /\ chunk.end # "gave up"
             /\ batch' = [joined EXCEPT !.stopped = @ \/ chunk.end = "stopped",
                                        !.header = IF @ = Unpinned THEN chunk.from ELSE @]
          \/ /\ chunk.end = "gave up" /\ batch.mode.keepGoing
             /\ batch' = [GaveUp(joined, chunk.left) EXCEPT !.failed = @ \cup ToSet(chunk.left)]
          \/ /\ chunk.end = "gave up" /\ ~batch.mode.keepGoing
             /\ batch' = [joined EXCEPT !.error = TRUE]

(* Every chunk of the wave is in: the put-off asks go in chunks of their    *)
(* own, unless the run failed or was stopped.                               *)
WaveEnds ==
    /\ ~batch.ended /\ batch.at # Unpinned /\ batch.running = <<>>
    /\ batch.queue = <<>> \/ batch.error \/ batch.stopped
    /\ \E more \in Packings(batch.again) :
         batch' = [batch EXCEPT !.second = @ \cup ToSet(batch.again), !.again = <<>>,
                                !.queue = @ \o more,
                                !.ended = more = <<>> \/ batch.error \/ batch.stopped]

(* Another writer's commit, while the head is what an answer would name.    *)
HeadMoves ==
    /\ ~batch.ended /\ batch.at = Unpinned /\ batch.head < MaxHead
    /\ batch' = [batch EXCEPT !.head = @ + 1]

BatchNext ==
    \/ OpenChunk \/ JoinFirst \/ WaveEnds \/ HeadMoves
    \/ \E k \in DOMAIN batch.running : Header(k) \/ Frame(k) \/ Cut(k) \/ Refuse(k) \/ Join(k)

BatchSpec == BatchInit /\ [][BatchNext]_batchVars

-----------------------------------------------------------------------------
Handed(i) == batch.handed[i] # <<>>

(* `deferred` and `NotRun` places aside, what the answer holds of a path.   *)
Answered(i) ==
    Handed(i) /\ batch.handed[i][1].kind # "failed"
      /\ FirstPlace(i) < CutAt(batch.sizes, batch.mode.budget)

(* Whatever is cut, resent, put off or given up, an ask reaches the sink at *)
(* most once, and a run at one commit that neither failed nor stopped has   *)
(* answered each ask or named it among those that gave up, never both       *)
(* (batch.rs 1 to 11 and 435 to 450).                                       *)
EachAskOnce ==
    /\ \A i \in Paths : Len(batch.handed[i]) <= 1
    /\ (batch.ended /\ batch.mode.pinned /\ ~batch.error /\ ~batch.stopped) =>
         \A i \in Paths : Handed(i) <=> i \notin batch.failed

(* Under `--max-bytes` at one commit, the files an answer holds, a path     *)
(* counted at every place before the cut, never pass the budget, whichever  *)
(* chunks gave up on the way (files.rs 655 to 700).                         *)
AnswerWithinBudget ==
    (batch.ended /\ batch.mode.pinned /\ batch.mode.budget # NoBudget) =>
      LET cut == CutAt(batch.sizes, batch.mode.budget)
          size(place) == IF Places[place] # NotAsked /\ Answered(Places[place])
                         THEN SizeOf[Places[place]] ELSE 0
      IN FoldSet(LAMBDA place, acc : acc + size(place), 0, 1 .. cut - 1) <= batch.mode.budget

(* What a batched read promises of its asks: batch.rs 1 to 11, files.rs 655 *)
(* to 700.                                                                  *)
AskedOnceWithinBudget == EachAskOnce /\ AnswerWithinBudget

(* main.rs 178: "View one file's content, or many files' at one commit".    *)
ReadAtOneCommit ==
    batch.ended => \A i \in Paths :
        Answered(i) /\ batch.header # Unpinned => batch.handed[i][1].at = batch.header
=============================================================================
