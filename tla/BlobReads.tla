----------------------------- MODULE BlobReads ------------------------------
(***************************************************************************)
(* The raw reads of a convergence from a server without views              *)
(* (src/push/converge.rs, read_blobs, read_base_blobs and read_one): tasks *)
(* admitted by their number and the heaviest size among them, each answer  *)
(* held in memory where the run's HeldBytes admits its size and staged in  *)
(* a file otherwise, everything given back at the first refusal.           *)
(*                                                                         *)
(* A path is a number.  The tasks run on threads of their own: one that is *)
(* aborted may still reach its next await.  A resend of one read is the    *)
(* module Transport's; here it may start its file afresh.                  *)
(***************************************************************************)
EXTENDS Naturals, Sequences, FiniteSets, FiniteSetsExt, SequencesExt

CONSTANTS
    ReadConcurrency, ReadBytesBound,
    HeldLimit,      \* the limit of the run's HeldBytes
    Null,           \* a size the tree does not name
    MaxFileBytes,   \* what that counts as
    Wants           \* the lists of paths wanted, each [size, len, here]

(* `size` is Null where the tree names none, `len` what the server sends,   *)
(* and `here` whether that hashes to what was asked for.                    *)
Counted(want) == IF want.size = Null THEN MaxFileBytes ELSE want.size

ASSUME BlobReadsAssumption ==
    {ReadConcurrency, ReadBytesBound, HeldLimit, MaxFileBytes} \subseteq Nat \ {0}
ASSUME WantsAssumption == Wants \subseteq Seq([size : {Null} \cup Nat, len : Nat, here : BOOLEAN])

VARIABLE reads

BlobReadsStart(list, base, free) ==
    [list |-> list, base |-> base,   \* whether read_base_blobs asks
     turn |-> 1 .. Len(list),        \* the paths this read_blobs is given
     singly |-> FALSE,               \* each path on its own
     task |-> [i \in 1 .. Len(list) |-> "none"],
     outstanding |-> <<>>, hold |-> [i \in 1 .. Len(list) |-> 0],
     room |-> free, free |-> free,   \* what the run's other holds leave
     files |-> {}, answers |-> {}, unheld |-> {}, at |-> "reading"]

BlobReadsInit ==
    \E list \in Wants, base \in BOOLEAN, free \in 0 .. HeldLimit :
        reads = BlobReadsStart(list, base, free)

Running == {"holding", "staging", "writing"}
Ended == {"held", "staged", "unheld", "failed"}
Tasks(states) == {i \in DOMAIN reads.task : reads.task[i] \in states}
Heavier(weights) == Max({0} \cup Range(weights))

-----------------------------------------------------------------------------
(* Admission: by count and by size, one at a time always.                   *)
Admitted(weight) ==
    LET count == Len(reads.outstanding) + 1
    IN \/ reads.outstanding = <<>>
       \/ /\ Len(reads.outstanding) < ReadConcurrency
          /\ count * Max({weight, Heavier(reads.outstanding)}) <= ReadBytesBound

Unsent == {i \in reads.turn : reads.task[i] = "none"}
NextRead == Min(Unsent)
TryHold(n) == n = 0 \/ n <= reads.free

SpawnRead ==
    /\ reads.at = "reading" /\ Unsent # {}
    /\ LET i == NextRead
           n == Counted(reads.list[i])
       IN /\ Admitted(n)
          /\ reads' = [reads EXCEPT !.outstanding = Append(@, n),
                                    !.task[i] = IF TryHold(n) THEN "holding" ELSE "staging",
                                    !.hold[i] = IF TryHold(n) THEN n ELSE 0,
                                    !.free = IF TryHold(n) THEN @ - n ELSE @]

-----------------------------------------------------------------------------
(* One read (`read_one`).                                                   *)

Release(r, i) == [r EXCEPT !.free = @ + r.hold[i], !.hold[i] = 0]

(* The hold fitted to what arrived: the rest given back, or more taken.     *)
(* Mutant: kept where more arrived and no room was left for it.             *)
MutFitted(i, len) ==
    IF len <= reads.free THEN {len} ELSE {reads.hold[i]}
Fitted(i, len) ==
    IF len = reads.hold[i] THEN {len}
    ELSE IF TryHold(len) THEN {len}
    ELSE IF len < reads.hold[i] THEN {reads.hold[i]}
    ELSE {}

HoldAnswered(i) ==
    /\ reads.task[i] = "holding" /\ reads.list[i].here
    /\ LET fitted == Fitted(i, reads.list[i].len)
       IN \/ \E n \in fitted :
               reads' = [reads EXCEPT !.free = @ + reads.hold[i] - n, !.hold[i] = n,
                                      !.task[i] = "held"]
          \/ fitted = {} /\ reads' = Release([reads EXCEPT !.task[i] = "failed"], i)

OpenStaged(i) ==
    /\ reads.task[i] = "staging"
    /\ reads' = [reads EXCEPT !.task[i] = "writing", !.files = @ \cup {i}]
StartAfresh(i) ==
    /\ reads.task[i] = "writing"
    /\ reads' = [reads EXCEPT !.task[i] = "staging", !.files = @ \ {i}]
StageAnswered(i) ==
    /\ reads.task[i] = "writing" /\ reads.list[i].here
    /\ reads' = [reads EXCEPT !.task[i] = "staged"]

(* The path not found or hashing otherwise, or any other refusal.           *)
ReadRefused(i) ==
    /\ reads.task[i] \in Running
    /\ \E outcome \in {"failed"} \cup (IF reads.list[i].here THEN {} ELSE {"unheld"}) :
         reads' = Release([reads EXCEPT !.task[i] = outcome], i)

-----------------------------------------------------------------------------
(* An answer joined, where the next read waits for it or all are sent.      *)

(* Mutant: the oldest weight goes, whichever read ended.                    *)
MutForgetWeight(outstanding, weight) == Tail(outstanding)
ForgetWeight(outstanding, weight) ==
    RemoveAt(outstanding, CHOOSE k \in 1 .. Len(outstanding) : outstanding[k] = weight)

Waits == Unsent # {} => ~Admitted(Counted(reads.list[NextRead]))
JoinBlob(i) ==
    /\ reads.at = "reading" /\ Waits
    /\ reads.task[i] \in {"held", "staged"} /\ i \notin reads.answers /\ i \in reads.turn
    /\ reads' = [reads EXCEPT !.answers = @ \cup {i},
                              !.outstanding = ForgetWeight(@, Counted(reads.list[i]))]
JoinRefused(i) ==
    /\ reads.at = "reading" /\ Waits /\ reads.task[i] \in {"unheld", "failed"}
    /\ reads' = [reads EXCEPT !.at = IF reads.task[i] = "unheld" THEN "unheld" ELSE "refused"]
AllJoined ==
    /\ reads.at = "reading" /\ Unsent = {} /\ reads.turn \subseteq reads.answers
    /\ LET left == (1 .. Len(reads.list)) \ (reads.turn \cup reads.answers \cup reads.unheld)
       IN reads' = IF ~reads.singly \/ left = {} THEN [reads EXCEPT !.at = "answered"]
                   ELSE [reads EXCEPT !.turn = {Min(left)}]

(* The rest abandoned: each task ends where it is, then what was staged is  *)
(* removed and what was held given back.                                    *)
Abandon(i) ==
    /\ reads.at \in {"unheld", "refused"} /\ reads.task[i] \in Running
    /\ reads' = Release([reads EXCEPT !.task[i] = "failed"], i)

(* Mutant: the aborted tasks are not waited for.                            *)
MutDrained == TRUE
Drained == Tasks(Running) = {}

GiveBack(r) ==
    LET here == {i \in r.turn : r.task[i] # "none"}
        mine == MapThenSumSet(LAMBDA i : r.hold[i], here)
    IN [r EXCEPT !.free = @ + mine, !.files = @ \ here, !.answers = @ \ here, !.outstanding = <<>>,
                 !.hold = [i \in DOMAIN @ |-> IF i \in here THEN 0 ELSE @[i]],
                 !.task = [i \in DOMAIN @ |->
                             IF i \in here /\ @[i] \notin Running THEN "none" ELSE @[i]]]
EndRefused ==
    /\ reads.at \in {"unheld", "refused"} /\ Drained
    /\ LET r == GiveBack(reads)
           unheld == IF r.singly THEN r.unheld \cup r.turn ELSE r.unheld
           left == (1 .. Len(r.list)) \ (unheld \cup r.answers)
           alone == [r EXCEPT !.singly = TRUE, !.unheld = unheld, !.at = "reading"]
       IN IF ~r.base \/ r.at = "refused" THEN reads' = [r EXCEPT !.at = "failed"]
          ELSE IF left = {} THEN reads' = [alone EXCEPT !.at = "answered"]
          ELSE reads' = [alone EXCEPT !.turn = {Min(left)}]

BlobReadsNext ==
    \/ SpawnRead \/ AllJoined \/ EndRefused
    \/ \E i \in DOMAIN reads.task :
         \/ HoldAnswered(i) \/ OpenStaged(i) \/ StartAfresh(i) \/ StageAnswered(i)
         \/ ReadRefused(i) \/ JoinBlob(i) \/ JoinRefused(i) \/ Abandon(i)

BlobReadsSpec == BlobReadsInit /\ [][BlobReadsNext]_reads

-----------------------------------------------------------------------------
(* The reads out at once are within the count and, each counted as the      *)
(* heaviest of them, within the bytes; and what stands in memory, buffers   *)
(* of reads still out among it, is within what the run's other holds left   *)
(* (converge.rs 607 to 616).                                                *)
ReadsAreBounded ==
    LET out == Tasks(Running \cup Ended) \ reads.answers
        weight == Max({0} \cup {Counted(reads.list[i]) : i \in out})
        stands(i) == IF reads.task[i] = "held" THEN reads.list[i].len ELSE Counted(reads.list[i])
    IN /\ reads.at = "reading" =>
            /\ Cardinality(out) <= ReadConcurrency
            /\ Cardinality(out) > 1 => Cardinality(out) * weight <= ReadBytesBound
       /\ MapThenSumSet(stands, Tasks({"holding", "held"})) <= reads.room

(* A refusal leaves no file staged by the read and no byte held by it, and  *)
(* a base read answers every path it was asked for as read or as unheld.    *)
RefusalLeavesNothing ==
    /\ reads.at = "failed" => reads.files \subseteq reads.answers
    /\ reads.at = "answered" =>
         /\ reads.files \subseteq reads.answers
         /\ reads.unheld = {i \in 1 .. Len(reads.list) : ~reads.list[i].here}
         /\ reads.answers = {i \in 1 .. Len(reads.list) : reads.list[i].here}

(* What content reads of a convergence promise: converge.rs 604 to 726.     *)
BoundedAndReleased == ReadsAreBounded /\ RefusalLeavesNothing
=============================================================================
