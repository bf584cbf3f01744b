------------------------------ MODULE RawReads ------------------------------
(***************************************************************************)
(* Reading many paths one request each (`read_many` and `read_path`,       *)
(* src/read/files.rs): what `syns cat` does for several paths where the    *)
(* answer is a byte stream, or the server answers no batch.  Reads start   *)
(* in order, a few at once; under `--max-bytes` each waits at its gate     *)
(* until the places before it are decided.                                 *)
(*                                                                         *)
(* A read's resends (`resend_read`) are the module Transport's: here one   *)
(* read has MaxSends of them.  Bytes and hashes are left out.              *)
(***************************************************************************)
EXTENDS ReadBudget

CONSTANTS
    RawModes,    \* [budget, stop]: `files` documents stop "run wide" and may
                 \* have a budget, byte streams stop "in order"
    RawInFlight, \* the most reads at once
    MaxSends     \* sends of one read

ASSUME RawAssumption ==
    /\ RawInFlight \in Nat \ {0} /\ MaxSends \in Nat \ {0}
    /\ \A mode \in RawModes : mode.budget \in Nat \cup {NoBudget}

VARIABLE raw
rawVars == <<raw>>

(* A task: not started, sent, waiting at its gate, reading its body,        *)
(* finished with an outcome its run has not joined, cancelled, or joined.   *)
TaskStates == {"unsent", "sent", "gate", "body", "finished", "cancelled", "joined"}

RawStart(mode) ==
    [mode |-> mode, task |-> [d \in Paths |-> "unsent"],
     outcome |-> [d \in Paths |-> "not run"], sends |-> [d \in Paths |-> 0],
     sizes |-> <<>>, stopped |-> FALSE, over |-> FALSE]
RawInit == \E mode \in RawModes : raw = RawStart(mode)

Gated == raw.mode.budget # NoBudget
RawCut(sizes) == CutAt(sizes, raw.mode.budget)
InSet(d) == raw.task[d] \in {"sent", "gate", "body", "finished", "cancelled"}

(* Reads are spawned in the order first asked.                              *)
Spawn(d) ==
    /\ ~raw.over /\ ~raw.stopped /\ raw.task[d] = "unsent"
    /\ \A e \in 1 .. d - 1 : raw.task[e] # "unsent"
    /\ Cardinality({e \in Paths : InSet(e)}) < RawInFlight
    /\ FirstPlace(d) < RawCut(raw.sizes)
    /\ raw' = [raw EXCEPT !.task[d] = "sent", !.sends[d] = 1]

Finished(r, d, outcome) == [r EXCEPT !.task[d] = "finished", !.outcome[d] = outcome]
Noted(r, d, size) == IF Gated THEN [r EXCEPT !.sizes = Report(@, d, size)] ELSE r

(* A `200`: its declared length is reported and the body waits; a length    *)
(* not declared, or no budget, and it is read at once.                      *)
Answers200(d) ==
    /\ raw.task[d] = "sent"
    /\ \/ Gated /\ raw' = [Noted(raw, d, SizeOf[d]) EXCEPT !.task[d] = "gate"]
       \/ raw' = [raw EXCEPT !.task[d] = "body"]

Opens(d) == Decided(raw.sizes, raw.mode.budget) >= FirstPlace(d)
Gate(d) ==
    /\ raw.task[d] = "gate" /\ Opens(d)
    /\ raw' = [raw EXCEPT !.task[d] = "body"]

(* A verified stored copy of the path.                                      *)
Answers304(d) ==
    /\ raw.task[d] = "sent"
    /\ raw' = Finished(raw, d, "read")

Body(d) ==
    /\ raw.task[d] = "body"
    /\ \/ raw' = Finished(raw, d, "read")
       \/ raw' = Finished(raw, d, "failed")

(* A refusal's status line counts 0 under a budget and is not sent again.   *)
Refused(d) ==
    /\ raw.task[d] = "sent"
    /\ \E failure \in {"failed", "run-wide"} :
         raw' = Finished(Noted(raw, d, 0), d, failure)

(* No answer, or a body cut: sent again while sends remain.                 *)
NoAnswer(d) ==
    /\ raw.task[d] \in {"sent", "body"}
    /\ \/ /\ raw.sends[d] < MaxSends
          /\ raw' = [raw EXCEPT !.task[d] = "sent", !.sends[d] = @ + 1]
       \/ raw.sends[d] = MaxSends /\ raw' = Finished(raw, d, "failed")

(* The cut falls at or before the path: its read ends there.                *)
CutReached(d) ==
    /\ raw.task[d] \in {"sent", "gate", "body"} /\ RawCut(raw.sizes) <= FirstPlace(d)
    /\ raw' = Finished(raw, d, "deferred")

(* A read of the set is in: its size is reported where no answer did, and   *)
(* the first failure that stops the run cancels the others.                 *)
(* Mutant: only a read that was answered reports.                           *)
MutSizeJoined(r, d) == IF r.outcome[d] = "read" THEN Noted(r, d, SizeOf[d]) ELSE r
SizeJoined(r, d) == Noted(r, d, IF r.outcome[d] = "read" THEN SizeOf[d] ELSE 0)

Stops(d) ==
    \/ raw.outcome[d] = "run-wide"
    \/ raw.outcome[d] = "failed" /\ raw.mode.stop = "in order"
(* Mutant: a byte stream's failure cancels the reads before it too.         *)
MutCancels(d, e) == e # d
Cancels(d, e) == IF raw.mode.stop = "in order" THEN e > d ELSE e # d

JoinRead(d) ==
    /\ raw.task[d] = "finished"
    /\ LET joined == SizeJoined([raw EXCEPT !.task[d] = "joined"], d)
           stops == Stops(d) /\ ~raw.stopped
           cancelled(e) == stops /\ Cancels(d, e) /\ raw.task[e] \in {"sent", "gate", "body"}
       IN raw' = [joined EXCEPT
                    !.stopped = @ \/ stops,
                    !.task = [e \in Paths |-> IF cancelled(e) THEN "cancelled" ELSE @[e]]]
JoinCancelled(d) ==
    /\ raw.task[d] = "cancelled"
    /\ raw' = [raw EXCEPT !.task[d] = "joined"]

RunOver ==
    /\ ~raw.over /\ \A d \in Paths : ~InSet(d)
    /\ \/ raw.stopped
       \/ \A d \in Paths : raw.task[d] # "unsent" \/ FirstPlace(d) >= RawCut(raw.sizes)
    /\ raw' = [raw EXCEPT !.over = TRUE]

RawNext ==
    \/ RunOver
    \/ \E d \in Paths :
         \/ Spawn(d) \/ Answers200(d) \/ Gate(d) \/ Answers304(d) \/ Body(d)
         \/ Refused(d) \/ NoAnswer(d) \/ CutReached(d) \/ JoinRead(d) \/ JoinCancelled(d)

RawSpec == RawInit /\ [][RawNext]_rawVars

-----------------------------------------------------------------------------
(* Reads waiting at their gates never wait on one another for good: of the  *)
(* reads under way one is not at its gate, or its gate opens or its cut is  *)
(* reached (files.rs 200 to 330 and 430 to 470).                            *)
AGateOpens ==
    LET under == {d \in Paths : InSet(d)}
    IN under # {} =>
         \E d \in under : raw.task[d] # "gate" \/ Opens(d) \/ RawCut(raw.sizes) <= FirstPlace(d)

(* What is printed is what was asked: each path before the cut was read or  *)
(* failed, but for those a stopped run gave up on, and a byte stream gives  *)
(* up on no path before its first failure (files.rs 345 to 475).            *)
NothingLostBeforeFailure ==
    raw.over =>
      \A d \in Paths :
        (FirstPlace(d) < RawCut(raw.sizes) /\ raw.outcome[d] \notin {"read", "failed", "run-wide"})
          => \E e \in Paths :
               /\ raw.outcome[e] \in {"failed", "run-wide"}
               /\ raw.mode.stop = "in order" => e < d

(* What concurrent raw reads promise: they go on, and print what was asked. *)
RawReadsComplete == AGateOpens /\ NothingLostBeforeFailure
=============================================================================
