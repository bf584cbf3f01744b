----------------------------- MODULE ReadBudget -----------------------------
(***************************************************************************)
(* The `--max-bytes` ledger of `syns cat --json` (src/read/files.rs):      *)
(* places are decided in the order asked, from the sizes their paths'      *)
(* answers report, until one would take the sum past the budget.           *)
(*                                                                         *)
(* A place names one of the distinct paths of the run, or none where it    *)
(* was refused before any request; a path may stand at several places.     *)
(***************************************************************************)
EXTENDS Integers, Sequences, FiniteSets, SequencesExt, FiniteSetsExt

CONSTANTS
    Places,  \* the distinct path of each place, by number, or NotAsked
    NotAsked,
    SizeOf   \* the size the server names for each distinct path

ASSUME SizesAssumption == SizeOf \in Seq(Nat)

Paths == 1 .. Len(SizeOf)
FirstPlace(d) == Min({place \in DOMAIN Places : Places[place] = d})

(* The distinct paths are numbered in the order first asked (cat.rs, 440).  *)
ASSUME PlacesAssumption ==
    /\ Places \in Seq(Paths \cup {NotAsked}) /\ NotAsked \notin Paths
    /\ \A d \in Paths : \E place \in DOMAIN Places : Places[place] = d
    /\ \A d, e \in Paths : d < e => FirstPlace(d) < FirstPlace(e)

NoBudget == -1

(* `report`: the first size reported for a path stands.                     *)
Report(sizes, d, size) ==
    [p \in DOMAIN sizes \cup {d} |-> IF p \in DOMAIN sizes THEN sizes[p] ELSE size]

Sized(sizes, place) == Places[place] = NotAsked \/ Places[place] \in DOMAIN sizes
SizeAt(sizes, place) == IF Places[place] = NotAsked THEN 0 ELSE sizes[Places[place]]
SumTo(sizes, place) == MapThenSumSet(LAMBDA p : SizeAt(sizes, p), 1 .. place)

(* `advance`: how many places stand in the answer, and the place the rest   *)
(* are deferred from, past the last where there is no cut.                  *)
Decided(sizes, budget) ==
    Max({n \in 0 .. Len(Places) :
            /\ \A place \in 1 .. n : Sized(sizes, place)
            /\ n > 0 => SumTo(sizes, n) <= budget})
NoCut == Len(Places) + 1
CutAt(sizes, budget) ==
    LET next == Decided(sizes, budget) + 1
    IN IF budget # NoBudget /\ next \in DOMAIN Places /\ Sized(sizes, next)
       THEN next ELSE NoCut
=============================================================================
