--------------------------- MODULE MCConvergence ---------------------------
(* Convergence over small sets, for TLC. *)
EXTENDS Convergence, TLC

CONSTANTS a, b

OnePath  == {a}
TwoPaths == {a, b}

\* The first commit holds one file, so that the other path can be added.
SeedOne == [p \in Paths |-> IF p = a THEN {1} ELSE NoFile]
SeedAll == [p \in Paths |-> {1}]

\* Where both paths start alike, either may stand for the other.
PathSymmetry == Permutations(Paths)

\* No guard reads the history: a run leaves out the part its properties do not.
Counted    == <<texts, deletes, others, stops>>
NoHistory  == <<commits, diskVars, runVars, Counted>>
SeenOnly   == <<NoHistory, seen>>
SeenOrMine == <<NoHistory, seen, mine, blind>>
=============================================================================
