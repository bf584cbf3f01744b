----------------------------- MODULE MCCommands -----------------------------
(***************************************************************************)
(* Commands that share no state, checked in one run: a behaviour runs one  *)
(* of them, and the others stay where they start.                          *)
(***************************************************************************)
EXTENDS DeviceLogin, Upgrade, Changeset, BlobStore, PathReads, DiffSince, TLC

CONSTANTS l1, l2, x, y, v, r, s, Names
VARIABLE command

TwoBlobs == {x, y}
OneView  == {v}
TwoRuns  == {r, s}
Lengths  == [f \in Files |-> IF f = x THEN 1 ELSE 2]

(* The processes of a machine are alike. *)
Alike == Permutations(Runs) \cup Permutations(Logins)

(* Every tree two names deep: each upper name absent, a file or a folder. *)
Upper == {<<n>> : n \in Names}
TwoDeep == Upper \cup {<<n, m>> : n \in Names, m \in Names}
Layouts == {paths \in SUBSET TwoDeep : \A p \in paths, q \in paths : ~LiesUnder(p, q)}
AllTrees == {[p \in paths |-> p] : paths \in Layouts}

Commands == {"login", "upgrade", "commit", "store", "read", "walk", "show"}

MCInit ==
    /\ command \in Commands
    /\ LoginInit
    /\ DocInit
    /\ Init
    /\ IF command = "upgrade" THEN UpgradeInit
       ELSE upgrade = UpgradeStart(CHOOSE given \in Flags : TRUE, "cargo")
    /\ DiffInit
    /\ IF command = "read" THEN PathReadsInit ELSE PathReadsStart(CHOOSE text \in Texts : TRUE)

MCNext ==
    /\ UNCHANGED command
    /\ \/ command = "login" /\ LoginNext /\ UNCHANGED <<upgrade, doc, vars, pathReadsVars, diffVars>>
       \/ command = "upgrade" /\ UpgradeNext /\ UNCHANGED <<login, doc, vars, pathReadsVars, diffVars>>
       \/ command = "commit" /\ DocNext /\ UNCHANGED <<login, upgrade, vars, pathReadsVars, diffVars>>
       \/ command = "store" /\ Next /\ UNCHANGED <<login, upgrade, doc, pathReadsVars, diffVars>>
       \/ command = "read" /\ PathReadsNext /\ UNCHANGED <<login, upgrade, doc, vars, diffVars>>
       \/ command = "walk" /\ WalkNext /\ UNCHANGED <<login, upgrade, doc, vars, pathReadsVars>>
       \/ command = "show" /\ ShowNext /\ UNCHANGED <<login, upgrade, doc, vars, pathReadsVars>>

MCSpec == MCInit /\ [][MCNext]_<<login, upgrade, doc, vars, pathReadsVars, diffVars, command>>
=============================================================================
