---------------------------- MODULE FolderCheck -----------------------------
(***************************************************************************)
(* The check of a folder against the versions after the one a run's work   *)
(* stands on (src/push/folder_check.rs): one page of the folder's history, *)
(* the head where that page is empty, and the number of the commit the     *)
(* work stands on, each a request of its own while the history grows.      *)
(***************************************************************************)
EXTENDS Versions

CONSTANT ScanBound   \* SCAN_BOUND: the commits the path-filtered walk scans
ASSUME ScanAssumption == ScanBound \in Nat \ {0}

VARIABLE check       \* the run's one check
checkVars == <<check>>

CheckSteps == {"none", "newest", "head", "number", "moved", "unmoved", "refused"}
NoCheck == [at |-> "none", since |-> 0, number |-> 0, identity |-> FALSE,
            newest |-> 0, reach |-> 0]

(* A check of the work standing on `since`, through the folder's identity   *)
(* where it has one; `number` is 0 until a version read numbers `since`.    *)
CheckFrom(since, number, identity) ==
    [at |-> "newest", since |-> since, number |-> number,
     identity |-> identity, newest |-> 0, reach |-> 0]

(* The check asked again: the number once read is kept.                     *)
AskedAgain == CheckFrom(check.since, check.number, check.identity)

Answer(moved) ==
    check' = [check EXCEPT !.at = IF moved THEN "moved" ELSE "unmoved",
                           !.newest = 0, !.reach = 0]

(* `moved_at` 1 to 3, and `identity_moved` 1 and 2: the newest version that *)
(* changed the folder; an identity lists no other.                          *)
ReadNewest ==
    LET newest == IF check.identity THEN IdentityHead ELSE NewestChange(ScanBound)
    IN /\ check.at = "newest"
       /\ CASE newest # 0 /\ newest = check.since -> Answer(FALSE)
            [] newest = 0 /\ check.identity -> Answer(FALSE)
            [] newest = 0 /\ ~check.identity -> check' = [check EXCEPT !.at = "head"]
            [] OTHER -> check' = [check EXCEPT !.at = "number", !.newest = newest]

(* `moved_at` 4: an empty page reaches back ScanBound commits at most.      *)
ReadHeadVersion ==
    /\ check.at = "head"
    /\ IF HeadCommit > ScanBound
       THEN check' = [check EXCEPT !.at = "number", !.reach = HeadCommit]
       ELSE Answer(FALSE)

(* `number_since`: one version read, kept for a check asked again.          *)
NumberSince ==
    /\ check.at = "number"
    /\ check.number = 0
    /\ check' = [check EXCEPT !.number = check.since]

(* `moved_at` 6 and `identity_moved` 4: the numbers compared.               *)
Compare ==
    /\ check.at = "number"
    /\ check.number # 0
    /\ Answer(IF check.newest # 0
              THEN check.newest > check.number
              ELSE check.reach - check.number > ScanBound)

(* `unread`, and a parent no repository numbers: a transient refusal reads  *)
(* as a folder that moved, any other ends the run.                          *)
ReadRefused ==
    /\ check.at \in {"newest", "head", "number"}
    /\ \/ Answer(TRUE)
       \/ check' = [check EXCEPT !.at = "refused", !.newest = 0, !.reach = 0]

CheckStep ==
    /\ \/ ReadNewest
       \/ ReadHeadVersion
       \/ NumberSince
       \/ Compare
       \/ ReadRefused
    /\ UNCHANGED versions
=============================================================================
