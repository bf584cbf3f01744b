---------------------------- MODULE GuardedChange ----------------------------
(***************************************************************************)
(* What a changeset promises: one optimistic change of the repository.  It *)
(* is worked out on a pinned version, and it either lands once, on a head  *)
(* that still holds at its paths what that version held there, or not at   *)
(* all.                                                                    *)
(***************************************************************************)
EXTENDS Versions

CONSTANT None        \* no change is pending
VARIABLE pending     \* the change in hand: where it was worked out, what it lays
guardedVars == <<versions, pending>>

(* The paths `change` lays hold at the head what they held where pinned.    *)
StillAtPinned(change) ==
    \A p \in DOMAIN change.lays : HeadTree[p] = TreeAt(change.pinned)[p]

(* Every change is worked out on a version that exists by then.             *)
Pin ==
    /\ pending = None
    /\ pending' # None
    /\ pending'.pinned \in 1 .. HeadCommit
    /\ DOMAIN pending'.lays \subseteq Paths
    /\ UNCHANGED versions

Land ==
    /\ pending # None
    /\ StillAtPinned(pending)
    /\ versions' = Applied(pending.lays)
    /\ pending' = None

Drop == pending # None /\ pending' = None /\ UNCHANGED versions

(* Another writer's version, whatever it holds.                             *)
OthersAppend ==
    /\ versions' = Append(versions, HeadTree')
    /\ UNCHANGED pending

GuardedInit == pending = None
GuardedNext == Pin \/ Land \/ Drop \/ OthersAppend
GuardedSpec == GuardedInit /\ [][GuardedNext]_guardedVars
=============================================================================
