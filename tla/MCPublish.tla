----------------------------- MODULE MCPublish ------------------------------
(* One copy, or one folder of a holder, and either the publications of      *)
(* `syns push` or a changeset, among other writers, the user and other runs.*)
EXTENDS ChangesetSend, Search, TLC

CONSTANTS f, g, x, o

One(p, c) == p :> c
WrittenFirst == {<<>>, One(f, "b"), One(f, Absent)}
Edits == {One(f, Absent), One(g, "b")}
OthersWrite == {One(f, "b"), One(f, Absent), One(x, "b"), One(o, "b")}
SentBodies ==
    {[verb |-> "write", path |-> f, content |-> "b"],
     [verb |-> "remove", path |-> g],
     [verb |-> "move", from |-> g, to |-> f],
     [verb |-> "copy", from |-> g, to |-> f]}

(* A search beside them shares no state: a behaviour runs it or the others. *)
FourFiles == <<<<"a">>, <<"d", "a">>, <<"d", "b">>, <<"d", "e", "a">>>>
HeldFolder == <<"d">>
FileLines == {<<TRUE, TRUE>>, <<TRUE, FALSE, FALSE, TRUE>>}
GlobSets == {{}, {<<"a">>}, {<<"e", "a">>, <<"d", "b">>}}
GivenSets == {{}, {"after"}, {"context", "before"}, {"context"}}

VARIABLE machine

PublishInit ==
    /\ SetInit /\ machine \in {"push", "changeset", "search"}
    /\ machine = "search" => /\ copyKind = "copy" /\ versions = <<>>
                             /\ disk = Only([p \in Paths |-> "a"], Covered)
    /\ IF machine = "search" THEN SearchInit
       ELSE search = Searching("files", {}, NoBound, {}, FALSE, FALSE)
PublishNext ==
    /\ UNCHANGED search
    /\ machine # "search"
    /\ \/ machine = "push" /\ PushNext /\ UNCHANGED set
       \/ machine = "changeset" /\ SetNext
       \/ set.at = "idle" /\ Surroundings /\ UNCHANGED set
       \* past its guard a changeset reads nothing of the copy again
       \/ set.at # "idle" /\ Publishes /\ UNCHANGED set
    /\ UNCHANGED machine
SearchRuns == machine = "search" /\ SearchNext /\ UNCHANGED <<pushVars, set, machine>>
PublishSpec == PublishInit /\ [][PublishNext \/ SearchRuns]_<<pushVars, set, search, machine>>
=============================================================================
