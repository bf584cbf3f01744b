----------------------------- MODULE Reconcile -----------------------------
(***************************************************************************)
(* The three-way comparison every convergence is built on                  *)
(* (src/push/reconcile.rs): a base, a local and a remote tree are compared *)
(* path by path.  A tree maps every path to the content standing there, or *)
(* to NoFile; the code's maps hold a hash for the paths present and leave  *)
(* the others out.  A text is the set of the edits it is made of, each     *)
(* edit a number; the edit Marker is a conflict marker line.               *)
(***************************************************************************)
EXTENDS Naturals

CONSTANTS Paths,    \* the paths a tree can name
          NoFile    \* what a tree maps a path to where no file stands

Marker  == 0
Text    == SUBSET Nat
Content == {NoFile} \cup Text
Tree    == [Paths -> Content]

EmptyTree == [p \in Paths |-> NoFile]

Changed(from, to) == {p \in Paths : from[p] # to[p]}

(***************************************************************************)
(* reconcile: every path either side changed, each in exactly one list.    *)
(***************************************************************************)
LocalOnly(base, local, remote)  == Changed(base, local) \ Changed(base, remote)
RemoteOnly(base, local, remote) == Changed(base, remote) \ Changed(base, local)
ChangedByBoth(base, local, remote) == Changed(base, local) \cap Changed(base, remote)
Identical(base, local, remote)  ==
    {p \in ChangedByBoth(base, local, remote) : local[p] = remote[p]}
Collisions(base, local, remote) ==
    {p \in ChangedByBoth(base, local, remote) : local[p] # remote[p]}

DeleteModify(base, local, remote) ==
    {p \in Collisions(base, local, remote) : base[p] # NoFile /\ local[p] = NoFile}

\* AddAdd and ModifyModify: the collisions both sides hold a file of.
BothHold(base, local, remote) ==
    {p \in Collisions(base, local, remote) : local[p] # NoFile /\ remote[p] # NoFile}

(***************************************************************************)
(* merge_text: without an overlap, the edits either side added and those   *)
(* both kept; with one, a block marked in local, base, remote order.       *)
(***************************************************************************)
TextOf(content) == IF content = NoFile THEN {} ELSE content

CleanMerge(base, local, remote) ==
    (local \cap remote) \cup (local \ base) \cup (remote \ base)

MarkedMerge(base, local, remote) == local \cup base \cup remote \cup {Marker}

HoldsMarker(content) == content # NoFile /\ Marker \in content
=============================================================================
