------------------------ MODULE ChangesetSendProofs -------------------------
(***************************************************************************)
(* What holds of SmartPush and of ChangesetSend for any repository,        *)
(* folder, bodies, bounds, edits and other writers: a publication takes    *)
(* only what it compared with and leaves bases and a record that name what *)
(* their commits hold; a changeset lands only on the state it was pinned   *)
(* to, and is one guarded change of GuardedChange.                         *)
(***************************************************************************)
EXTENDS ChangesetSend, FolderCheckProofs

allVars == <<pushVars, set>>

-----------------------------------------------------------------------------
(***************************************************************************)
(* The invariant.  While a check runs, CheckSays carries what its answers  *)
(* so far are worth: the page of versions it read was read at some head h  *)
(* at or past the one the refusal named, and no version of that page       *)
(* changed the folder.                                                     *)
(***************************************************************************)
SetSteps == {"idle", "repository", "parent", "first", "send", "named"}
Sets == [at : SetSteps, inside : BOOLEAN, identity : BOOLEAN,
         body : Bodies \cup {NoSet.body}, checkout : BOOLEAN, head : Nat,
         pinned : Nat, numbered : BOOLEAN, claims : Nat, sends : Nat]
SetType == set \in Sets

Pinned == set.at \in {"first", "send", "named"}
SetInv ==
    /\ set.at # "idle" =>
          /\ set.body \in Bodies
          /\ set.inside => Touches(set.body) \subseteq Folder
          /\ set.identity => set.inside
    /\ set.head <= HeadCommit /\ set.claims <= HeadCommit
    /\ Pinned => set.pinned \in 1 .. HeadCommit
    /\ set.at \notin {"send", "named"} => check = NoCheck
    /\ set.at = "send" =>
          \/ set.claims = set.pinned
          \/ set.inside /\ Quiet(set.pinned, set.claims)
    /\ set.at = "named" => set.inside

CheckInv ==
    /\ check # NoCheck =>
          /\ check.since = set.pinned
          /\ check.identity = set.identity
          /\ check.number \in {0, set.pinned}
    /\ set.at = "named" => check.at # "none" /\ CheckSays(set.claims)

Inv == LineInv /\ SetType /\ CheckType /\ SetInv /\ CheckInv

LEMMA InvInit == SetInit => Inv
<1> SUFFICES ASSUME SetInit PROVE Inv OBVIOUS
<1>1. versions \in Seq(Trees) /\ Len(versions) \in {0, 1}
  <2>1. PICK c \in InitialContents : versions \in {<<>>, <<[p \in Paths |-> c]>>}
    BY DEF SetInit, PushInit
  <2> DEFINE tree == [p \in Paths |-> c]
  <2>2. tree \in Trees BY InitialAssumption DEF Trees
  <2>3. versions = <<>> \/ versions = <<tree>> BY <2>1
  <2> HIDE DEF tree
  <2>4. CASE versions = <<>> BY <2>4
  <2>5. CASE versions = <<tree>>
    <3>1. <<tree>> \in Seq(Trees) /\ Len(<<tree>>) = 1 BY <2>2
    <3> QED BY <2>5, <3>1
  <2> QED BY <2>3, <2>4, <2>5
<1>2. LineInv BY <1>1, FirstSteady DEF HeadCommit
<1>3. set = NoSet /\ check = NoCheck BY DEF SetInit, PushInit
<1>4. SetType /\ CheckType BY <1>3 DEF SetType, Sets, CheckType, NoSet, NoCheck, SetSteps, CheckSteps
<1>5. SetInv /\ CheckInv
  BY <1>1, <1>3 DEF SetInv, CheckInv, NoSet, NoCheck, Pinned, HeadCommit
<1> QED BY <1>2, <1>4, <1>5 DEF Inv

LEMMA InvGrows == Inv /\ Grows /\ UNCHANGED <<set, check>> => Inv'
<1> SUFFICES ASSUME Inv, Grows, UNCHANGED <<set, check>> PROVE Inv' OBVIOUS
<1>1. versions \in Seq(Trees) /\ LineInv' BY LineGrows DEF Inv, LineInv
<1>2. HeadCommit \in Nat /\ HeadCommit' \in {HeadCommit, HeadCommit + 1}
  BY <1>1, VersionsStand
<1>3. SetType' /\ CheckType' BY DEF Inv, SetType, Sets, CheckType
<1>4. set.claims \in 0 .. HeadCommit /\ set.pinned \in Nat /\ check.newest \in Nat
      /\ check.since \in Nat /\ check.reach \in Nat /\ set.head \in Nat
  BY <1>2 DEF Inv, SetInv, SetType, Sets, CheckType
<1>5. SetInv' BY <1>1, <1>2, <1>4, KnownStaysKnown DEF Inv, SetInv, Pinned
<1>6. ASSUME set.at = "named" PROVE CheckSays(set.claims)'
  <2>1. CheckSays(set.claims) BY <1>6 DEF Inv, CheckInv
  <2> QED BY <1>1, <1>4, <2>1, CheckSaysStill DEF Inv
<1>7. CheckInv' BY <1>6 DEF Inv, CheckInv
<1> QED BY <1>1, <1>3, <1>5, <1>7 DEF Inv

-----------------------------------------------------------------------------
(* The steps of a changeset that leave the versions alone. *)

LEMMA ListedIsLast ==
    ASSUME versions \in Seq(Trees), SetType
    PROVE  ListedHead \in 0 .. HeadCommit /\ Quiet(ListedHead, HeadCommit)
<1>1. HeadCommit \in Nat BY HeadIsNat
<1>2. CASE set.identity
  <2>1. ListedHead = NewestChange(HeadCommit + 1) BY <1>2 DEF ListedHead, IdentityHead
  <2> QED BY <1>1, <2>1, NewestIsLast DEF Quiet
<1>3. CASE ~set.identity BY <1>1, <1>3 DEF ListedHead, Quiet
<1> QED BY <1>2, <1>3

LEMMA GuardKeeps == Inv /\ GuardWrite => Inv'
<1> SUFFICES ASSUME Inv, GuardWrite PROVE Inv' OBVIOUS
<1>1. UNCHANGED <<versions, check>> BY DEF GuardWrite
<1>2. CASE UNCHANGED set
  <2>1. Grows /\ UNCHANGED <<set, check>> BY <1>1, <1>2 DEF Grows
  <2> QED BY <2>1, InvGrows
<1>3. CASE set' # set
  <2>1. PICK body \in Bodies, inside \in BOOLEAN, identity \in BOOLEAN, checkout \in BOOLEAN :
           /\ identity => inside
           /\ inside => Touches(body) \subseteq Folder
           /\ set' = [NoSet EXCEPT !.at = "repository", !.inside = inside,
                                   !.identity = identity, !.body = body,
                                   !.checkout = checkout]
    BY <1>3 DEF GuardWrite
  <2>2. /\ set'.at = "repository" /\ set'.body = body /\ set'.inside = inside
        /\ set'.identity = identity /\ set'.head = 0 /\ set'.claims = 0
    BY <2>1 DEF NoSet
  <2>3. SetType' BY <2>1 DEF SetType, Sets, NoSet, SetSteps
  <2>4. check = NoCheck BY DEF Inv, SetInv, GuardWrite
  <2>5. SetInv'
    BY <1>1, <2>1, <2>2, <2>4, HeadIsNat DEF Inv, LineInv, SetInv, Pinned, HeadCommit
  <2>6. CheckInv' BY <1>1, <2>2, <2>4 DEF CheckInv
  <2>7. LineInv' /\ CheckType'
    BY <1>1 DEF Inv, LineInv, FolderSteady, Quiet, CheckType, HeadCommit, TreeAt, ChangesFolder, ChangedBy
  <2> QED BY <2>3, <2>5, <2>6, <2>7 DEF Inv
<1> QED BY <1>2, <1>3

\* A changeset that ends, whatever the versions did, leaves nothing behind.
LEMMA EndKeeps == Inv /\ Grows /\ SetEnds => Inv'
<1> SUFFICES ASSUME Inv, Grows, SetEnds PROVE Inv' OBVIOUS
<1>1. LineInv' BY LineGrows DEF Inv
<1>2. set' = NoSet /\ check' = NoCheck BY DEF SetEnds
<1>3. SetType' BY <1>2 DEF SetType, Sets, NoSet, SetSteps
<1>4. CheckType' BY <1>2 DEF CheckType, NoCheck, CheckSteps
<1>5. SetInv' BY <1>1, <1>2 DEF SetInv, NoSet, Pinned, LineInv, HeadCommit
<1>6. CheckInv' BY <1>2 DEF CheckInv, NoSet
<1> QED BY <1>1, <1>3, <1>4, <1>5, <1>6 DEF Inv

\* A changeset keeps its type from step to step.
LEMMA TypedNext == set' \in Sets => SetType'
BY DEF SetType, Sets, SetSteps, NoSet

LEMMA ReadKeeps == Inv /\ ReadRepository => Inv'
<1> SUFFICES ASSUME Inv, ReadRepository PROVE Inv' OBVIOUS
<1>1. UNCHANGED versions /\ Grows BY DEF ReadRepository, Local, Grows
<1>2. CASE SetEnds BY <1>1, <1>2, EndKeeps
<1>3. CASE set' = [set EXCEPT !.at = "parent", !.head = ListedHead] /\ UNCHANGED check
  <2>1. ListedHead \in 0 .. HeadCommit /\ HeadCommit \in Nat
    BY ListedIsLast, HeadIsNat DEF Inv, LineInv
  <2>2. SetType'
    <3>0. set \in Sets /\ ListedHead \in Nat BY <2>1 DEF Inv, SetType
    <3>1. set' \in Sets BY <1>3, <3>0 DEF Sets, SetSteps
    <3> QED BY <3>1, TypedNext
  <2>3. /\ set'.at = "parent" /\ set'.body = set.body /\ set'.inside = set.inside
        /\ set'.identity = set.identity /\ set'.head = ListedHead
        /\ set'.claims = set.claims /\ set'.pinned = set.pinned
    BY <1>3 DEF Inv, SetType, Sets
  <2>4. check = NoCheck BY DEF Inv, SetInv, ReadRepository
  <2>5. SetInv'
    BY <1>1, <1>3, <2>1, <2>3, <2>4, Unmoved DEF Inv, SetInv, Pinned, ReadRepository
  <2>6. CheckInv' BY <1>3, <2>3, <2>4 DEF CheckInv
  <2> QED BY <1>1, <1>3, <2>2, <2>5, <2>6, Unmoved DEF Inv, CheckType
<1> QED BY <1>2, <1>3 DEF ReadRepository

LEMMA ResolveKeeps == Inv /\ ResolveParent => Inv'
<1> SUFFICES ASSUME Inv, ResolveParent PROVE Inv' OBVIOUS
<1>1. UNCHANGED versions /\ Grows BY DEF ResolveParent, Local, Grows
<1>2. CASE SetEnds BY <1>1, <1>2, EndKeeps
<1>3. CASE ~SetEnds
  <2>1. PICK pinned \in 1 .. HeadCommit, numbered \in BOOLEAN :
           set' = [set EXCEPT !.at = "first", !.pinned = pinned, !.numbered = numbered]
    BY <1>3 DEF ResolveParent
  <2>2. UNCHANGED check /\ HeadCommit \in Nat
    BY <1>3, HeadIsNat DEF ResolveParent, Inv, LineInv
  <2>3. SetType'
    <3>0. set \in Sets /\ pinned \in Nat BY <2>2 DEF Inv, SetType
    <3>1. set' \in Sets BY <2>1, <3>0 DEF Sets, SetSteps
    <3> QED BY <3>1, TypedNext
  <2>4. /\ set'.at = "first" /\ set'.body = set.body /\ set'.inside = set.inside
        /\ set'.identity = set.identity /\ set'.head = set.head
        /\ set'.claims = set.claims /\ set'.pinned = pinned
    BY <2>1 DEF Inv, SetType, Sets
  <2>5. check = NoCheck BY DEF Inv, SetInv, ResolveParent
  <2>6. SetInv'
    BY <1>1, <2>2, <2>4, <2>5, Unmoved DEF Inv, SetInv, Pinned, ResolveParent
  <2>7. CheckInv' BY <2>2, <2>4, <2>5 DEF CheckInv
  <2> QED BY <1>1, <2>2, <2>3, <2>6, <2>7, Unmoved DEF Inv, CheckType
<1> QED BY <1>2, <1>3

-----------------------------------------------------------------------------
(* Sends and checks. *)

\* A send the parent or an unmoved folder allows.
LEMMA SendKeeps ==
    ASSUME Inv, UNCHANGED <<versions, check>>, NEW parent \in 0 .. HeadCommit,
           Pinned, set' = SendAt(parent),
           \/ parent = set.pinned
           \/ set.inside /\ Quiet(set.pinned, parent)
    PROVE  Inv'
<1>1. HeadCommit \in Nat BY HeadIsNat DEF Inv, LineInv
<1>2. SetType'
  <2>1. set \in Sets /\ parent \in Nat /\ set.sends + 1 \in Nat
    BY <1>1 DEF Inv, SetType, Sets
  <2>2. set' = [set EXCEPT !.at = "send", !.claims = parent, !.sends = set.sends + 1]
    BY DEF SendAt
  <2>3. set' \in Sets BY <2>1, <2>2 DEF Sets, SetSteps
  <2> QED BY <2>3, TypedNext
<1>3. /\ set'.at = "send" /\ set'.body = set.body /\ set'.inside = set.inside
      /\ set'.identity = set.identity /\ set'.head = set.head
      /\ set'.claims = parent /\ set'.pinned = set.pinned
  BY DEF Inv, SetType, Sets, SendAt
<1>4. SetInv' BY <1>1, <1>3, Unmoved DEF Inv, SetInv, Pinned
<1>5. CheckInv' BY <1>3 DEF Inv, CheckInv
<1> QED BY <1>2, <1>4, <1>5, Unmoved DEF Inv, CheckType

\* A check that begins knows nothing yet.
LEMMA AskKeeps ==
    ASSUME Inv, UNCHANGED versions, NEW named \in 0 .. HeadCommit,
           Pinned, set.inside,
           set' = [set EXCEPT !.at = "named", !.claims = named],
           NEW number \in {0, set.pinned},
           check' = CheckFrom(set.pinned, number, set.identity)
    PROVE  Inv'
<1>1. HeadCommit \in Nat BY HeadIsNat DEF Inv, LineInv
<1>2. SetType'
  <2>0. set \in Sets /\ named \in Nat BY <1>1 DEF Inv, SetType
  <2>1. set' \in Sets BY <2>0 DEF Sets, SetSteps
  <2> QED BY <2>1, TypedNext
<1>3. /\ set'.at = "named" /\ set'.body = set.body /\ set'.inside = set.inside
      /\ set'.identity = set.identity /\ set'.head = set.head
      /\ set'.claims = named /\ set'.pinned = set.pinned
  BY DEF Inv, SetType, Sets
<1>4. /\ check'.at = "newest" /\ check'.since = set.pinned
      /\ check'.identity = set.identity /\ check'.number = number
      /\ check'.newest = 0
  BY DEF CheckFrom
<1>5. CheckType' BY <1>1 DEF Inv, SetType, Sets, CheckType, CheckFrom, CheckSteps
<1>6. SetInv' BY <1>1, <1>3, Unmoved DEF Inv, SetInv, Pinned
<1>7. CheckInv' BY <1>3, <1>4 DEF CheckInv, CheckSays
<1> QED BY <1>2, <1>5, <1>6, <1>7, Unmoved DEF Inv

LEMMA FirstKeeps == Inv /\ FirstSend => Inv'
<1> SUFFICES ASSUME Inv, FirstSend PROVE Inv' OBVIOUS
<1>1. UNCHANGED versions /\ Pinned /\ HeadCommit \in Nat
  BY HeadIsNat DEF FirstSend, Local, Pinned, Inv, LineInv
<1>2. set.pinned \in 1 .. HeadCommit /\ set.head \in 0 .. HeadCommit
  BY <1>1 DEF Inv, SetInv, SetType, Sets
<1>3. CASE set.inside /\ set.head # 0 /\ set.head # set.pinned
  <2>1. AskAt(set.head) BY <1>3 DEF FirstSend
  <2> QED BY <1>1, <1>2, <1>3, <2>1, AskKeeps DEF AskAt
<1>4. CASE ~(set.inside /\ set.head # 0 /\ set.head # set.pinned)
  <2>1. set' = SendAt(set.pinned) /\ UNCHANGED check BY <1>4 DEF FirstSend
  <2> QED BY <1>1, <1>2, <2>1, SendKeeps
<1> QED BY <1>3, <1>4

LEMMA ConflictKeeps == Inv /\ SetConflicts => Inv'
<1> SUFFICES ASSUME Inv, SetConflicts PROVE Inv' OBVIOUS
<1>1. UNCHANGED versions /\ Grows /\ Pinned
  BY DEF SetConflicts, Local, Pinned, Grows
<1>2. ListedHead \in 0 .. HeadCommit BY ListedIsLast DEF Inv, LineInv
<1>3. CASE set.inside /\ check = NoCheck
  <2>1. AskAt(ListedHead) BY <1>3 DEF SetConflicts
  <2> QED BY <1>1, <1>2, <1>3, <2>1, AskKeeps DEF AskAt
<1>4. CASE set.inside /\ check # NoCheck /\ set.sends < SendBound
  <2>1. set' = [set EXCEPT !.at = "named", !.claims = ListedHead] /\ check' = AskedAgain
    BY <1>4 DEF SetConflicts
  <2>2. /\ check.since = set.pinned /\ check.identity = set.identity
        /\ check.number \in {0, set.pinned}
    BY <1>4 DEF Inv, CheckInv
  <2>3. check' = CheckFrom(set.pinned, check.number, set.identity)
    BY <2>1, <2>2 DEF AskedAgain
  <2> QED BY <1>1, <1>2, <1>4, <2>1, <2>2, <2>3, AskKeeps
<1>5. CASE SetEnds BY <1>1, <1>5, EndKeeps
<1> QED BY <1>3, <1>4, <1>5 DEF SetConflicts

LEMMA ChecksKeep == Inv /\ SetChecks => Inv'
<1> SUFFICES ASSUME Inv, SetChecks PROVE Inv' OBVIOUS
<1>1. UNCHANGED <<versions, set>> /\ set.at = "named" BY DEF SetChecks, CheckStep
<1>2. /\ check'.since = check.since /\ check'.identity = check.identity
      /\ check'.number \in {check.number, check.since}
      /\ check'.at # "none" /\ CheckType'
  BY CheckKeepsAsking DEF Inv, SetChecks
<1>3. check # NoCheck BY <1>1 DEF Inv, CheckInv, NoCheck
<1>4. CheckInv'
  <2>1. set.claims \in 0 .. HeadCommit /\ CheckSays(set.claims) /\ check.number \in {0, check.since}
    BY <1>1, <1>3, HeadIsNat DEF Inv, LineInv, SetInv, CheckInv, SetType, Sets
  <2>2. CheckSays(set.claims)' BY <1>1, <2>1, CheckSaysNext DEF Inv, SetChecks
  <2> QED BY <1>1, <1>2, <1>3, <2>2 DEF Inv, CheckInv
<1>5. SetInv' BY <1>1, Unmoved DEF Inv, SetInv, Pinned
<1>6. SetType' BY <1>1, TypedNext DEF Inv, SetType
<1> QED BY <1>1, <1>2, <1>4, <1>5, <1>6, Unmoved DEF Inv

LEMMA NamedKeeps == Inv /\ SendNamed => Inv'
<1> SUFFICES ASSUME Inv, SendNamed PROVE Inv' OBVIOUS
<1>1. /\ UNCHANGED <<versions, check>> /\ Pinned /\ set.at = "named"
      /\ set' = SendAt(set.claims) /\ check.at = "unmoved"
  BY DEF SendNamed, Local, Pinned
<1>2. check.since = set.pinned /\ Quiet(check.since, set.claims) /\ set.inside
  BY <1>1 DEF Inv, SetInv, CheckInv, CheckSays, NoCheck
<1>3. set.claims \in 0 .. HeadCommit
  BY HeadIsNat DEF Inv, LineInv, SetInv, SetType, Sets
<1> QED BY <1>1, <1>2, <1>3, SendKeeps

\* The tree a body leaves is a tree.
LEMMA ChangesTyped ==
    ASSUME NEW body \in Bodies, NEW tree \in Trees
    PROVE  /\ DOMAIN Changes(body, tree) \subseteq Touches(body) \cap Paths
           /\ \A p \in DOMAIN Changes(body, tree) :
                 Changes(body, tree)[p] \in Contents \cup {Absent}
<1>1. CASE body.verb = "write" BY <1>1, BodiesAssumption DEF Changes, Touches
<1>2. CASE body.verb = "remove" BY <1>2, BodiesAssumption DEF Changes, Touches
<1>3. CASE body.verb = "move" BY <1>3, BodiesAssumption DEF Changes, Touches, Trees
<1>4. CASE body.verb = "copy" BY <1>4, BodiesAssumption DEF Changes, Touches, Trees
<1>5. CASE body.verb \notin {"write", "remove", "move", "copy"}
  BY <1>5, BodiesAssumption
<1> QED BY <1>1, <1>2, <1>3, <1>4, <1>5

LEMMA LandingGrows == Inv /\ SetLands => Grows
<1> SUFFICES ASSUME Inv, SetLands PROVE Grows OBVIOUS
<1> DEFINE laid == Changes(set.body, HeadTree)
<1>1. set.body \in Bodies /\ HeadTree \in Trees
  BY HeadTyped DEF Inv, LineInv, SetInv, SetLands
<1>2. \A p \in DOMAIN laid : laid[p] \in Contents \cup {Absent} BY <1>1, ChangesTyped
<1> HIDE DEF laid
<1>3. LaidOver(HeadTree, laid) \in Trees BY <1>1, <1>2, LaidOverType
<1>4. versions' = Applied(laid) BY DEF SetLands, laid
<1> QED BY <1>3, <1>4 DEF Applied, Grows

LEMMA SurroundingsGrow == Inv /\ Surroundings => Grows /\ UNCHANGED check
<1> SUFFICES ASSUME Inv, Surroundings PROVE Grows /\ UNCHANGED check OBVIOUS
<1>1. CASE Publishes BY <1>1, OthersGrow DEF Publishes, Inv, LineInv
<1>2. CASE UserEdits \/ OtherRunConverges \/ EnclosingConverges \/ Reviews
  BY <1>2 DEF UserEdits, OtherRunConverges, EnclosingConverges, Reviews, Grows
<1> QED BY <1>1, <1>2 DEF Surroundings

LEMMA InvStep == Inv /\ [ChangesetNext]_allVars => Inv'
<1> SUFFICES ASSUME Inv, [ChangesetNext]_allVars PROVE Inv' OBVIOUS
<1>1. CASE GuardWrite BY <1>1, GuardKeeps
<1>2. CASE ReadRepository BY <1>2, ReadKeeps
<1>3. CASE ResolveParent BY <1>3, ResolveKeeps
<1>4. CASE FirstSend BY <1>4, FirstKeeps
<1>5. CASE SetLands BY <1>5, LandingGrows, EndKeeps DEF SetLands
<1>6. CASE SetRefused
  <2>1. Grows /\ SetEnds BY <1>6 DEF SetRefused, Local, Grows
  <2> QED BY <2>1, EndKeeps
<1>7. CASE SetConflicts BY <1>7, ConflictKeeps
<1>8. CASE SetChecks BY <1>8, ChecksKeep
<1>9. CASE SendNamed BY <1>9, NamedKeeps
<1>10. CASE SetGivesUp
  <2>1. Grows /\ SetEnds BY <1>10 DEF SetGivesUp, Local, Grows
  <2> QED BY <2>1, EndKeeps
<1>11. CASE Surroundings /\ UNCHANGED set
  <2>1. Grows /\ UNCHANGED <<set, check>> BY <1>11, SurroundingsGrow
  <2> QED BY <2>1, InvGrows
<1>12. CASE UNCHANGED allVars
  <2>1. Grows /\ UNCHANGED <<set, check>> BY <1>12 DEF allVars, pushVars, Grows
  <2> QED BY <2>1, InvGrows
<1> QED
  BY <1>1, <1>2, <1>3, <1>4, <1>5, <1>6, <1>7, <1>8, <1>9, <1>10, <1>11, <1>12
     DEF ChangesetNext, SetNext

(***************************************************************************)
(* What every send claims, and every answer of a check is worth, at every  *)
(* state of a changeset (write/mod.rs 1388 to 1505, folder_check.rs 89 to  *)
(* 311).                                                                   *)
(***************************************************************************)
THEOREM ChangesetInvariant == ChangesetSpec => []Inv
<1>1. ChangesetSpec => SetInit /\ [][ChangesetNext]_allVars BY DEF ChangesetSpec, allVars
<1> QED BY <1>1, InvInit, InvStep, PTL

-----------------------------------------------------------------------------
(* A changeset lands on the state it was pinned to. *)

LEMMA LandsPinned ==
    ASSUME Inv, SetLands, NEW p \in Touches(set.body)
    PROVE  HeadTree[p] = TreeAt(set.pinned)[p]
<1>1. /\ set.at = "send" /\ set.claims = ListedHead /\ HeadCommit \in Nat
      /\ versions \in Seq(Trees) /\ set.pinned \in 1 .. HeadCommit
  BY HeadIsNat DEF SetLands, Inv, LineInv, SetInv, Pinned
<1>2. CASE ~set.identity /\ set.claims = set.pinned
  BY <1>1, <1>2 DEF ListedHead, HeadTree
<1>3. CASE set.identity \/ set.claims # set.pinned
  <2>1. ListedHead \in 0 .. HeadCommit /\ Quiet(ListedHead, HeadCommit)
    BY <1>1, ListedIsLast DEF Inv
  <2>2. set.inside BY <1>1, <1>3 DEF Inv, SetInv
  <2>3. set.claims = set.pinned \/ Quiet(set.pinned, set.claims)
    BY <1>1 DEF Inv, SetInv
  <2>4. Quiet(set.pinned, HeadCommit) BY <1>1, <2>1, <2>3 DEF Quiet
  <2>5. p \in Folder BY <1>1, <2>2 DEF Inv, SetInv
  <2>6. TreeAt(set.pinned)[p] = TreeAt(HeadCommit)[p]
    BY <1>1, <2>4, <2>5 DEF Inv, LineInv, FolderSteady
  <2> QED BY <2>6 DEF HeadTree
<1> QED BY <1>2, <1>3

(***************************************************************************)
(* A changeset changes only paths that still hold, at the head it lands    *)
(* on, what its pinned parent held there, for every repository, folder,    *)
(* body, scan bound and number of sends (write/mod.rs 1427 to 1505).       *)
(***************************************************************************)
THEOREM ChangesetLandsOnPinnedState == ChangesetSpec => LandsOnPinnedState
<1>1. Inv /\ [ChangesetNext]_allVars =>
        [(versions' # versions /\ set' # set)
           => \A p \in Touches(set.body) : HeadTree[p] = TreeAt(set.pinned)[p]]_allVars
  <2> SUFFICES ASSUME Inv, ChangesetNext, versions' # versions, set' # set,
                      NEW p \in Touches(set.body)
               PROVE  HeadTree[p] = TreeAt(set.pinned)[p]
    BY DEF allVars, pushVars
  <2>1. SetLands
    BY DEF ChangesetNext, SetNext, GuardWrite, ReadRepository, ResolveParent, FirstSend,
           SetRefused, SetConflicts, SetChecks, CheckStep, SendNamed, SetGivesUp, Local
  <2> QED BY <2>1, LandsPinned
<1>2. ChangesetSpec => [][ChangesetNext]_allVars BY DEF ChangesetSpec, allVars
<1> QED BY <1>1, <1>2, ChangesetInvariant, PTL DEF LandsOnPinnedState, allVars

-----------------------------------------------------------------------------
(* A changeset is one guarded change. *)

\* A body means the same on two trees that agree where it looks.
LEMMA ChangesAgree ==
    ASSUME NEW body \in Bodies, NEW one, NEW other,
           \A p \in Touches(body) : one[p] = other[p]
    PROVE  Changes(body, one) = Changes(body, other)
<1>1. CASE body.verb = "write" \/ body.verb = "remove" BY <1>1 DEF Changes
<1>2. CASE body.verb = "move"
  <2>1. one[body.from] = other[body.from] BY <1>2 DEF Touches
  <2> QED BY <1>2, <2>1 DEF Changes
<1>3. CASE body.verb = "copy"
  <2>1. one[body.from] = other[body.from] BY <1>3 DEF Touches
  <2> QED BY <1>3, <2>1 DEF Changes
<1>4. CASE body.verb \notin {"write", "remove", "move", "copy"}
  BY <1>4, BodiesAssumption
<1> QED BY <1>1, <1>2, <1>3, <1>4

\* The abstract repository is the concrete one.
LEMMA SameLine ==
    /\ Guarded!HeadCommit = HeadCommit
    /\ Guarded!HeadTree = HeadTree
    /\ \A n : Guarded!TreeAt(n) = TreeAt(n)
    /\ \A laid : Guarded!Applied(laid) = Applied(laid)
BY DEF Guarded!HeadCommit, HeadCommit, Guarded!HeadTree, HeadTree, Guarded!TreeAt, TreeAt,
       Guarded!EmptyTree, EmptyTree, Guarded!Applied, Applied, Guarded!LaidOver, LaidOver

\* The change in hand stands while its pinned version and its body do.
LEMMA PendingStands ==
    ASSUME Inv, Grows, set'.at \in {"first", "send", "named"}, Pinned,
           set'.pinned = set.pinned, set'.body = set.body
    PROVE  PendingChange' = PendingChange
<1>1. TreeAt(set.pinned)' = TreeAt(set.pinned)
  <2>1. set.pinned \in 1 .. HeadCommit /\ versions \in Seq(Trees) /\ HeadCommit \in Nat
    BY HeadIsNat DEF Inv, LineInv, SetInv
  <2>2. TreeAt(set.pinned)' = (IF set.pinned = 0 THEN EmptyTree ELSE versions'[set.pinned])
    BY DEF TreeAt, EmptyTree
  <2> QED BY <2>1, <2>2 DEF Grows, HeadCommit, TreeAt
<1> QED BY <1>1 DEF PendingChange, Pinned, Changes

LEMMA IdleIsNoChange == ~Pinned => PendingChange = NoChange
BY DEF Pinned, PendingChange

LEMMA PinnedIsPending ==
    ASSUME Inv, Pinned
    PROVE  /\ PendingChange = [pinned |-> set.pinned,
                               lays |-> Changes(set.body, TreeAt(set.pinned))]
           /\ PendingChange # NoChange
<1>1. PendingChange = [pinned |-> set.pinned,
                       lays |-> Changes(set.body, TreeAt(set.pinned))]
  BY DEF Pinned, PendingChange
<1>2. set.pinned # 0 BY DEF Inv, SetInv, Pinned
<1>3. PendingChange.pinned = set.pinned /\ NoChange.pinned = 0 BY <1>1 DEF NoChange
<1> QED BY <1>1, <1>2, <1>3

\* Ending without a landing drops the change, if there is one.
LEMMA EndDrops ==
    ASSUME Inv, UNCHANGED versions, SetEnds
    PROVE  [Guarded!GuardedNext]_(Guarded!guardedVars)
<1>1. PendingChange' = NoChange
  BY DEF SetEnds, NoSet, PendingChange, NoChange
<1>2. CASE PendingChange = NoChange BY <1>1, <1>2 DEF Guarded!guardedVars
<1>3. CASE PendingChange # NoChange
  BY <1>1, <1>3 DEF Guarded!GuardedNext, Guarded!Drop
<1> QED BY <1>2, <1>3

LEMMA ResolvePins ==
    ASSUME Inv, Inv', ResolveParent, ~SetEnds
    PROVE  Guarded!Pin
<1>1. PICK pinned \in 1 .. HeadCommit, numbered \in BOOLEAN :
         set' = [set EXCEPT !.at = "first", !.pinned = pinned, !.numbered = numbered]
  BY DEF ResolveParent
<1>2. UNCHANGED versions /\ set.at = "parent" BY DEF ResolveParent, Local
<1>3. set'.at = "first" /\ set'.pinned = pinned /\ set'.body = set.body
  BY <1>1 DEF Inv, SetType, Sets
<1>4. set.body \in Bodies /\ HeadCommit \in Nat /\ versions \in Seq(Trees)
  BY <1>2, HeadIsNat DEF Inv, LineInv, SetInv
<1>5. TreeAt(pinned) \in Trees BY <1>4, TreesType
<1>6. TreeAt(set.pinned)' = TreeAt(pinned) BY <1>2, <1>3 DEF TreeAt, EmptyTree
<1>7. PendingChange' = [pinned |-> pinned, lays |-> Changes(set.body, TreeAt(pinned))]
  BY <1>3, <1>6 DEF PendingChange, Changes
<1>8. DOMAIN Changes(set.body, TreeAt(pinned)) \subseteq Paths BY <1>4, <1>5, ChangesTyped
<1>9. /\ PendingChange'.pinned = pinned /\ DOMAIN PendingChange'.lays \subseteq Paths
      /\ PendingChange' # NoChange
  BY <1>4, <1>7, <1>8 DEF NoChange
<1>10. PendingChange = NoChange BY <1>2 DEF PendingChange
<1> QED BY <1>2, <1>9, <1>10, SameLine DEF Guarded!Pin

LEMMA LandingLands ==
    ASSUME Inv, SetLands
    PROVE  Guarded!Land
<1>1. Pinned /\ set.body \in Bodies /\ versions \in Seq(Trees) /\ HeadCommit \in Nat
  BY HeadIsNat DEF SetLands, Pinned, Inv, LineInv, SetInv
<1>2. TreeAt(set.pinned) \in Trees
  <2>1. set.pinned \in 0 .. HeadCommit BY <1>1 DEF Inv, SetInv
  <2> QED BY <1>1, <2>1, TreesType
<1>3. Changes(set.body, HeadTree) = Changes(set.body, TreeAt(set.pinned))
  BY <1>1, LandsPinned, ChangesAgree
<1>4. /\ PendingChange # NoChange /\ PendingChange.pinned = set.pinned
      /\ PendingChange.lays = Changes(set.body, TreeAt(set.pinned))
  BY <1>1, PinnedIsPending
<1>5. \A p \in DOMAIN PendingChange.lays : HeadTree[p] = TreeAt(set.pinned)[p]
  BY <1>1, <1>2, <1>4, ChangesTyped, LandsPinned
<1>6. versions' = Applied(PendingChange.lays) BY <1>3, <1>4 DEF SetLands
<1>7. PendingChange' = NoChange
  BY DEF SetLands, SetEnds, NoSet, PendingChange, NoChange
<1> QED BY <1>4, <1>5, <1>6, <1>7, SameLine DEF Guarded!Land, Guarded!StillAtPinned

LEMMA SurroundingsAppend ==
    ASSUME Inv, Surroundings, UNCHANGED set
    PROVE  [Guarded!GuardedNext]_(Guarded!guardedVars)
<1>1. Grows BY SurroundingsGrow
<1>2. PendingChange' = PendingChange
  <2>1. CASE Pinned BY <1>1, <2>1, PendingStands DEF Pinned
  <2>2. CASE ~Pinned BY <2>2 DEF Pinned, PendingChange, NoChange
  <2> QED BY <2>1, <2>2
<1>3. CASE UNCHANGED versions BY <1>2, <1>3 DEF Guarded!guardedVars
<1>4. CASE versions' # versions
  <2>1. PICK tree \in Trees : versions' = Append(versions, tree) BY <1>1, <1>4 DEF Grows
  <2>2. versions \in Seq(Trees) BY DEF Inv, LineInv
  <2>3. HeadTree' = tree
    BY <2>1, <2>2 DEF HeadTree, TreeAt, HeadCommit, EmptyTree
  <2>4. Guarded!HeadTree' = HeadTree'
    BY DEF Guarded!HeadCommit, HeadCommit, Guarded!HeadTree, HeadTree, Guarded!TreeAt, TreeAt,
           Guarded!EmptyTree, EmptyTree
  <2> QED BY <1>2, <2>1, <2>3, <2>4 DEF Guarded!GuardedNext, Guarded!OthersAppend
<1> QED BY <1>3, <1>4

\* Every other step of a changeset leaves its change in hand.
LEMMA OtherStepsStutter ==
    ASSUME Inv, \/ GuardWrite
                \/ ReadRepository /\ ~SetEnds
                \/ FirstSend
                \/ SetConflicts /\ ~SetEnds
                \/ SetChecks
                \/ SendNamed
    PROVE  UNCHANGED Guarded!guardedVars
<1>1. UNCHANGED versions /\ Grows
  BY DEF GuardWrite, ReadRepository, FirstSend, SetConflicts, SetChecks, CheckStep, SendNamed,
         Local, Grows
<1>2. CASE GuardWrite \/ (ReadRepository /\ ~SetEnds)
  <2>1. set.at \in {"idle", "repository"} BY <1>2 DEF GuardWrite, ReadRepository
  <2>2. set'.at \in {"idle", "repository", "parent"}
    BY <1>2, <2>1 DEF GuardWrite, ReadRepository, NoSet, Inv, SetType, Sets
  <2>3. PendingChange = NoChange /\ PendingChange' = NoChange
    BY <2>1, <2>2 DEF PendingChange, NoChange
  <2> QED BY <1>1, <2>3 DEF Guarded!guardedVars
<1>3. CASE FirstSend \/ (SetConflicts /\ ~SetEnds) \/ SetChecks \/ SendNamed
  <2>1. Pinned BY <1>3 DEF Pinned, FirstSend, SetConflicts, SetChecks, SendNamed
  <2>2. /\ set'.at \in {"first", "send", "named"}
        /\ set'.pinned = set.pinned /\ set'.body = set.body
    BY <1>3 DEF FirstSend, SetConflicts, SetChecks, SendNamed, SendAt, AskAt, Inv, SetType, Sets
  <2> QED BY <1>1, <2>1, <2>2, PendingStands DEF Guarded!guardedVars
<1> QED BY <1>2, <1>3

(***************************************************************************)
(* Through its repository read, checks and sends a changeset is one        *)
(* optimistic change: it ends dropped, or landed with exactly what it      *)
(* meant on the version it was pinned to, on a head that still held that   *)
(* at the paths it changes (write/mod.rs 1369 to 1653).                    *)
(***************************************************************************)
THEOREM ChangesetIsOneGuardedChange == ChangesetSpec => IsOneGuardedChange
<1>1. SetInit => Guarded!GuardedInit
  BY DEF SetInit, NoSet, PendingChange, NoChange, Guarded!GuardedInit
<1>2. Inv /\ Inv' /\ [ChangesetNext]_allVars => [Guarded!GuardedNext]_(Guarded!guardedVars)
  <2> SUFFICES ASSUME Inv, Inv', [ChangesetNext]_allVars
               PROVE  [Guarded!GuardedNext]_(Guarded!guardedVars)
    OBVIOUS
  <2>1. CASE SetEnds /\ UNCHANGED versions BY <2>1, EndDrops
  <2>2. CASE ResolveParent /\ ~SetEnds
    BY <2>2, ResolvePins DEF Guarded!GuardedNext
  <2>3. CASE SetLands BY <2>3, LandingLands DEF Guarded!GuardedNext
  <2>4. CASE Surroundings /\ UNCHANGED set BY <2>4, SurroundingsAppend
  <2>5. CASE \/ GuardWrite
             \/ ReadRepository /\ ~SetEnds
             \/ FirstSend
             \/ SetConflicts /\ ~SetEnds
             \/ SetChecks
             \/ SendNamed
    BY <2>5, OtherStepsStutter
  <2>6. CASE UNCHANGED allVars
    <3>1. UNCHANGED <<versions, set>> BY <2>6 DEF allVars, pushVars
    <3>2. PendingChange' = PendingChange
      BY <3>1 DEF PendingChange, NoChange, TreeAt, EmptyTree, Changes
    <3> QED BY <3>1, <3>2 DEF Guarded!guardedVars
  <2> QED
    BY <2>1, <2>2, <2>3, <2>4, <2>5, <2>6
       DEF ChangesetNext, SetNext, ReadRepository, ResolveParent, SetRefused, SetConflicts,
           SetGivesUp, Local
<1>3. ChangesetSpec => SetInit /\ [][ChangesetNext]_allVars BY DEF ChangesetSpec, allVars
<1>4. Guarded!GuardedInit /\ [][Guarded!GuardedNext]_(Guarded!guardedVars) => IsOneGuardedChange
  BY DEF IsOneGuardedChange, Guarded!GuardedSpec
<1> QED BY <1>1, <1>2, <1>3, <1>4, ChangesetInvariant, PTL

-----------------------------------------------------------------------------
(***************************************************************************)
(* A forced or path-scoped publication.  A run is described by itself and  *)
(* by whether what it stood on names its own commit (`known`), so that the *)
(* same words say what it was before a step and after it.                  *)
(***************************************************************************)
PushSteps == {"idle", "head", "collect", "plan", "send", "record", "lay", "adopt",
              "enclosing", "check", "again"}
PushBases == [commit : Nat, files : Trees]
PushRecords == [commit : Nat, files : Trees, excluded : SUBSET Paths, exact : BOOLEAN]
PushRuns ==
    [at : PushSteps, force : BOOLEAN, prefixed : BOOLEAN, based : PushBases,
     reference : Trees, parent : Nat, first : Nat, recordBase : Trees, excluded : SUBSET Paths,
     collected : Trees, left : SUBSET Paths, deletes : SUBSET Paths, hashOnly : SUBSET Paths,
     chunked : BOOLEAN, uploaded : SUBSET Paths, claims : Nat, resent : BOOLEAN, sends : Nat,
     landed : Nat]
CopyTyped ==
    /\ copyKind \in {"copy", "folder"} /\ runs \in Nat
    /\ disk \in Trees /\ base \in PushBases /\ outer \in PushBases /\ record \in PushRecords

(* The files of a commit, of this copy.                                     *)
Standing(n) == Only(TreeAt(n), Covered)
CopySays ==
    /\ base.commit <= HeadCommit /\ outer.commit <= HeadCommit /\ record.commit <= HeadCommit
    /\ FirstOrAlone => base.files = Standing(base.commit)
    /\ runs = 0 => run.at = "idle" /\ \A p \in Paths : outer.files[p] = TreeAt(outer.commit)[p]
    /\ \A p \in Paths \ Folder : outer.files[p] = TreeAt(outer.commit)[p]
    /\ copyKind = "copy" => outer.commit = 0
    /\ RecordAsCommitted

(* Every commit a run names is one of the line.                             *)
RunNames(r) ==
    /\ r.based.commit <= HeadCommit /\ r.first <= HeadCommit /\ r.parent <= HeadCommit
    /\ r.claims <= HeadCommit /\ r.landed <= HeadCommit

(* What a run may be about where it stands.                                 *)
Sends(r) == r.at \in {"send", "record", "lay"}
Landed(r) == r.at \in {"lay", "enclosing"} \/ (r.at = "record" /\ r.left = {})
Placed(r) ==
    /\ r.at \in {"idle", "head", "collect"} => r.sends = 0
    /\ r.sends = 0 => r.excluded = {}
    /\ copyKind = "folder" => r.excluded = {}
    /\ copyKind = "copy" /\ r.at = "plan" => r.sends = 0
    /\ r.at \in {"record", "adopt"} => copyKind = "copy"
    /\ r.at \in {"enclosing", "check", "again"} => copyKind = "folder"
    /\ r.at \in {"check", "again"} => r.sends # 0 /\ ~r.force
    /\ r.at = "plan" /\ r.sends # 0 => ~r.force
    /\ Sends(r) \/ r.at = "enclosing" => r.sends # 0 /\ (r.force => r.parent = 0 /\ r.first = 0)
    /\ Sends(r) /\ copyKind = "copy" => r.parent = r.first

(* The commit a body claims is the parent with what the run landed since.   *)
Sent(r, p) ==
    IF p \in r.uploaded THEN r.collected[p]
    ELSE IF Landed(r) /\ p \in r.deletes THEN Absent ELSE TreeAt(r.parent)[p]
Claimed(r) ==
    /\ (Sends(r) \/ r.at = "enclosing") /\ r.parent # 0 =>
          r.claims >= r.parent /\ \A p \in Paths : TreeAt(r.claims)[p] = Sent(r, p)
    /\ Landed(r) \/ r.at = "record" => r.landed = r.claims

(* The reference is what the parent holds of the copy, and of a folder what *)
(* the parent first claimed holds.                                          *)
Compared(r) ==
    \/ r.at \in {"plan", "send", "record", "lay", "check", "again"}
    \/ r.at = "collect" /\ ~(copyKind = "copy" /\ r.based.commit = 0)
Referred(r, known) ==
    /\ known => r.based.files = Standing(r.based.commit)
    /\ known /\ ~r.force /\ Compared(r) => r.reference = Without(Standing(r.parent), r.excluded)
    /\ copyKind = "folder" /\ r.sends # 0 /\ r.at # "idle" /\ ~r.force =>
          r.first <= r.parent /\ \A p \in Folder : TreeAt(r.first)[p] = TreeAt(r.parent)[p]

(* The payload, against the reference it was worked out from, and the       *)
(* record it is laid over.                                                  *)
Payload(r) ==
    /\ FilesOf(r.collected) \subseteq Covered
    /\ Sends(r) \/ r.at = "enclosing" =>
          /\ r.left \cup r.uploaded \cup r.hashOnly \subseteq FilesOf(r.collected)
          /\ \A p \in FilesOf(r.collected) \ (r.left \cup r.uploaded) :
                r.collected[p] = r.reference[p]
          /\ r.deletes \subseteq (FilesOf(r.reference) \ FilesOf(r.collected)) \cap Covered
          /\ r.excluded \cap FilesOf(r.collected) = {}
          /\ Landed(r) => r.left = {}
Recorded(r) ==
    Sends(r) /\ copyKind = "copy" /\ ~r.force =>
       \A p \in Paths : \/ r.recordBase[p] = TreeAt(r.parent)[p]
                        \/ p \in r.excluded /\ r.recordBase[p] = Absent

RunSays(r, known) ==
    Placed(r) /\ Claimed(r) /\ Referred(r, known) /\ Payload(r) /\ (known => Recorded(r))

(* The folder's one check.                                                  *)
AsksSay ==
    /\ check # NoCheck =>
          run.sends # 0 /\ check.since = run.first /\ check.number \in {0, run.first}
    /\ run.at = "check" =>
          check.at # "none" /\ check.since = run.first /\ check.number \in {0, run.first}
             /\ run.first <= run.claims /\ CheckSays(run.claims)

PushInv ==
    /\ LineInv /\ CheckType /\ CopyTyped /\ CopySays
    /\ run \in PushRuns /\ RunNames(run) /\ RunSays(run, FirstOrAlone) /\ AsksSay

LEMMA CoveredPaths == Covered \subseteq Paths
BY PathsAssumption DEF Covered

LEMMA StandingTyped ==
    ASSUME versions \in Seq(Trees), NEW n \in 0 .. HeadCommit PROVE Standing(n) \in Trees
BY TreesType DEF Standing, Only, Trees

LEMMA WholeStanding ==
    ASSUME versions \in Seq(Trees), NEW n \in 0 .. HeadCommit, copyKind = "copy"
    PROVE  Standing(n) = TreeAt(n)
BY TreesType DEF Standing, Only, Trees, Covered

LEMMA OnlyTyped == ASSUME NEW tree \in Trees, NEW keep PROVE Only(tree, keep) \in Trees
BY DEF Only, Trees

\* What a run says is said of commits that stand when the line grows.
LEMMA RunStands ==
    ASSUME versions \in Seq(Trees), Grows, UNCHANGED copyKind,
           NEW r \in PushRuns, RunNames(r),
           NEW known \in BOOLEAN, NEW after \in BOOLEAN, after => known, RunSays(r, known)
    PROVE  RunNames(r)' /\ RunSays(r, after)'
<1>1. /\ HeadCommit \in Nat /\ HeadCommit' \in {HeadCommit, HeadCommit + 1}
      /\ \A n \in 0 .. HeadCommit : TreeAt(n)' = TreeAt(n)
  BY VersionsStand
<1>2. /\ r.based.commit \in 0 .. HeadCommit /\ r.first \in 0 .. HeadCommit
      /\ r.parent \in 0 .. HeadCommit /\ r.claims \in 0 .. HeadCommit /\ r.landed \in 0 .. HeadCommit
  BY <1>1 DEF RunNames, PushRuns, PushBases
<1>3. Covered' = Covered BY DEF Covered
<1>4. \A n \in 0 .. HeadCommit : Standing(n)' = Standing(n) BY <1>1, <1>3 DEF Standing, Only
<1>5. RunNames(r)' BY <1>1, <1>2 DEF RunNames
<1>6. Placed(r)' BY DEF RunSays, Placed, Sends
<1>7. Claimed(r)'
  <2>1. \A p : Sent(r, p)' = Sent(r, p) BY <1>1, <1>2 DEF Sent, Landed
  <2>2. TreeAt(r.claims)' = TreeAt(r.claims) BY <1>1, <1>2
  <2>3. Claimed(r) BY DEF RunSays
  <2> QED BY <2>1, <2>2, <2>3 DEF Claimed, Sends, Landed
<1>8. Referred(r, after)'
  <2>1. /\ Standing(r.based.commit)' = Standing(r.based.commit)
        /\ Standing(r.parent)' = Standing(r.parent)
        /\ TreeAt(r.first)' = TreeAt(r.first) /\ TreeAt(r.parent)' = TreeAt(r.parent)
    BY <1>1, <1>2, <1>4
  <2>2. Without(Standing(r.parent), r.excluded)' = Without(Standing(r.parent), r.excluded)
    BY <2>1 DEF Without, Only
  <2>3. Referred(r, known) /\ (Compared(r)' <=> Compared(r)) BY DEF RunSays, Compared
  <2> QED BY <2>1, <2>2, <2>3 DEF Referred
<1>9. Payload(r)'
  <2>1. FilesOf(r.collected)' = FilesOf(r.collected) /\ FilesOf(r.reference)' = FilesOf(r.reference)
    BY DEF FilesOf
  <2>2. Payload(r) BY DEF RunSays
  <2> QED BY <1>3, <2>1, <2>2 DEF Payload, Sends, Landed
<1>10. after => Recorded(r)'
  <2>1. TreeAt(r.parent)' = TreeAt(r.parent) BY <1>1, <1>2
  <2> QED BY <2>1 DEF RunSays, Recorded, Sends
<1> QED BY <1>5, <1>6, <1>7, <1>8, <1>9, <1>10 DEF RunSays

\* A run at rest says nothing.
LEMMA IdleSays ==
    ASSUME versions \in Seq(Trees), NEW known \in BOOLEAN
    PROVE  IdleRun \in PushRuns /\ RunNames(IdleRun) /\ RunSays(IdleRun, known)
<1>1. EmptyTree \in Trees /\ HeadCommit \in Nat BY HeadIsNat DEF EmptyTree, Trees
<1>2. IdleRun \in PushRuns BY <1>1 DEF IdleRun, PushRuns, PushSteps, NoBase, PushBases, NoParent
<1>3. /\ IdleRun.at = "idle" /\ IdleRun.based = NoBase /\ IdleRun.collected = EmptyTree
      /\ IdleRun.sends = 0 /\ IdleRun.excluded = {} /\ IdleRun.parent = 0 /\ IdleRun.first = 0
      /\ IdleRun.claims = 0 /\ IdleRun.landed = 0
  BY DEF IdleRun, NoParent
<1> HIDE DEF IdleRun
<1>4. RunNames(IdleRun) BY <1>1, <1>3 DEF RunNames, NoBase
<1>5. Placed(IdleRun) /\ Claimed(IdleRun) BY <1>3 DEF Placed, Sends, Claimed, Landed
<1>6. Referred(IdleRun, known)
  BY <1>3 DEF Referred, Compared, NoBase, Standing, Only, TreeAt, EmptyTree
<1>7. Payload(IdleRun)
  <2>1. FilesOf(EmptyTree) = {} BY DEF FilesOf, EmptyTree
  <2> QED BY <1>3, <2>1 DEF Payload, Sends
<1>8. Recorded(IdleRun) BY <1>3 DEF Recorded, Sends
<1> QED BY <1>2, <1>4, <1>5, <1>6, <1>7, <1>8 DEF RunSays

\* What the copy's files say stands when the line grows.
LEMMA CopyStands ==
    ASSUME LineInv, CopyTyped, CopySays, Grows, UNCHANGED <<copyKind, base, outer, record, runs>>,
           run'.at = "idle" \/ runs # 0
    PROVE  CopySays'
<1>1. /\ HeadCommit \in Nat /\ HeadCommit' \in {HeadCommit, HeadCommit + 1}
      /\ \A n \in 0 .. HeadCommit : TreeAt(n)' = TreeAt(n)
  BY VersionsStand DEF LineInv
<1>2. /\ base.commit \in 0 .. HeadCommit /\ outer.commit \in 0 .. HeadCommit
      /\ record.commit \in 0 .. HeadCommit
  BY <1>1 DEF CopySays, CopyTyped, PushBases, PushRecords
<1>3. Standing(base.commit)' = Standing(base.commit)
  <2>1. TreeAt(base.commit)' = TreeAt(base.commit) BY <1>1, <1>2
  <2> QED BY <2>1 DEF Standing, Only, Covered
<1>4. TreeAt(outer.commit)' = TreeAt(outer.commit) /\ TreeAt(record.commit)' = TreeAt(record.commit)
  BY <1>1, <1>2
<1> QED BY <1>1, <1>2, <1>3, <1>4 DEF CopySays, FirstOrAlone, RecordAsCommitted

\* A step that leaves what the copy has recorded as it stands.
LEMMA RunMoves ==
    ASSUME PushInv, Grows, UNCHANGED <<copyKind, base, outer, record, runs>>, disk' \in Trees,
           run'.at = "idle" \/ runs # 0, run' \in PushRuns, CheckType', AsksSay',
           \/ RunNames(run)' /\ RunSays(run, FirstOrAlone)'
           \/ \E r \in PushRuns : run' = r /\ RunNames(r) /\ RunSays(r, FirstOrAlone)
    PROVE  PushInv'
<1>1. LineInv' BY LineGrows DEF PushInv
<1>2. CopyTyped' BY DEF PushInv, CopyTyped
<1>3. CopySays' BY CopyStands DEF PushInv
<1>4. RunNames(run)' /\ RunSays(run, FirstOrAlone)'
  <2>1. CASE \E r \in PushRuns : run' = r /\ RunNames(r) /\ RunSays(r, FirstOrAlone)
    <3>1. PICK r \in PushRuns : run' = r /\ RunNames(r) /\ RunSays(r, FirstOrAlone) BY <2>1
    <3>2. PICK known \in BOOLEAN : known = FirstOrAlone BY DEF FirstOrAlone
    <3>3. FirstOrAlone' = known BY <3>2 DEF FirstOrAlone
    <3>4. RunNames(r)' /\ RunSays(r, known)' BY <3>1, <3>2, RunStands DEF PushInv, LineInv
    <3>5. RunNames(run)' BY <3>1, <3>4 DEF RunNames
    <3>6. RunSays(run, FirstOrAlone)'
      BY <3>1, <3>3, <3>4
         DEF RunSays, Placed, Claimed, Referred, Payload, Recorded, Sends, Landed, Compared, Sent
    <3> QED BY <3>5, <3>6
  <2> QED BY <2>1
<1> QED BY <1>1, <1>2, <1>3, <1>4 DEF PushInv

\* A run that ends leaves nothing of it behind.
LEMMA RunEnds ==
    ASSUME PushInv, Grows, UNCHANGED <<copyKind, disk, base, outer, record, runs>>, Ends
    PROVE  PushInv'
<1>1. /\ run' = IdleRun /\ check' = NoCheck /\ versions \in Seq(Trees) /\ disk \in Trees
      /\ IdleRun.at = "idle"
  BY DEF Ends, PushInv, LineInv, CopyTyped, IdleRun
<1>2. PICK known \in BOOLEAN : known = FirstOrAlone BY DEF FirstOrAlone
<1>3. IdleRun \in PushRuns /\ RunNames(IdleRun) /\ RunSays(IdleRun, FirstOrAlone)
  BY <1>1, <1>2, IdleSays
<1>4. CheckType' BY <1>1 DEF CheckType, NoCheck, CheckSteps
<1>5. AsksSay' BY <1>1 DEF AsksSay
<1> HIDE DEF IdleRun
<1> QED BY <1>1, <1>3, <1>4, <1>5, RunMoves

\* A tree without no path of it, and what a base narrowed to the folder says.
LEMMA WithoutNone == ASSUME NEW tree \in Trees PROVE Without(tree, {}) = tree
BY DEF Without, Only, Trees

LEMMA ScopeCovered == Scope \subseteq Covered
BY DEF Scope

LEMMA FolderBaseSays ==
    ASSUME PushInv, copyKind = "folder"
    PROVE  /\ FolderBase \in PushBases /\ FolderBase.commit <= HeadCommit
           /\ outer.commit = 0 \/ runs = 0 => FolderBase.files = Standing(FolderBase.commit)
<1>1. /\ base \in PushBases /\ outer \in PushBases /\ versions \in Seq(Trees)
      /\ base.commit <= HeadCommit /\ outer.commit <= HeadCommit
      /\ (FirstOrAlone => base.files = Standing(base.commit))
      /\ (runs = 0 => \A p \in Paths : outer.files[p] = TreeAt(outer.commit)[p])
  BY DEF PushInv, CopyTyped, CopySays, LineInv
<1>2. PICK files : files = Only(outer.files, Folder) OBVIOUS
<1>3. files \in Trees BY <1>1, <1>2, OnlyTyped DEF PushBases
<1>4. [outer EXCEPT !.files = Only(outer.files, Folder)] = [commit |-> outer.commit, files |-> files]
  BY <1>1, <1>2 DEF PushBases
<1>5. CASE outer.commit # 0 /\ (base.commit = 0 \/ outerLater)
  <2>1. FolderBase = [commit |-> outer.commit, files |-> files] BY <1>4, <1>5 DEF FolderBase
  <2>2. FolderBase \in PushBases /\ FolderBase.commit = outer.commit /\ FolderBase.files = files
    BY <1>1, <1>3, <2>1 DEF PushBases
  <2>3. runs = 0 => files = Standing(outer.commit)
    BY <1>1, <1>2 DEF Standing, Only, Covered
  <2> QED BY <1>1, <1>5, <2>2, <2>3
<1>6. CASE ~(outer.commit # 0 /\ (base.commit = 0 \/ outerLater))
  <2>1. FolderBase = base BY <1>6 DEF FolderBase
  <2> QED BY <1>1, <2>1 DEF FirstOrAlone
<1> QED BY <1>5, <1>6

LEMMA BeginKeeps == PushInv /\ Begin => PushInv'
<1> SUFFICES ASSUME PushInv, Begin PROVE PushInv' OBVIOUS
<1>1. /\ versions \in Seq(Trees) /\ LineInv /\ HeadCommit \in Nat /\ run.at = "idle" /\ run.sends = 0
      /\ runs \in Nat /\ runs' = runs + 1 /\ CheckType
      /\ UNCHANGED <<versions, check, copyKind, disk, base, outer, record>>
  BY HeadIsNat DEF Begin, PushInv, LineInv, CopyTyped, RunSays, Placed
<1>2. check = NoCheck BY <1>1 DEF PushInv, AsksSay
<1>3. PICK based : based = IF copyKind = "copy" THEN base ELSE FolderBase OBVIOUS
<1>4. PICK force \in BOOLEAN, prefixed \in BOOLEAN :
         run' = [IdleRun EXCEPT
                   !.at = IF copyKind = "folder" /\ based.commit = 0 THEN "head" ELSE "collect",
                   !.force = force, !.prefixed = prefixed, !.based = based,
                   !.reference = based.files, !.parent = based.commit]
  BY <1>3 DEF Begin
<1>5. PICK at \in {"head", "collect"} :
         at = IF copyKind = "folder" /\ based.commit = 0 THEN "head" ELSE "collect"
  OBVIOUS
<1>6. PICK r : r = run' OBVIOUS
<1>7. /\ based \in PushBases /\ based.commit <= HeadCommit
      /\ outer.commit = 0 \/ runs = 0 => based.files = Standing(based.commit)
  <2>1. CASE copyKind = "copy"
    BY <1>3, <2>1 DEF PushInv, CopyTyped, CopySays, FirstOrAlone
  <2>2. CASE copyKind = "folder" BY <1>3, <2>2, FolderBaseSays
  <2> QED BY <2>1, <2>2 DEF PushInv, CopyTyped
<1>8. r = [IdleRun EXCEPT !.at = at, !.force = force, !.prefixed = prefixed, !.based = based,
                          !.reference = based.files, !.parent = based.commit]
  BY <1>4, <1>5, <1>6
<1>9. IdleRun \in PushRuns BY <1>1, IdleSays
<1>10. /\ r \in PushRuns /\ r.at = at /\ r.force = force /\ r.based = based
       /\ r.reference = based.files /\ r.parent = based.commit
       /\ r.first = IdleRun.first /\ r.excluded = IdleRun.excluded /\ r.collected = IdleRun.collected
       /\ r.sends = IdleRun.sends /\ r.claims = IdleRun.claims /\ r.landed = IdleRun.landed
  <2>1. at \in PushSteps /\ based.files \in Trees /\ based.commit \in Nat
    BY <1>7 DEF PushSteps, PushBases
  <2> HIDE DEF IdleRun
  <2> QED BY <1>7, <1>8, <1>9, <2>1 DEF PushRuns
<1>11. /\ r.first = 0 /\ r.excluded = {} /\ r.collected = EmptyTree /\ r.sends = 0
       /\ r.claims = 0 /\ r.landed = 0
  BY <1>10 DEF IdleRun, NoParent
<1> HIDE DEF IdleRun
<1>12. RunNames(r) BY <1>1, <1>7, <1>10, <1>11 DEF RunNames
<1>13. PICK known \in BOOLEAN : known = (outer.commit = 0 \/ runs = 0) OBVIOUS
<1>14. RunSays(r, known)
  <2>1. Placed(r) /\ Claimed(r) BY <1>10, <1>11 DEF Placed, Sends, Claimed, Landed
  <2>2. Referred(r, known)
    <3>1. ASSUME known PROVE r.reference = Without(Standing(r.parent), r.excluded)
      <4>1. based.commit \in 0 .. HeadCommit BY <1>1, <1>7 DEF PushBases
      <4> QED BY <1>1, <1>7, <1>10, <1>11, <1>13, <3>1, <4>1, StandingTyped, WithoutNone
    <3> QED BY <1>7, <1>10, <1>11, <1>13, <3>1 DEF Referred
  <2>3. Payload(r)
    <3>1. FilesOf(EmptyTree) = {} BY DEF FilesOf, EmptyTree
    <3> QED BY <1>10, <1>11, <3>1 DEF Payload, Sends
  <2>4. Recorded(r) BY <1>10 DEF Recorded, Sends
  <2> QED BY <2>1, <2>2, <2>3, <2>4 DEF RunSays
<1>15. FirstOrAlone' = known BY <1>1, <1>13 DEF FirstOrAlone
<1>16. RunNames(run)' /\ RunSays(run, FirstOrAlone)'
  <2>1. Grows BY <1>1 DEF Grows
  <2>2. RunNames(r)' /\ RunSays(r, known)' BY <1>1, <1>10, <1>12, <1>14, <2>1, RunStands
  <2>3. RunNames(run)' BY <1>6, <2>2 DEF RunNames
  <2>4. RunSays(run, FirstOrAlone)'
    BY <1>6, <1>15, <2>2
       DEF RunSays, Placed, Claimed, Referred, Payload, Recorded, Sends, Landed, Compared, Sent
  <2> QED BY <2>3, <2>4
<1>17. CopySays'
  <2>1. HeadCommit' = HeadCommit /\ \A n : TreeAt(n)' = TreeAt(n)
    BY <1>1 DEF HeadCommit, TreeAt
  <2>2. \A n : Standing(n)' = Standing(n) BY <1>1, <2>1 DEF Standing, Only, Covered
  <2>3. FirstOrAlone' => FirstOrAlone BY <1>1 DEF FirstOrAlone
  <2> QED BY <1>1, <2>1, <2>2, <2>3 DEF PushInv, CopySays, RecordAsCommitted
<1>18. CopyTyped' BY <1>1 DEF PushInv, CopyTyped
<1>19. AsksSay' BY <1>1, <1>2, <1>6, <1>10 DEF AsksSay
<1> QED BY <1>1, <1>6, <1>10, <1>16, <1>17, <1>18, <1>19, Unmoved DEF PushInv, CheckType

-----------------------------------------------------------------------------
\* What every step of a run knows of where it stands.
LEMMA PushFacts ==
    ASSUME PushInv
    PROVE  /\ LineInv /\ versions \in Seq(Trees) /\ HeadCommit \in Nat /\ HeadTree \in Trees
           /\ run \in PushRuns /\ disk \in Trees /\ base \in PushBases /\ CheckType /\ AsksSay
           /\ (run.at # "idle" => runs # 0) /\ copyKind \in {"copy", "folder"}
           /\ RunNames(run) /\ Placed(run) /\ Claimed(run) /\ Referred(run, FirstOrAlone)
           /\ Payload(run) /\ (FirstOrAlone => Recorded(run)) /\ FirstOrAlone \in BOOLEAN
<1>1. LineInv /\ versions \in Seq(Trees) /\ HeadCommit \in Nat /\ HeadTree \in Trees
  BY HeadIsNat, HeadTyped DEF PushInv, LineInv
<1>2. FirstOrAlone \in BOOLEAN BY DEF FirstOrAlone
<1> QED BY <1>1, <1>2 DEF PushInv, CopyTyped, CopySays, RunSays

\* A step of the run alone.
LEMMA RunSteps ==
    ASSUME PushInv, UNCHANGED <<versions, copyKind, disk, base, outer, record, runs>>,
           run.at # "idle", CheckType', AsksSay',
           NEW r \in PushRuns, run' = r, RunNames(r), RunSays(r, FirstOrAlone)
    PROVE  PushInv'
<1>1. Grows BY DEF Grows
<1>2. disk' \in Trees /\ runs # 0 BY PushFacts
<1> QED BY <1>1, <1>2, RunMoves

\* The check stands as it is.
LEMMA AskStands ==
    ASSUME PushInv, UNCHANGED check, run'.sends # 0 \/ run.sends = 0,
           run.sends = 0 \/ run'.first = run.first, run'.at # "check"
    PROVE  CheckType' /\ AsksSay'
BY PushFacts DEF CheckType, AsksSay

LEMMA OnlyFiles == ASSUME NEW tree, NEW keep PROVE FilesOf(Only(tree, keep)) \subseteq keep
BY DEF FilesOf, Only

LEMMA ReadHeadKeeps == PushInv /\ ReadHead => PushInv'
<1> SUFFICES ASSUME PushInv, ReadHead PROVE PushInv' OBVIOUS
<1>1. /\ run.at = "head" /\ UNCHANGED <<versions, copyKind, disk, base, outer, record, runs>>
      /\ Grows
  BY DEF ReadHead, copyVars, Grows
<1>2. CASE Ends BY <1>1, <1>2, RunEnds
<1>3. ASSUME UNCHANGED check,
             run' = [run EXCEPT !.at = IF copyKind = "copy" THEN "plan" ELSE "collect",
                                !.reference = Only(HeadTree, Covered),
                                !.parent = HeadCommit]
      PROVE  PushInv'
  <2>1. PICK r : r = run' OBVIOUS
  <2>2. PICK at \in {"plan", "collect"} :
           at = IF copyKind = "copy" THEN "plan" ELSE "collect"
    OBVIOUS
  <2>3. PICK reference : reference = Only(HeadTree, Covered) OBVIOUS
  <2>4. reference \in Trees /\ at \in PushSteps BY <2>2, <2>3, OnlyTyped, PushFacts DEF PushSteps
  <2>5. r = [run EXCEPT !.at = at, !.reference = reference, !.parent = HeadCommit]
    BY <1>3, <2>1, <2>2, <2>3
  <2>6. /\ r \in PushRuns /\ r.at = at /\ r.reference = reference /\ r.parent = HeadCommit
        /\ r.based = run.based /\ r.force = run.force /\ r.excluded = run.excluded
        /\ r.sends = run.sends /\ r.first = run.first /\ r.claims = run.claims
        /\ r.landed = run.landed /\ r.collected = run.collected
    BY <2>4, <2>5, PushFacts DEF PushRuns
  <2>7. run.sends = 0 /\ run.excluded = {} BY <1>1, PushFacts DEF Placed
  <2>8. RunNames(r) BY <2>6, PushFacts DEF RunNames
  <2>9. Placed(r) /\ Claimed(r) /\ Recorded(r)
    BY <2>2, <2>6, <2>7 DEF Placed, Sends, Claimed, Landed, Recorded
  <2>10. Payload(r) BY <2>2, <2>6, PushFacts DEF Payload, Sends
  <2>11. Referred(r, FirstOrAlone)
    <3>1. reference = Standing(HeadCommit) BY <2>3 DEF Standing, HeadTree
    <3>2. Without(Standing(r.parent), r.excluded) = reference
      BY <2>4, <2>6, <2>7, <3>1, WithoutNone
    <3> QED BY <2>6, <2>7, <3>2, PushFacts DEF Referred
  <2>12. CheckType' /\ AsksSay' BY <1>3, <2>1, <2>2, <2>6, <2>7, AskStands
  <2> QED BY <1>1, <2>1, <2>6, <2>8, <2>9, <2>10, <2>11, <2>12, RunSteps DEF RunSays
<1> QED BY <1>2, <1>3 DEF ReadHead

LEMMA CollectKeeps == PushInv /\ Collect => PushInv'
<1> SUFFICES ASSUME PushInv, Collect PROVE PushInv' OBVIOUS
<1>1. /\ run.at = "collect" /\ UNCHANGED <<versions, check, copyKind, disk, base, outer, record, runs>>
  BY DEF Collect, copyVars
<1>2. PICK r : r = run' OBVIOUS
<1>3. PICK at \in {"head", "plan"} :
         at = IF copyKind = "copy" /\ run.based.commit = 0 THEN "head" ELSE "plan"
  OBVIOUS
<1>4. PICK collected : collected = Only(disk, Scope \ Ignored) OBVIOUS
<1>5. collected \in Trees /\ FilesOf(collected) \subseteq Covered /\ at \in PushSteps
  BY <1>3, <1>4, OnlyTyped, OnlyFiles, ScopeCovered, PushFacts DEF PushSteps
<1>6. r = [run EXCEPT !.at = at, !.collected = collected]
  BY <1>2, <1>3, <1>4 DEF Collect
<1>7. /\ r \in PushRuns /\ r.at = at /\ r.collected = collected
      /\ r.based = run.based /\ r.force = run.force /\ r.excluded = run.excluded
      /\ r.sends = run.sends /\ r.first = run.first /\ r.claims = run.claims
      /\ r.landed = run.landed /\ r.reference = run.reference /\ r.parent = run.parent
  BY <1>5, <1>6, PushFacts DEF PushRuns
<1>8. run.sends = 0 /\ run.excluded = {} BY <1>1, PushFacts DEF Placed
<1>9. RunNames(r) BY <1>7, PushFacts DEF RunNames
<1>10. Placed(r) /\ Claimed(r) /\ Recorded(r)
  BY <1>3, <1>7, <1>8 DEF Placed, Sends, Claimed, Landed, Recorded
<1>11. Payload(r) BY <1>3, <1>5, <1>7 DEF Payload, Sends
<1>12. Referred(r, FirstOrAlone) BY <1>1, <1>3, <1>7, <1>8, PushFacts DEF Referred, Compared
<1>13. CheckType' /\ AsksSay' BY <1>1, <1>2, <1>3, <1>7, AskStands
<1> QED BY <1>1, <1>2, <1>7, <1>9, <1>10, <1>11, <1>12, <1>13, RunSteps DEF RunSays

LEMMA CollectAgainKeeps == PushInv /\ CollectAgain => PushInv'
<1> SUFFICES ASSUME PushInv, CollectAgain PROVE PushInv' OBVIOUS
<1>1. /\ run.at = "again" /\ UNCHANGED <<versions, check, copyKind, disk, base, outer, record, runs>>
  BY DEF CollectAgain, copyVars
<1>2. PICK r : r = run' OBVIOUS
<1>3. PICK collected : collected = Only(disk, Scope \ Ignored) OBVIOUS
<1>4. collected \in Trees /\ FilesOf(collected) \subseteq Covered /\ "plan" \in PushSteps
  BY <1>3, OnlyTyped, OnlyFiles, ScopeCovered, PushFacts DEF PushSteps
<1>5. r = [run EXCEPT !.at = "plan", !.collected = collected] BY <1>2, <1>3 DEF CollectAgain
<1>6. /\ r \in PushRuns /\ r.at = "plan" /\ r.collected = collected
      /\ r.based = run.based /\ r.force = run.force /\ r.excluded = run.excluded
      /\ r.sends = run.sends /\ r.first = run.first /\ r.claims = run.claims
      /\ r.landed = run.landed /\ r.reference = run.reference /\ r.parent = run.parent
  BY <1>4, <1>5, PushFacts DEF PushRuns
<1>7. run.sends # 0 /\ ~run.force /\ copyKind = "folder" /\ run.excluded = {}
  BY <1>1, PushFacts DEF Placed
<1>8. RunNames(r) BY <1>6, PushFacts DEF RunNames
<1>9. Placed(r) /\ Claimed(r) /\ Recorded(r)
  BY <1>6, <1>7 DEF Placed, Sends, Claimed, Landed, Recorded
<1>10. Payload(r) BY <1>4, <1>6 DEF Payload, Sends
<1>11. Referred(r, FirstOrAlone) BY <1>1, <1>6, PushFacts DEF Referred, Compared
<1>12. CheckType' /\ AsksSay' BY <1>1, <1>2, <1>6, AskStands
<1> QED BY <1>1, <1>2, <1>6, <1>8, <1>9, <1>10, <1>11, <1>12, RunSteps DEF RunSays

-----------------------------------------------------------------------------
\* A payload worked out leaves the run saying what it said.
LEMMA PlannedRun ==
    ASSUME PushInv, run.at = "plan", NEW chunked \in BOOLEAN, NEW r, r = Planned(chunked)
    PROVE  /\ r \in PushRuns /\ RunNames(r) /\ RunSays(r, FirstOrAlone) /\ r.at = "send"
           /\ r.sends # 0 /\ (run.sends # 0 => r.first = run.first)
           /\ r.deletes = DeletedPaths
<1>1. PICK parent : parent = IF run.force THEN NoParent ELSE run.parent OBVIOUS
<1>2. PICK reference : reference = Reference OBVIOUS
<1>3. PICK excluded : excluded = Excluded OBVIOUS
<1>4. PICK recordBase : recordBase = IF OnTheHeadAlone THEN run.reference
                                     ELSE Without(run.reference, Excluded)
  OBVIOUS
<1>5. PICK first : first = IF run.sends = 0 THEN parent ELSE run.first OBVIOUS
<1>6. PICK left, deletes, hashOnly :
         left = ChangedPaths /\ deletes = DeletedPaths /\ hashOnly = StandingHeadEntry
  OBVIOUS
<1>7. r = [run EXCEPT
             !.at = "send", !.reference = reference, !.excluded = excluded,
             !.recordBase = recordBase, !.left = left, !.deletes = deletes,
             !.hashOnly = hashOnly, !.chunked = chunked, !.claims = parent,
             !.first = first, !.parent = parent,
             !.uploaded = {}, !.resent = FALSE, !.sends = run.sends + 1]
  BY <1>1, <1>2, <1>3, <1>4, <1>5, <1>6 DEF Planned
<1>8. /\ excluded \in SUBSET Paths /\ excluded \cap FilesOf(run.collected) = {}
      /\ (copyKind = "folder" => excluded = {})
  BY <1>3 DEF Excluded, ExcludedOnDisk, FilesOf
<1>9. /\ reference \in Trees /\ recordBase \in Trees
      /\ (run.force => reference = EmptyTree)
      /\ (~run.force => reference = Without(run.reference, excluded))
  <2>1. run.reference \in Trees /\ EmptyTree \in Trees
    BY PushFacts DEF PushRuns, EmptyTree, Trees
  <2>2. Without(run.reference, excluded) \in Trees BY <2>1, OnlyTyped DEF Without
  <2> QED BY <1>2, <1>3, <1>4, <2>1, <2>2 DEF Reference
<1>10. /\ left \subseteq FilesOf(run.collected) /\ hashOnly \subseteq FilesOf(run.collected)
       /\ \A p \in FilesOf(run.collected) \ left : run.collected[p] = reference[p]
  BY <1>2, <1>6 DEF ChangedPaths, StandingHeadEntry
<1>11. deletes \subseteq (FilesOf(reference) \ FilesOf(run.collected)) \cap Covered
  BY <1>2, <1>6, ScopeCovered DEF DeletedPaths, FilesOf
<1>12. /\ parent \in Nat /\ parent <= HeadCommit /\ first \in Nat /\ first <= HeadCommit
       /\ run.sends \in Nat
  BY <1>1, <1>5, PushFacts DEF PushRuns, RunNames, NoParent
<1>13. /\ r \in PushRuns
       /\ r.at = "send" /\ r.reference = reference /\ r.excluded = excluded
       /\ r.recordBase = recordBase /\ r.left = left /\ r.deletes = deletes
       /\ r.hashOnly = hashOnly /\ r.claims = parent /\ r.first = first /\ r.parent = parent
       /\ r.uploaded = {} /\ r.sends = run.sends + 1
       /\ r.force = run.force /\ r.based = run.based /\ r.collected = run.collected
       /\ r.landed = run.landed
  <2>1. /\ left \in SUBSET Paths /\ deletes \in SUBSET Paths /\ hashOnly \in SUBSET Paths
        /\ "send" \in PushSteps /\ run.sends + 1 \in Nat
    BY <1>10, <1>11, <1>12 DEF FilesOf, PushSteps
  <2>2. PICK half : half =
           [run EXCEPT !.at = "send", !.reference = reference, !.excluded = excluded,
                       !.recordBase = recordBase, !.left = left, !.deletes = deletes,
                       !.hashOnly = hashOnly]
    OBVIOUS
  <2>3. r = [half EXCEPT !.chunked = chunked, !.claims = parent, !.first = first,
                         !.parent = parent, !.uploaded = {}, !.resent = FALSE,
                         !.sends = run.sends + 1]
    BY <1>7, <2>2
  <2>4. run \in PushRuns BY PushFacts
  <2>5. /\ half \in PushRuns
        /\ half.at = "send" /\ half.reference = reference /\ half.excluded = excluded
        /\ half.recordBase = recordBase /\ half.left = left /\ half.deletes = deletes
        /\ half.hashOnly = hashOnly /\ half.force = run.force /\ half.based = run.based
        /\ half.collected = run.collected /\ half.landed = run.landed
    BY <1>8, <1>9, <2>1, <2>2, <2>4 DEF PushRuns
  <2>6. PICK most : most =
           [half EXCEPT !.chunked = chunked, !.claims = parent, !.first = first,
                        !.parent = parent]
    OBVIOUS
  <2>7. r = [most EXCEPT !.uploaded = {}, !.resent = FALSE, !.sends = run.sends + 1]
    BY <2>3, <2>6
  <2>8. /\ most \in PushRuns
        /\ most.at = half.at /\ most.reference = half.reference
        /\ most.excluded = half.excluded /\ most.recordBase = half.recordBase
        /\ most.left = half.left /\ most.deletes = half.deletes
        /\ most.hashOnly = half.hashOnly /\ most.force = half.force
        /\ most.based = half.based /\ most.collected = half.collected
        /\ most.landed = half.landed
        /\ most.claims = parent /\ most.first = first /\ most.parent = parent
    BY <1>12, <2>5, <2>6 DEF PushRuns
  <2>9. {} \in SUBSET Paths /\ FALSE \in BOOLEAN OBVIOUS
  <2>10. r \in PushRuns BY <2>1, <2>7, <2>8, <2>9 DEF PushRuns
  <2>11. /\ r.at = most.at /\ r.reference = most.reference
         /\ r.excluded = most.excluded /\ r.recordBase = most.recordBase
         /\ r.left = most.left /\ r.deletes = most.deletes
         /\ r.hashOnly = most.hashOnly /\ r.force = most.force
         /\ r.based = most.based /\ r.collected = most.collected
         /\ r.landed = most.landed /\ r.claims = most.claims /\ r.first = most.first
         /\ r.parent = most.parent
    BY <2>7, <2>8 DEF PushRuns
  <2>12. r.uploaded = {} /\ r.sends = run.sends + 1 BY <2>7, <2>8 DEF PushRuns
  <2> QED BY <2>5, <2>8, <2>10, <2>11, <2>12
<1>14. RunNames(r) BY <1>12, <1>13, PushFacts DEF RunNames
<1>15. /\ (run.force => run.sends = 0 /\ parent = 0 /\ first = 0)
       /\ (copyKind = "copy" => run.sends = 0 /\ first = parent)
       /\ run.excluded = {}
  BY <1>1, <1>5, PushFacts DEF Placed, NoParent
<1>16. Placed(r) BY <1>8, <1>12, <1>13, <1>15 DEF Placed, Sends
<1>17. Claimed(r) BY <1>12, <1>13 DEF Claimed, Sends, Landed, Sent
<1>18. ASSUME FirstOrAlone, ~run.force
       PROVE  run.reference = Standing(parent)
  <2>1. run.reference = Without(Standing(run.parent), run.excluded)
    BY <1>18, PushFacts DEF Referred, Compared
  <2>2. Standing(parent) \in Trees BY <1>12, PushFacts, StandingTyped
  <2> QED BY <1>1, <1>15, <1>18, <2>1, <2>2, WithoutNone
<1>19. Referred(r, FirstOrAlone)
  <2>1. FirstOrAlone => run.based.files = Standing(run.based.commit)
    BY PushFacts DEF Referred
  <2>2. FirstOrAlone /\ ~run.force => reference = Without(Standing(parent), excluded)
    BY <1>9, <1>18
  <2>3. ASSUME copyKind = "folder", ~run.force
        PROVE  first <= parent /\ \A p \in Folder : TreeAt(first)[p] = TreeAt(parent)[p]
    <3>1. CASE run.sends = 0 BY <1>5, <1>12, <3>1
    <3>2. CASE run.sends # 0 BY <1>1, <1>5, <2>3, <3>2, PushFacts DEF Referred
    <3> QED BY <3>1, <3>2
  <2> QED BY <1>13, <2>1, <2>2, <2>3 DEF Referred
<1>20. Payload(r)
  BY <1>8, <1>10, <1>11, <1>13, PushFacts DEF Payload, Landed
<1>21. FirstOrAlone => Recorded(r)
  <2> SUFFICES ASSUME FirstOrAlone, copyKind = "copy", ~run.force, NEW p \in Paths
               PROVE  \/ recordBase[p] = TreeAt(parent)[p]
                      \/ p \in excluded /\ recordBase[p] = Absent
    BY <1>13 DEF Recorded
  <2>1. run.reference = TreeAt(parent) BY <1>12, <1>18, PushFacts, WholeStanding
  <2> QED BY <1>3, <1>4, <2>1 DEF Without, Only
<1> QED
  BY <1>5, <1>6, <1>12, <1>13, <1>14, <1>16, <1>17, <1>19, <1>20, <1>21 DEF RunSays

LEMMA PlanKeeps == PushInv /\ Plan => PushInv'
<1> SUFFICES ASSUME PushInv, Plan PROVE PushInv' OBVIOUS
<1>1. /\ run.at = "plan" /\ UNCHANGED <<versions, copyKind, disk, base, outer, record, runs>>
      /\ Grows
  BY DEF Plan, copyVars, Grows
<1>2. CASE Ends BY <1>1, <1>2, RunEnds
<1>3. ASSUME NEW chunked \in BOOLEAN, run' = Planned(chunked), UNCHANGED check PROVE PushInv'
  <2>1. PICK r : r = Planned(chunked) OBVIOUS
  <2>2. /\ r \in PushRuns /\ RunNames(r) /\ RunSays(r, FirstOrAlone) /\ r.at = "send"
        /\ r.sends # 0 /\ (run.sends # 0 => r.first = run.first)
    BY <1>1, <2>1, PlannedRun
  <2>3. CheckType' /\ AsksSay' BY <1>3, <2>1, <2>2, AskStands
  <2> QED BY <1>1, <1>3, <2>1, <2>2, <2>3, RunSteps
<1> QED BY <1>2, <1>3 DEF Plan

LEMMA EndingsKeep ==
    PushInv /\ (SendRefused \/ GiveUp) => PushInv'
<1> SUFFICES ASSUME PushInv, SendRefused \/ GiveUp PROVE PushInv' OBVIOUS
<1>1. /\ UNCHANGED <<copyKind, disk, base, outer, record, runs>> /\ Grows /\ Ends
  BY DEF SendRefused, GiveUp, copyVars, Grows
<1> QED BY <1>1, RunEnds

\* A body that lands: the head holds what the body named, over what it held.
LEMMA BodyLands ==
    ASSUME PushInv, run.at = "send", NEW batch \in Batches, Lands(batch)
    PROVE  /\ batch \subseteq run.left /\ Grows
           /\ run.claims = 0 \/ run.claims = HeadCommit
           /\ \A p \in Paths :
                 HeadTree'[p] = IF p \in batch \/ (batch = run.left /\ p \in run.deletes)
                                THEN run.collected[p] ELSE HeadTree[p]
<1>1. batch \subseteq run.left BY DEF Batches
<1>2. run.claims = 0 \/ run.claims = HeadCommit BY DEF Lands, PassesHeadCheck, NoParent
<1>3. PICK changes : changes = BodyChanges(batch) OBVIOUS
<1>4. PICK tree : tree = LaidOver(HeadTree, changes) OBVIOUS
<1>5. /\ \A p \in Paths : p \in DOMAIN changes <=>
                             p \in batch \/ (batch = run.left /\ p \in run.deletes)
      /\ \A p \in DOMAIN changes : changes[p] = run.collected[p]
  BY <1>3 DEF BodyChanges, IsLast
<1>6. tree \in Trees
  <2>1. run.collected \in Trees BY PushFacts DEF PushRuns
  <2>2. \A p \in DOMAIN changes \cap Paths : changes[p] \in Contents \cup {Absent}
    BY <1>5, <2>1 DEF Trees
  <2> QED BY <1>4, <2>2, LaidOverType, PushFacts
<1>7. (versions' = versions /\ tree = HeadTree) \/ versions' = Append(versions, tree)
  BY <1>3, <1>4 DEF Lands, Applied
<1>8. Grows BY <1>6, <1>7 DEF Grows
<1>9. HeadTree' = tree
  <2>1. CASE versions' = versions /\ tree = HeadTree
    BY <2>1 DEF HeadTree, HeadCommit, TreeAt
  <2>2. CASE versions' = Append(versions, tree)
    <3>1. versions \in Seq(Trees) BY PushFacts
    <3>2. Len(versions') = Len(versions) + 1 /\ versions'[Len(versions')] = tree
      BY <1>6, <2>2, <3>1
    <3> QED BY <3>1, <3>2 DEF HeadTree, HeadCommit, TreeAt
  <2> QED BY <1>7, <2>1, <2>2
<1> QED BY <1>1, <1>2, <1>4, <1>5, <1>8, <1>9 DEF LaidOver

LEMMA SendUnansweredKeeps == PushInv /\ SendUnanswered => PushInv'
<1> SUFFICES ASSUME PushInv, SendUnanswered PROVE PushInv' OBVIOUS
<1>1. /\ run.at = "send" /\ Ends /\ UNCHANGED <<copyKind, disk, base, outer, record, runs>>
  BY DEF SendUnanswered, copyVars
<1>2. PICK batch \in Batches : Lands(batch) BY DEF SendUnanswered
<1>3. Grows BY <1>1, <1>2, BodyLands
<1> QED BY <1>1, <1>3, RunEnds

\* What the run said before a body landed is said of it still.
LEMMA SaidStill ==
    ASSUME PushInv, Grows, UNCHANGED <<copyKind, outer, runs>>, NEW q, q = run
    PROVE  /\ q \in PushRuns /\ RunNames(q)' /\ Referred(q, FirstOrAlone)' /\ Payload(q)'
           /\ (FirstOrAlone => Recorded(q)') /\ FirstOrAlone' = FirstOrAlone
<1>1. PICK known \in BOOLEAN : known = FirstOrAlone BY DEF FirstOrAlone
<1>2. q \in PushRuns /\ RunNames(q) BY PushFacts
<1>3. RunSays(q, known) BY <1>1 DEF PushInv
<1>4. RunNames(q)' /\ RunSays(q, known)' BY <1>2, <1>3, PushFacts, RunStands
<1>5. FirstOrAlone' = known BY <1>1 DEF FirstOrAlone
<1>6. Referred(q, FirstOrAlone)' BY <1>4, <1>5 DEF RunSays, Referred
<1> QED BY <1>1, <1>2, <1>4, <1>5, <1>6 DEF RunSays

LEMMA SendAcceptedKeeps == PushInv /\ SendAccepted => PushInv'
<1> SUFFICES ASSUME PushInv, SendAccepted PROVE PushInv' OBVIOUS
<1>1. run.at = "send" /\ UNCHANGED <<check, copyKind, disk, base, outer, record, runs>>
  BY DEF SendAccepted, copyVars
<1>2. PICK batch \in Batches : Lands(batch) /\ run' = AfterLanding(batch, Len(versions'))
  BY DEF SendAccepted
<1>3. /\ batch \subseteq run.left /\ Grows
      /\ run.claims = 0 \/ run.claims = HeadCommit
      /\ \A p \in Paths :
            HeadTree'[p] = IF p \in batch \/ (batch = run.left /\ p \in run.deletes)
                           THEN run.collected[p] ELSE HeadTree[p]
  BY <1>1, <1>2, BodyLands
<1>4. PICK q : q = run OBVIOUS
<1>5. PICK r : r = run' OBVIOUS
<1>6. PICK n : n = HeadCommit' OBVIOUS
<1>7. /\ versions' \in Seq(Trees) /\ n \in Nat /\ n >= HeadCommit
      /\ \A m \in 0 .. HeadCommit : TreeAt(m)' = TreeAt(m)
  BY <1>3, <1>6, PushFacts, VersionsStand
<1>8. PICK at \in {"record", "lay", "send"} :
         /\ at = IF copyKind = "copy" THEN "record"
                 ELSE IF batch = run.left THEN "lay" ELSE "send"
  OBVIOUS
<1>9. r = [run EXCEPT !.at = at, !.left = run.left \ batch,
                      !.uploaded = run.uploaded \cup batch, !.claims = n, !.landed = n]
  BY <1>2, <1>5, <1>6, <1>8 DEF AfterLanding, IsLast, HeadCommit
<1>10. /\ r \in PushRuns
       /\ r.at = at /\ r.left = run.left \ batch /\ r.uploaded = run.uploaded \cup batch
       /\ r.claims = n /\ r.landed = n
       /\ r.force = run.force /\ r.based = run.based /\ r.reference = run.reference
       /\ r.parent = run.parent /\ r.first = run.first /\ r.recordBase = run.recordBase
       /\ r.excluded = run.excluded /\ r.collected = run.collected
       /\ r.deletes = run.deletes /\ r.hashOnly = run.hashOnly /\ r.sends = run.sends
  <2>1. run.left \ batch \in SUBSET Paths /\ run.uploaded \cup batch \in SUBSET Paths
        /\ at \in PushSteps
    BY <1>3, <1>8, PushFacts DEF PushRuns, PushSteps
  <2>2. run \in PushRuns BY PushFacts
  <2> QED BY <1>7, <1>9, <2>1, <2>2 DEF PushRuns
<1>11. /\ q \in PushRuns /\ RunNames(q)' /\ Referred(q, FirstOrAlone)' /\ Payload(q)'
       /\ (FirstOrAlone => Recorded(q)') /\ FirstOrAlone' = FirstOrAlone
  BY <1>1, <1>3, <1>4, SaidStill
<1>12. RunNames(r)' BY <1>4, <1>6, <1>7, <1>10, <1>11 DEF RunNames
<1>13. run.sends # 0 /\ (run.force => run.parent = 0 /\ run.first = 0)
       /\ (copyKind = "copy" => run.parent = run.first)
  BY <1>1, PushFacts DEF Placed, Sends
<1>14. Placed(r)'
  BY <1>1, <1>8, <1>10, <1>13, PushFacts DEF Placed, Sends
<1>15. Landed(r) => batch = run.left
  BY <1>3, <1>8, <1>10 DEF Landed
<1>16. batch = run.left => r.at = "send" \/ Landed(r) BY <1>8, <1>10 DEF Landed
<1>17. Claimed(r)'
  <2>1. ASSUME run.parent # 0, NEW p \in Paths PROVE TreeAt(n)'[p] = Sent(r, p)'
    <3>1. /\ run.claims >= run.parent /\ TreeAt(run.claims)[p] = Sent(run, p)
          /\ run.parent \in Nat /\ run.parent <= HeadCommit
      BY <1>1, <2>1, PushFacts DEF Claimed, Sends, RunNames, PushRuns
    <3>2. run.claims = HeadCommit BY <1>3, <2>1, <3>1
    <3>3. HeadTree[p] = IF p \in run.uploaded THEN run.collected[p] ELSE TreeAt(run.parent)[p]
      BY <1>1, <3>1, <3>2 DEF HeadTree, Sent, Landed
    <3>4. PICK parent : parent = run.parent OBVIOUS
    <3>11. parent \in 0 .. HeadCommit BY <3>1, <3>4, PushFacts
    <3>12. TreeAt(parent)' = TreeAt(parent) BY <1>7, <3>11
    <3>5. TreeAt(n)' = HeadTree' BY <1>6 DEF HeadTree
    <3>6. p \in run.deletes => run.collected[p] = Absent
      BY <1>1, PushFacts DEF Payload, Sends, FilesOf
    <3>7. Landed(r)' <=> Landed(r) BY DEF Landed
    <3>8. TreeAt(r.parent)' = TreeAt(run.parent) BY <1>10, <3>4, <3>12
    <3>9. batch = run.left => Landed(r)
      BY <1>8, <1>10 DEF Landed
    <3>10. Sent(r, p)' = IF p \in run.uploaded \cup batch THEN run.collected[p]
                         ELSE IF Landed(r) /\ p \in run.deletes THEN Absent
                         ELSE TreeAt(run.parent)[p]
      BY <1>10, <3>7, <3>8 DEF Sent
    <3> QED BY <1>3, <1>15, <3>3, <3>5, <3>6, <3>9, <3>10
  <2>2. run.parent # 0 => n >= run.parent
    BY <1>7, PushFacts DEF RunNames, PushRuns
  <2> QED BY <1>10, <2>1, <2>2 DEF Claimed, Sends, Landed
<1>18. Referred(r, FirstOrAlone)'
  BY <1>1, <1>4, <1>8, <1>10, <1>11 DEF Referred, Compared
<1>19. Payload(r)'
  <2>1. (Landed(r) => r.left = {}) /\ Landed(r)' = Landed(r) BY <1>10, <1>15 DEF Landed
  <2>2. r.left \cup r.uploaded = run.left \cup run.uploaded BY <1>3, <1>10
  <2> QED BY <1>1, <1>4, <1>10, <1>11, <2>1, <2>2 DEF Payload, Sends
<1>20. FirstOrAlone => Recorded(r)'
  BY <1>1, <1>4, <1>10, <1>11 DEF Recorded, Sends
<1>21. RunNames(run)' /\ RunSays(run, FirstOrAlone)'
  <2>1. RunNames(run)' BY <1>5, <1>12 DEF RunNames
  <2>2. RunSays(run, FirstOrAlone)'
    BY <1>5, <1>11, <1>14, <1>17, <1>18, <1>19, <1>20
       DEF RunSays, Placed, Claimed, Referred, Payload, Recorded, Sends, Landed, Compared, Sent
  <2> QED BY <2>1, <2>2
<1>22. CheckType' /\ AsksSay' BY <1>1, <1>5, <1>8, <1>10, AskStands
<1>23. disk' \in Trees /\ runs # 0 BY <1>1, PushFacts
<1>24. run' \in PushRuns BY <1>5, <1>10
<1> QED BY <1>1, <1>3, <1>21, <1>22, <1>23, <1>24, RunMoves

LEMMA SendTooLargeKeeps == PushInv /\ SendTooLarge => PushInv'
<1> SUFFICES ASSUME PushInv, SendTooLarge PROVE PushInv' OBVIOUS
<1>1. /\ run.at = "send" /\ UNCHANGED <<versions, check, copyKind, disk, base, outer, record, runs>>
      /\ run \in PushRuns
  BY PushFacts DEF SendTooLarge, copyVars
<1>2. PICK r : r = run' OBVIOUS
<1>3. /\ r \in PushRuns /\ r.at = run.at /\ r.left = run.left /\ r.uploaded = run.uploaded
      /\ r.claims = run.claims /\ r.landed = run.landed
      /\ r.force = run.force /\ r.based = run.based /\ r.reference = run.reference
      /\ r.parent = run.parent /\ r.first = run.first /\ r.recordBase = run.recordBase
      /\ r.excluded = run.excluded /\ r.collected = run.collected
      /\ r.deletes = run.deletes /\ r.hashOnly = run.hashOnly /\ r.sends = run.sends
  BY <1>1, <1>2 DEF SendTooLarge, PushRuns
<1>4. RunNames(r) BY <1>3, PushFacts DEF RunNames
<1>5. RunSays(r, FirstOrAlone)
  BY <1>3 DEF PushInv, RunSays, Placed, Claimed, Referred, Payload, Recorded, Sends, Landed, Compared,
              Sent
<1>6. CheckType' /\ AsksSay' BY <1>1, <1>2, <1>3, AskStands
<1> QED BY <1>1, <1>2, <1>3, <1>4, <1>5, <1>6, RunSteps

LEMMA SendMissesBlobsKeeps == PushInv /\ SendMissesBlobs => PushInv'
<1> SUFFICES ASSUME PushInv, SendMissesBlobs PROVE PushInv' OBVIOUS
<1>1. /\ run.at = "send" /\ UNCHANGED <<versions, check, copyKind, disk, base, outer, record, runs>>
      /\ run \in PushRuns
  BY PushFacts DEF SendMissesBlobs, copyVars
<1>2. PICK r : r = run' OBVIOUS
<1>3. /\ r \in PushRuns /\ r.at = run.at /\ r.left = run.left \cup run.hashOnly
      /\ r.uploaded = run.uploaded
      /\ r.claims = run.claims /\ r.landed = run.landed
      /\ r.force = run.force /\ r.based = run.based /\ r.reference = run.reference
      /\ r.parent = run.parent /\ r.first = run.first /\ r.recordBase = run.recordBase
      /\ r.excluded = run.excluded /\ r.collected = run.collected
      /\ r.deletes = run.deletes /\ r.hashOnly = {} /\ r.sends = run.sends
  <2>1. run.left \cup run.hashOnly \in SUBSET Paths /\ {} \in SUBSET Paths BY <1>1 DEF PushRuns
  <2> QED BY <1>1, <1>2, <2>1 DEF SendMissesBlobs, PushRuns
<1>4. RunNames(r) BY <1>3, PushFacts DEF RunNames
<1>5. ~Landed(r) /\ ~Landed(run) BY <1>1, <1>3 DEF Landed
<1>6. Placed(r) /\ Referred(r, FirstOrAlone) /\ (FirstOrAlone => Recorded(r))
  BY <1>3, PushFacts DEF Placed, Referred, Recorded, Sends, Compared
<1>7. Claimed(r)
  <2>1. \A p : Sent(r, p) = Sent(run, p) BY <1>3, <1>5 DEF Sent
  <2> QED BY <1>3, <1>5, <2>1, PushFacts DEF Claimed, Sends
<1>8. Payload(r) BY <1>1, <1>3, <1>5, PushFacts DEF Payload, Sends
<1>9. CheckType' /\ AsksSay' BY <1>1, <1>2, <1>3, AskStands
<1> QED BY <1>1, <1>2, <1>3, <1>4, <1>6, <1>7, <1>8, <1>9, RunSteps DEF RunSays

LEMMA SendConflictsKeeps == PushInv /\ SendConflicts => PushInv'
<1> SUFFICES ASSUME PushInv, SendConflicts PROVE PushInv' OBVIOUS
<1>1. /\ run.at = "send" /\ UNCHANGED <<versions, copyKind, disk, base, outer, record, runs>>
      /\ run \in PushRuns
  BY PushFacts DEF SendConflicts, copyVars
<1>2. CASE ~MaySendAgain
  <2>1. Ends /\ Grows BY <1>1, <1>2 DEF SendConflicts, Grows
  <2> QED BY <1>1, <2>1, RunEnds
<1>3. CASE MaySendAgain
  <2>1. /\ run' = [run EXCEPT !.at = "check", !.claims = HeadCommit]
        /\ check' = IF check = NoCheck THEN CheckFrom(run.first, 0, FALSE) ELSE AskedAgain
        /\ copyKind = "folder" /\ ~run.force
    BY <1>3 DEF SendConflicts, MaySendAgain
  <2>2. PICK r : r = run' OBVIOUS
  <2>3. /\ r \in PushRuns /\ r.at = "check" /\ r.claims = HeadCommit /\ r.landed = run.landed
        /\ r.force = run.force /\ r.based = run.based /\ r.reference = run.reference
        /\ r.parent = run.parent /\ r.first = run.first
        /\ r.excluded = run.excluded /\ r.collected = run.collected /\ r.sends = run.sends
    BY <1>1, <2>1, <2>2, PushFacts DEF PushRuns, PushSteps
  <2>4. RunNames(r) BY <2>3, PushFacts DEF RunNames
  <2>5. run.sends # 0 /\ run.excluded = {} BY <1>1, <2>1, PushFacts DEF Placed, Sends
  <2>6. RunSays(r, FirstOrAlone)
    <3>1. Placed(r) /\ Claimed(r) /\ Recorded(r)
      BY <2>1, <2>3, <2>5 DEF Placed, Claimed, Recorded, Sends, Landed
    <3>2. Payload(r) BY <2>3, PushFacts DEF Payload, Sends
    <3>3. Referred(r, FirstOrAlone) BY <1>1, <2>3, PushFacts DEF Referred, Compared
    <3> QED BY <3>1, <3>2, <3>3 DEF RunSays
  <2>7. /\ check' = CheckFrom(check'.since, check'.number, check'.identity)
        /\ check'.since = run.first /\ check'.number \in {0, run.first}
        /\ check'.identity \in BOOLEAN
    <3>1. CASE check = NoCheck BY <2>1, <3>1 DEF CheckFrom
    <3>2. CASE check # NoCheck
      <4>1. check' = CheckFrom(check.since, check.number, check.identity)
        BY <2>1, <3>2 DEF AskedAgain
      <4>2. check.since = run.first /\ check.number \in {0, run.first}
        BY <3>2, PushFacts DEF AsksSay
      <4>3. check.identity \in BOOLEAN BY PushFacts DEF CheckType
      <4> QED BY <4>1, <4>2, <4>3 DEF CheckFrom
    <3> QED BY <3>1, <3>2
  <2>8. /\ check'.at = "newest" /\ check'.newest = 0
        /\ CheckType'
    BY <1>1, <2>7 DEF CheckFrom, CheckType, CheckSteps, PushRuns
  <2>9. AsksSay'
    <3>1. r.first <= r.claims BY <2>3, PushFacts DEF RunNames
    <3>2. CheckSays(r.claims)' BY <2>8 DEF CheckSays
    <3>3. CheckSays(run.claims)' BY <2>2, <3>2 DEF CheckSays
    <3> QED BY <2>2, <2>3, <2>5, <2>7, <2>8, <3>1, <3>3 DEF AsksSay
  <2> QED BY <1>1, <2>2, <2>3, <2>4, <2>6, <2>8, <2>9, RunSteps
<1> QED BY <1>2, <1>3

LEMMA CheckRunsKeeps == PushInv /\ CheckRuns => PushInv'
<1> SUFFICES ASSUME PushInv, CheckRuns PROVE PushInv' OBVIOUS
<1>1. /\ run.at = "check" /\ CheckStep
      /\ UNCHANGED <<versions, copyKind, disk, base, outer, record, runs, run>>
  BY DEF CheckRuns, copyVars, CheckStep
<1>2. PICK r : r = run OBVIOUS
<1>3. r \in PushRuns /\ RunNames(r) /\ RunSays(r, FirstOrAlone) /\ run' = r
  BY <1>1, <1>2 DEF PushInv
<1>4. /\ run.sends # 0 /\ check.since = run.first /\ check.number \in {0, run.first}
      /\ run.first <= run.claims /\ CheckSays(run.claims)
  BY <1>1, PushFacts DEF AsksSay, Placed
<1>5. /\ check'.since = check.since /\ check'.number \in {check.number, check.since}
      /\ check'.at # "none" /\ CheckType'
  BY <1>1, PushFacts, CheckKeepsAsking
<1>6. CheckSays(r.claims)'
  <2>1. r.claims \in 0 .. HeadCommit BY <1>3, PushFacts DEF RunNames, PushRuns
  <2>2. CheckSays(r.claims) BY <1>2, <1>4
  <2>3. check.number \in {0, check.since} BY <1>4
  <2> QED BY <1>1, <2>1, <2>2, <2>3, PushFacts, CheckSaysNext
<1>7. CheckSays(run.claims)' BY <1>3, <1>6 DEF CheckSays
<1>8. AsksSay' BY <1>1, <1>4, <1>5, <1>7 DEF AsksSay
<1> QED BY <1>1, <1>3, <1>5, <1>8, RunSteps

LEMMA SendAgainKeeps == PushInv /\ SendAgain => PushInv'
<1> SUFFICES ASSUME PushInv, SendAgain PROVE PushInv' OBVIOUS
<1>1. /\ run.at = "check" /\ check.at = "unmoved" /\ run \in PushRuns
      /\ UNCHANGED <<versions, check, copyKind, disk, base, outer, record, runs>>
  BY PushFacts DEF SendAgain, copyVars
<1>2. PICK r : r = run' OBVIOUS
<1>3. /\ r \in PushRuns /\ r.at = "again" /\ r.claims = run.claims /\ r.landed = run.landed
      /\ r.force = run.force /\ r.based = run.based /\ r.reference = run.reference
      /\ r.parent = run.claims /\ r.first = run.first
      /\ r.excluded = run.excluded /\ r.collected = run.collected /\ r.sends = run.sends
  BY <1>1, <1>2 DEF SendAgain, PushRuns, PushSteps
<1>4. RunNames(r) BY <1>3, PushFacts DEF RunNames
<1>5. run.sends # 0 /\ run.excluded = {} /\ copyKind = "folder" /\ ~run.force
  BY <1>1, PushFacts DEF Placed
<1>6. /\ check.since = run.first /\ run.first <= run.claims /\ CheckSays(run.claims)
      /\ run.first \in 0 .. HeadCommit /\ run.claims \in 0 .. HeadCommit
  BY <1>1, PushFacts DEF AsksSay, PushRuns, RunNames
<1>7. \A p \in Folder : TreeAt(run.first)[p] = TreeAt(run.claims)[p]
  <2>1. Quiet(run.first, run.claims) BY <1>1, <1>6 DEF CheckSays
  <2> QED BY <1>6, <2>1, PushFacts DEF LineInv, FolderSteady
<1>8. Standing(run.claims) = Standing(run.parent)
  <2>1. \A p \in Folder : TreeAt(run.first)[p] = TreeAt(run.parent)[p]
    BY <1>1, <1>5, PushFacts DEF Referred
  <2>2. Covered = Folder BY <1>5 DEF Covered
  <2> QED BY <1>7, <2>1, <2>2 DEF Standing, Only
<1>9. Placed(r) /\ Claimed(r) /\ Recorded(r)
  BY <1>3, <1>5 DEF Placed, Claimed, Recorded, Sends, Landed
<1>10. Payload(r) BY <1>3, PushFacts DEF Payload, Sends
<1>11. Referred(r, FirstOrAlone)
  <2>1. FirstOrAlone => run.reference = Without(Standing(run.parent), run.excluded)
    BY <1>1, <1>5, PushFacts DEF Referred, Compared
  <2>2. FirstOrAlone => run.based.files = Standing(run.based.commit) BY PushFacts DEF Referred
  <2> QED BY <1>3, <1>6, <1>7, <1>8, <2>1, <2>2 DEF Referred
<1>12. CheckType' /\ AsksSay' BY <1>1, <1>2, <1>3, AskStands
<1> QED BY <1>1, <1>2, <1>3, <1>4, <1>9, <1>10, <1>11, <1>12, RunSteps DEF RunSays

-----------------------------------------------------------------------------
\* The pieces of the invariant after a step, put together.
LEMMA PushFolds ==
    ASSUME PushInv, Grows, UNCHANGED copyKind, CopyTyped', CopySays', CheckType', AsksSay',
           FirstOrAlone' => FirstOrAlone,
           \E r \in PushRuns : run' = r /\ RunNames(r) /\ RunSays(r, FirstOrAlone)
    PROVE  PushInv'
<1>1. LineInv' BY LineGrows DEF PushInv
<1>2. PICK r \in PushRuns : run' = r /\ RunNames(r) /\ RunSays(r, FirstOrAlone) OBVIOUS
<1>3. PICK known \in BOOLEAN : known = FirstOrAlone BY DEF FirstOrAlone
<1>4. PICK after \in BOOLEAN : after = FirstOrAlone' BY DEF FirstOrAlone
<1>5. RunNames(r)' /\ RunSays(r, after)' BY <1>2, <1>3, <1>4, RunStands, PushFacts
<1>6. RunNames(run)' BY <1>2, <1>5 DEF RunNames
<1>7. RunSays(run, FirstOrAlone)'
  BY <1>2, <1>4, <1>5
     DEF RunSays, Placed, Claimed, Referred, Payload, Recorded, Sends, Landed, Compared, Sent
<1> QED BY <1>1, <1>2, <1>6, <1>7 DEF PushInv

LEMMA EndsSay ==
    ASSUME PushInv, Ends
    PROVE  /\ CheckType' /\ AsksSay' /\ run'.at = "idle"
           /\ \E r \in PushRuns : run' = r /\ RunNames(r) /\ RunSays(r, FirstOrAlone)
<1>1. run' = IdleRun /\ check' = NoCheck /\ IdleRun.at = "idle" BY DEF Ends, IdleRun
<1>2. PICK known \in BOOLEAN : known = FirstOrAlone BY DEF FirstOrAlone
<1>3. IdleRun \in PushRuns /\ RunNames(IdleRun) /\ RunSays(IdleRun, FirstOrAlone)
  BY <1>2, IdleSays, PushFacts
<1>4. CheckType' BY <1>1 DEF CheckType, NoCheck, CheckSteps
<1>5. AsksSay' BY <1>1 DEF AsksSay
<1> HIDE DEF IdleRun
<1> QED BY <1>1, <1>3, <1>4, <1>5

\* What the copy's files say is said of versions that did not move.
LEMMA SameVersions ==
    ASSUME UNCHANGED <<versions, copyKind>>
    PROVE  /\ HeadCommit' = HeadCommit /\ Grows
           /\ \A n : TreeAt(n)' = TreeAt(n) /\ Standing(n)' = Standing(n)
<1>1. HeadCommit' = HeadCommit /\ \A n : TreeAt(n)' = TreeAt(n) BY DEF HeadCommit, TreeAt
<1> QED BY <1>1 DEF Standing, Only, Covered, Grows

\* A publication that landed over what the run compared with holds, of the
\* copy, what was collected, and nothing of what was named gone.
LEMMA LandedTree ==
    ASSUME PushInv, Landed(run), run.parent # 0
    PROVE  /\ run.landed = run.claims /\ run.landed >= run.parent /\ ~run.force
           /\ \A p \in Paths \ Covered : TreeAt(run.landed)[p] = TreeAt(run.parent)[p]
           /\ FirstOrAlone /\ run.at # "enclosing" =>
                 \A p \in Paths : TreeAt(run.landed)[p] =
                    IF p \in FilesOf(run.collected) THEN run.collected[p]
                    ELSE IF p \in run.deletes THEN Absent ELSE TreeAt(run.parent)[p]
<1>1. /\ Sends(run) \/ run.at = "enclosing"
      /\ run.at # "enclosing" => Compared(run)
  BY DEF Landed, Sends, Compared
<1>2. /\ run.landed = run.claims /\ run.claims >= run.parent /\ ~run.force
      /\ \A p \in Paths : TreeAt(run.claims)[p] = Sent(run, p)
  BY <1>1, PushFacts DEF Claimed, Placed
<1>3. /\ run.left = {} /\ run.uploaded \subseteq FilesOf(run.collected)
      /\ \A p \in FilesOf(run.collected) \ run.uploaded : run.collected[p] = run.reference[p]
      /\ run.deletes \cap FilesOf(run.collected) = {} /\ run.deletes \subseteq Covered
      /\ run.excluded \cap FilesOf(run.collected) = {}
      /\ FilesOf(run.collected) \subseteq Covered
  BY <1>1, PushFacts DEF Payload
<1>4. \A p \in Paths \ Covered : TreeAt(run.landed)[p] = TreeAt(run.parent)[p]
  BY <1>2, <1>3 DEF Sent
<1>5. ASSUME FirstOrAlone, run.at # "enclosing", NEW p \in FilesOf(run.collected)
      PROVE  run.reference[p] = TreeAt(run.parent)[p]
  <2>1. run.reference = Without(Standing(run.parent), run.excluded)
    BY <1>1, <1>2, <1>5, PushFacts DEF Referred
  <2>2. p \in Paths /\ p \in Covered /\ p \notin run.excluded BY <1>3 DEF FilesOf
  <2> QED BY <2>1, <2>2 DEF Without, Only, Standing
<1>6. ASSUME FirstOrAlone, run.at # "enclosing", NEW p \in Paths
      PROVE  TreeAt(run.landed)[p] =
                IF p \in FilesOf(run.collected) THEN run.collected[p]
                ELSE IF p \in run.deletes THEN Absent ELSE TreeAt(run.parent)[p]
  BY <1>2, <1>3, <1>5, <1>6 DEF Sent
<1> QED BY <1>2, <1>4, <1>6


LEMMA SaveRecordKeeps == PushInv /\ SaveRecord => PushInv'
<1> SUFFICES ASSUME PushInv, SaveRecord PROVE PushInv' OBVIOUS
<1>1. /\ run.at = "record" /\ UNCHANGED <<versions, check, copyKind, disk, base, outer, runs>>
      /\ run \in PushRuns
  BY PushFacts DEF SaveRecord
<1>2. PICK r : r = run' OBVIOUS
<1>3. PICK at \in {"send", "lay"} : at = IF run.left # {} THEN "send" ELSE "lay" OBVIOUS
<1>4. /\ r \in PushRuns /\ r.at = at /\ r.left = run.left /\ r.uploaded = run.uploaded
      /\ r.claims = run.claims /\ r.landed = run.landed
      /\ r.force = run.force /\ r.based = run.based /\ r.reference = run.reference
      /\ r.parent = run.parent /\ r.first = run.first /\ r.recordBase = run.recordBase
      /\ r.excluded = run.excluded /\ r.collected = run.collected
      /\ r.deletes = run.deletes /\ r.hashOnly = run.hashOnly /\ r.sends = run.sends
  <2>1. at \in PushSteps /\ run' = [run EXCEPT !.at = at] BY <1>3 DEF SaveRecord, PushSteps
  <2> QED BY <1>1, <1>2, <2>1 DEF PushRuns
<1>5. copyKind = "copy" /\ FirstOrAlone
  <2>1. copyKind = "copy" BY <1>1, PushFacts DEF Placed
  <2> QED BY <2>1 DEF PushInv, CopySays, FirstOrAlone
<1>6. Landed(r) <=> Landed(run) BY <1>1, <1>3, <1>4 DEF Landed
<1>7. RunSays(r, FirstOrAlone)
  <2>1. Placed(r) BY <1>1, <1>3, <1>4, PushFacts DEF Placed, Sends
  <2>2. Claimed(r)
    <3>1. \A p : Sent(r, p) = Sent(run, p) BY <1>4, <1>6 DEF Sent
    <3> QED BY <1>1, <1>3, <1>4, <1>6, <3>1, PushFacts DEF Claimed, Sends
  <2>3. Referred(r, FirstOrAlone) BY <1>1, <1>3, <1>4, PushFacts DEF Referred, Compared
  <2>4. Payload(r) BY <1>1, <1>3, <1>4, <1>6, PushFacts DEF Payload, Sends
  <2>5. Recorded(r) BY <1>1, <1>4, <1>5, PushFacts DEF Recorded, Sends
  <2> QED BY <2>1, <2>2, <2>3, <2>4, <2>5 DEF RunSays
<1>8. RunNames(r) BY <1>4, PushFacts DEF RunNames
<1>9. CheckType' /\ AsksSay' BY <1>1, <1>2, <1>3, <1>4, AskStands
<1>10. PICK merged : merged = MergedRecord OBVIOUS
<1>11. merged \in Trees
  <2>1. run.recordBase \in Trees /\ run.collected \in Trees BY <1>1 DEF PushRuns
  <2>2. Without(run.recordBase, run.deletes) \in Trees BY <2>1, OnlyTyped DEF Without
  <2> QED BY <1>10, <2>1, <2>2 DEF MergedRecord, LaidOver, Trees
<1>12. ASSUME run.parent # 0, ~run.force, NEW p \in Paths
       PROVE  \/ merged[p] = TreeAt(run.landed)[p]
              \/ p \in run.excluded /\ merged[p] = Absent
  <2>1. /\ run.landed = run.claims /\ TreeAt(run.claims)[p] = Sent(run, p)
        /\ run.uploaded \subseteq FilesOf(run.collected)
        /\ run.deletes \cap FilesOf(run.collected) = {}
    BY <1>1, <1>12, PushFacts DEF Claimed, Sends, Payload
  <2>2. \/ run.recordBase[p] = TreeAt(run.parent)[p]
        \/ p \in run.excluded /\ run.recordBase[p] = Absent
    BY <1>1, <1>5, <1>12, PushFacts DEF Recorded, Sends
  <2>3. CASE run.left # {}
    <3>1. merged[p] = IF p \in run.uploaded THEN run.collected[p] ELSE run.recordBase[p]
      BY <1>10, <2>3 DEF MergedRecord, LaidOver
    <3>2. ~Landed(run) BY <1>1, <2>3 DEF Landed
    <3> QED BY <2>1, <2>2, <3>1, <3>2 DEF Sent
  <2>4. CASE run.left = {}
    <3>1. merged[p] = IF p \in FilesOf(run.collected) THEN run.collected[p]
                      ELSE IF p \in run.deletes THEN Absent ELSE run.recordBase[p]
      BY <1>10, <2>4 DEF MergedRecord, LaidOver, Without, Only, FilesOf
    <3>2. TreeAt(run.landed)[p] =
             IF p \in FilesOf(run.collected) THEN run.collected[p]
             ELSE IF p \in run.deletes THEN Absent ELSE TreeAt(run.parent)[p]
      BY <1>1, <1>5, <1>12, <2>4, LandedTree DEF Landed
    <3> QED BY <2>2, <3>1, <3>2
  <2> QED BY <2>3, <2>4
<1>13. PICK before : before = record OBVIOUS
<1>14. PICK written :
          written = [commit |-> run.landed, files |-> merged, excluded |-> run.excluded,
                     exact |-> ~run.force /\ run.parent # NoParent]
  OBVIOUS
<1>15. record' = before \/ record' = written BY <1>10, <1>13, <1>14 DEF SaveRecord
<1>16. /\ HeadCommit' = HeadCommit /\ Grows
       /\ \A n : TreeAt(n)' = TreeAt(n) /\ Standing(n)' = Standing(n)
  BY <1>1, SameVersions
<1>17. /\ record' \in PushRecords /\ record'.commit <= HeadCommit
       /\ record'.exact => \A p \in Paths :
             \/ record'.files[p] = TreeAt(record'.commit)[p]
             \/ p \in record'.excluded /\ record'.files[p] = Absent
  <2>1. CASE record' = before
    BY <1>13, <2>1 DEF PushInv, CopyTyped, CopySays, RecordAsCommitted
  <2>2. CASE record' = written
    <3>1. /\ run.landed \in Nat /\ run.landed <= HeadCommit /\ run.excluded \in SUBSET Paths
      BY <1>1, PushFacts DEF PushRuns, RunNames
    <3>2. PICK exact \in BOOLEAN : exact = (~run.force /\ run.parent # NoParent) OBVIOUS
    <3>3. record' = [commit |-> run.landed, files |-> merged, excluded |-> run.excluded,
                     exact |-> exact]
      BY <1>14, <2>2, <3>2
    <3>4. record' \in PushRecords BY <1>11, <3>1, <3>3 DEF PushRecords
    <3> QED BY <1>12, <3>1, <3>2, <3>3, <3>4 DEF NoParent
  <2> QED BY <1>15, <2>1, <2>2
<1>18. CopyTyped' BY <1>1, <1>17 DEF PushInv, CopyTyped
<1>19. CopySays'
  <2>1. RecordAsCommitted' BY <1>16, <1>17 DEF RecordAsCommitted
  <2>2. runs # 0 BY <1>1, PushFacts
  <2> QED BY <1>1, <1>16, <1>17, <2>1, <2>2 DEF PushInv, CopySays, FirstOrAlone
<1>20. FirstOrAlone' => FirstOrAlone BY <1>5
<1> QED BY <1>1, <1>2, <1>4, <1>7, <1>8, <1>9, <1>16, <1>18, <1>19, <1>20, PushFolds

\* A base recorded of this copy, whatever else stands.
LEMMA BaseRecorded ==
    ASSUME PushInv, UNCHANGED <<versions, copyKind, disk, outer, record, runs>>, runs # 0,
           base' \in PushBases, base'.commit <= HeadCommit,
           FirstOrAlone => base'.files = Standing(base'.commit)
    PROVE  CopyTyped' /\ CopySays' /\ (FirstOrAlone' => FirstOrAlone) /\ Grows
<1>1. /\ HeadCommit' = HeadCommit /\ Grows
      /\ \A n : TreeAt(n)' = TreeAt(n) /\ Standing(n)' = Standing(n)
  BY SameVersions
<1>2. FirstOrAlone' <=> FirstOrAlone BY DEF FirstOrAlone
<1>3. RecordAsCommitted' BY <1>1 DEF PushInv, CopySays, RecordAsCommitted
<1>4. CopyTyped' BY DEF PushInv, CopyTyped
<1>5. CopySays' BY <1>1, <1>2, <1>3 DEF PushInv, CopySays
<1> QED BY <1>1, <1>2, <1>4, <1>5

LEMMA LaidTyped ==
    ASSUME run \in PushRuns, NEW files \in Trees
    PROVE  /\ LaidPublication(files) \in Trees
           /\ \A p \in Paths : LaidPublication(files)[p] =
                 IF p \in FilesOf(run.collected) THEN run.collected[p]
                 ELSE IF p \in run.deletes THEN Absent ELSE files[p]
<1>1. run.collected \in Trees /\ Without(files, run.deletes) \in Trees
  BY OnlyTyped DEF PushRuns, Without
<1> QED BY <1>1 DEF LaidPublication, LaidOver, Without, Only, FilesOf, Trees

LEMMA LayCopyKeeps == PushInv /\ LayCopy => PushInv'
<1> SUFFICES ASSUME PushInv, LayCopy PROVE PushInv' OBVIOUS
<1>1. /\ run.at = "lay" /\ copyKind = "copy" /\ run \in PushRuns /\ runs # 0
      /\ UNCHANGED <<versions, copyKind, disk, outer, record, runs>>
  BY PushFacts DEF LayCopy
<1>2. FirstOrAlone /\ Landed(run) BY <1>1 DEF PushInv, CopySays, FirstOrAlone, Landed
<1>3. base' \in PushBases /\ base'.commit <= HeadCommit /\ base'.files = Standing(base'.commit)
  <2>1. base \in PushBases /\ base.commit <= HeadCommit /\ base.files = Standing(base.commit)
    BY <1>2 DEF PushInv, CopyTyped, CopySays
  <2>2. ASSUME base.commit # 0, base.commit = run.first,
               base' = [commit |-> run.landed, files |-> LaidPublication(base.files)]
        PROVE  base' \in PushBases /\ base'.commit <= HeadCommit
                  /\ base'.files = Standing(base'.commit)
    <3>1. run.parent = base.commit /\ run.parent # 0
      BY <1>1, <2>2, PushFacts DEF Placed, Sends
    <3>2. base.files \in Trees BY <2>1 DEF PushBases
    <3>3. PICK laid : laid = LaidPublication(base.files) OBVIOUS
    <3>4. laid \in Trees BY <1>1, <3>2, <3>3, LaidTyped
    <3>5. run.landed \in 0 .. HeadCommit /\ run.parent \in 0 .. HeadCommit
      BY <1>1, PushFacts DEF PushRuns, RunNames
    <3>6. base.files = TreeAt(run.parent)
      BY <1>1, <2>1, <3>1, <3>5, PushFacts, WholeStanding
    <3>7. Standing(run.landed) = TreeAt(run.landed) /\ TreeAt(run.landed) \in Trees
      BY <1>1, <3>5, PushFacts, WholeStanding, TreesType
    <3>8. \A p \in Paths : laid[p] = TreeAt(run.landed)[p]
      BY <1>1, <1>2, <3>1, <3>2, <3>3, <3>6, LandedTree, LaidTyped
    <3>9. laid = TreeAt(run.landed) BY <3>4, <3>7, <3>8 DEF Trees
    <3>10. base' = [commit |-> run.landed, files |-> laid] BY <2>2, <3>3
    <3> QED BY <3>4, <3>5, <3>7, <3>9, <3>10, PushFacts DEF PushBases
  <2> QED BY <2>1, <2>2 DEF LayCopy
<1>4. CopyTyped' /\ CopySays' /\ (FirstOrAlone' => FirstOrAlone) /\ Grows
  BY <1>1, <1>3, BaseRecorded
<1>5. CASE run.force
  <2>1. run' = [run EXCEPT !.at = "adopt"] /\ UNCHANGED check BY <1>5 DEF LayCopy
  <2>2. PICK r : r = run' OBVIOUS
  <2>3. /\ r \in PushRuns /\ r.at = "adopt" /\ r.claims = run.claims /\ r.landed = run.landed
        /\ r.force = run.force /\ r.based = run.based
        /\ r.parent = run.parent /\ r.first = run.first
        /\ r.excluded = run.excluded /\ r.collected = run.collected /\ r.sends = run.sends
    BY <1>1, <2>1, <2>2 DEF PushRuns, PushSteps
  <2>4. RunNames(r) BY <2>3, PushFacts DEF RunNames
  <2>5. run.sends # 0 BY <1>1, PushFacts DEF Placed, Sends
  <2>6. Placed(r) /\ Claimed(r) /\ Recorded(r)
    BY <1>1, <2>3, <2>5 DEF Placed, Claimed, Recorded, Sends, Landed
  <2>7. Payload(r) /\ Referred(r, FirstOrAlone)
    BY <1>1, <1>5, <2>3, PushFacts DEF Payload, Sends, Referred
  <2>8. RunSays(r, FirstOrAlone) BY <2>6, <2>7 DEF RunSays
  <2>9. CheckType' /\ AsksSay' BY <2>1, <2>2, <2>3, AskStands
  <2> QED BY <1>1, <1>4, <2>2, <2>3, <2>4, <2>8, <2>9, PushFolds
<1>6. CASE ~run.force
  <2>1. Ends BY <1>6 DEF LayCopy
  <2> QED BY <1>1, <1>4, <2>1, EndsSay, PushFolds
<1> QED BY <1>5, <1>6

LEMMA AdoptForcedKeeps == PushInv /\ AdoptForced => PushInv'
<1> SUFFICES ASSUME PushInv, AdoptForced PROVE PushInv' OBVIOUS
<1>1. /\ run.at = "adopt" /\ run \in PushRuns /\ runs # 0 /\ Ends
      /\ UNCHANGED <<versions, copyKind, disk, outer, record, runs>>
  BY PushFacts DEF AdoptForced
<1>2. copyKind = "copy" BY <1>1, PushFacts DEF Placed
<1>3. /\ base' \in PushBases /\ base'.commit <= HeadCommit
      /\ FirstOrAlone => base'.files = Standing(base'.commit)
  <2>1. CASE UNCHANGED base BY <2>1 DEF PushInv, CopyTyped, CopySays
  <2>2. CASE base' = [commit |-> run.landed, files |-> TreeAt(run.landed)]
    <3>1. run.landed \in 0 .. HeadCommit /\ run.landed \in Nat
      BY <1>1, PushFacts DEF PushRuns, RunNames
    <3>2. Standing(run.landed) = TreeAt(run.landed) /\ TreeAt(run.landed) \in Trees
      BY <1>2, <3>1, PushFacts, WholeStanding, TreesType
    <3> QED BY <2>2, <3>1, <3>2, PushFacts DEF PushBases
  <2> QED BY <2>1, <2>2 DEF AdoptForced
<1>4. CopyTyped' /\ CopySays' /\ (FirstOrAlone' => FirstOrAlone) /\ Grows
  BY <1>1, <1>3, BaseRecorded
<1> QED BY <1>1, <1>4, EndsSay, PushFolds

LEMMA LayFolderKeeps == PushInv /\ LayFolder => PushInv'
<1> SUFFICES ASSUME PushInv, LayFolder PROVE PushInv' OBVIOUS
<1>1. /\ run.at = "lay" /\ copyKind = "folder" /\ run \in PushRuns /\ runs # 0
      /\ UNCHANGED <<versions, copyKind, disk, outer, record, runs>> /\ Grows
  BY PushFacts DEF LayFolder, Grows
<1>2. CASE Ends /\ UNCHANGED base
  <2>1. CopyTyped' /\ CopySays' /\ (FirstOrAlone' => FirstOrAlone)
    BY <1>1, <1>2, BaseRecorded DEF PushInv, CopyTyped, CopySays
  <2> QED BY <1>1, <1>2, <2>1, EndsSay, PushFolds
<1>3. ASSUME run.first # 0, run.based.commit = run.first, UNCHANGED check,
             base' = [commit |-> run.landed, files |-> LaidPublication(run.based.files)],
             run' = [run EXCEPT !.at = "enclosing"]
      PROVE  PushInv'
  <2>1. /\ ~run.force /\ run.sends # 0 /\ Landed(run) /\ run.first <= run.parent
        /\ run.parent # 0 /\ Covered = Folder
        /\ \A p \in Folder : TreeAt(run.first)[p] = TreeAt(run.parent)[p]
    <3>1. ~run.force /\ run.sends # 0 /\ Landed(run) /\ Covered = Folder
      BY <1>1, <1>3, PushFacts DEF Placed, Sends, Landed, Covered
    <3>2. run.first <= run.parent /\ \A p \in Folder : TreeAt(run.first)[p] = TreeAt(run.parent)[p]
      BY <1>1, <3>1, PushFacts DEF Referred
    <3>3. run.first \in Nat /\ run.parent \in Nat BY <1>1 DEF PushRuns
    <3> QED BY <1>3, <3>1, <3>2, <3>3
  <2>2. PICK files : files = run.based.files OBVIOUS
  <2>3. PICK laid : laid = LaidPublication(files) OBVIOUS
  <2>4. files \in Trees /\ run.landed \in Nat /\ run.landed \in 0 .. HeadCommit
    BY <1>1, <2>2, PushFacts DEF PushRuns, PushBases, RunNames
  <2>5. laid \in Trees BY <1>1, <2>3, <2>4, LaidTyped
  <2>6. base' = [commit |-> run.landed, files |-> laid] BY <1>3, <2>2, <2>3
  <2>7. ASSUME FirstOrAlone PROVE laid = Standing(run.landed)
    <3>1. files = Standing(run.first) BY <1>3, <2>2, <2>7, PushFacts DEF Referred
    <3>2. Standing(run.landed) \in Trees BY <2>4, StandingTyped, PushFacts
    <3>3. ASSUME NEW p \in Paths PROVE laid[p] = Standing(run.landed)[p]
      <4>1. laid[p] = IF p \in FilesOf(run.collected) THEN run.collected[p]
                      ELSE IF p \in run.deletes THEN Absent ELSE files[p]
        BY <1>1, <2>3, <2>4, LaidTyped
      <4>2. CASE p \in Folder
        <5>1. files[p] = TreeAt(run.parent)[p] BY <2>1, <3>1, <4>2 DEF Standing, Only
        <5>2. Standing(run.landed)[p] = TreeAt(run.landed)[p] BY <2>1, <4>2 DEF Standing, Only
        <5> QED BY <1>1, <2>1, <2>7, <4>1, <5>1, <5>2, LandedTree
      <4>3. CASE p \notin Folder
        <5>1. p \notin FilesOf(run.collected) BY <2>1, <4>3, PushFacts DEF Payload
        <5>2. files[p] = Absent /\ Standing(run.landed)[p] = Absent
          BY <2>1, <3>1, <4>3 DEF Standing, Only
        <5> QED BY <4>1, <5>1, <5>2
      <4> QED BY <4>2, <4>3
    <3> QED BY <2>5, <3>2, <3>3 DEF Trees
  <2>8. CopyTyped' /\ CopySays' /\ (FirstOrAlone' => FirstOrAlone)
    <3>1. /\ base' \in PushBases /\ base'.commit <= HeadCommit
          /\ FirstOrAlone => base'.files = Standing(base'.commit)
      BY <2>4, <2>5, <2>6, <2>7, PushFacts DEF PushBases
    <3> QED BY <1>1, <3>1, BaseRecorded
  <2>9. PICK r : r = run' OBVIOUS
  <2>10. /\ r \in PushRuns /\ r.at = "enclosing" /\ r.left = run.left /\ r.uploaded = run.uploaded
         /\ r.claims = run.claims /\ r.landed = run.landed
         /\ r.force = run.force /\ r.based = run.based /\ r.reference = run.reference
         /\ r.parent = run.parent /\ r.first = run.first
         /\ r.excluded = run.excluded /\ r.collected = run.collected
         /\ r.deletes = run.deletes /\ r.hashOnly = run.hashOnly /\ r.sends = run.sends
    BY <1>1, <1>3, <2>9 DEF PushRuns, PushSteps
  <2>11. RunNames(r) BY <2>10, PushFacts DEF RunNames
  <2>12. Landed(r) BY <2>10 DEF Landed
  <2>13. Placed(r) /\ Recorded(r)
    BY <1>1, <2>1, <2>10, PushFacts DEF Placed, Recorded, Sends
  <2>14. Claimed(r)
    <3>1. \A p : Sent(r, p) = Sent(run, p) BY <2>1, <2>10, <2>12 DEF Sent
    <3> QED BY <1>1, <2>1, <2>10, <2>12, <3>1, PushFacts DEF Claimed, Sends
  <2>15. Payload(r) BY <1>1, <2>1, <2>10, PushFacts DEF Payload, Sends
  <2>16. Referred(r, FirstOrAlone) BY <1>1, <2>1, <2>10, PushFacts DEF Referred, Compared
  <2>17. CheckType' /\ AsksSay' BY <1>3, <2>1, <2>9, <2>10, AskStands
  <2>18. RunSays(r, FirstOrAlone) BY <2>13, <2>14, <2>15, <2>16 DEF RunSays
  <2> QED BY <1>1, <2>8, <2>9, <2>10, <2>11, <2>17, <2>18, PushFolds
<1> QED BY <1>2, <1>3 DEF LayFolder, NoParent

LEMMA LayOverEnclosingKeeps == PushInv /\ LayOverEnclosing => PushInv'
<1> SUFFICES ASSUME PushInv, LayOverEnclosing PROVE PushInv' OBVIOUS
<1>1. /\ run.at = "enclosing" /\ run \in PushRuns /\ runs # 0 /\ Ends
      /\ outer' = OuterLaid(run.parent, run.landed)
      /\ UNCHANGED <<versions, copyKind, disk, base, record, runs>>
  BY PushFacts DEF LayOverEnclosing
<1>2. copyKind = "folder" /\ Covered = Folder BY <1>1, PushFacts DEF Placed, Covered
<1>3. /\ HeadCommit' = HeadCommit /\ Grows
      /\ \A n : TreeAt(n)' = TreeAt(n) /\ Standing(n)' = Standing(n)
  BY <1>1, SameVersions
<1>4. outer \in PushBases /\ outer.commit <= HeadCommit /\ base \in PushBases
      /\ \A p \in Paths \ Folder : outer.files[p] = TreeAt(outer.commit)[p]
  BY DEF PushInv, CopyTyped, CopySays
<1>5. /\ outer' \in PushBases /\ outer'.commit <= HeadCommit
      /\ outer'.commit = 0 <=> outer.commit = 0
      /\ \A p \in Paths \ Folder : outer'.files[p] = TreeAt(outer'.commit)[p]
  <2>1. CASE outer.commit = 0 BY <1>1, <1>4, <2>1 DEF OuterLaid
  <2>2. CASE outer.commit # 0
    <3>1. PICK commit : commit = IF run.parent # NoParent /\ outer.commit = run.parent
                                 THEN run.landed ELSE outer.commit
      OBVIOUS
    <3>2. PICK files : files = LaidOver(outer.files, [p \in Folder |-> base.files[p]]) OBVIOUS
    <3>3. outer' = [commit |-> commit, files |-> files]
      BY <1>1, <2>2, <3>1, <3>2 DEF OuterLaid
    <3>4. /\ files \in Trees /\ \A p \in Paths \ Folder : files[p] = outer.files[p]
      BY <1>4, <3>2, PathsAssumption DEF LaidOver, Trees, PushBases
    <3>5. CASE commit = outer.commit
      BY <1>4, <2>2, <3>3, <3>4, <3>5 DEF PushBases
    <3>6. CASE commit # outer.commit
      <4>1. run.parent # 0 /\ outer.commit = run.parent /\ commit = run.landed
        BY <3>1, <3>6 DEF NoParent
      <4>2. /\ run.landed >= run.parent
            /\ \A p \in Paths \ Folder : TreeAt(run.landed)[p] = TreeAt(run.parent)[p]
        BY <1>1, <1>2, <4>1, LandedTree DEF Landed
      <4>3. run.landed \in Nat /\ run.landed <= HeadCommit /\ run.parent \in Nat
        BY <1>1, PushFacts DEF PushRuns, RunNames
      <4> QED BY <1>4, <2>2, <3>3, <3>4, <4>1, <4>2, <4>3, PushFacts DEF PushBases
    <3> QED BY <3>5, <3>6
  <2> QED BY <2>1, <2>2
<1>6. FirstOrAlone' => FirstOrAlone BY <1>1, <1>5 DEF FirstOrAlone
<1>7. CopyTyped' BY <1>1, <1>5 DEF PushInv, CopyTyped
<1>8. CopySays'
  <2>1. RecordAsCommitted' BY <1>1, <1>3 DEF PushInv, CopySays, RecordAsCommitted
  <2> QED BY <1>1, <1>2, <1>3, <1>5, <1>6, <2>1 DEF PushInv, CopySays
<1> QED BY <1>1, <1>3, <1>6, <1>7, <1>8, EndsSay, PushFolds

-----------------------------------------------------------------------------
\* The run and its check, while the surroundings move.
LEMMA RunRests ==
    ASSUME PushInv, Grows, UNCHANGED <<check, run>>
    PROVE  /\ CheckType' /\ AsksSay'
           /\ \E r \in PushRuns : run' = r /\ RunNames(r) /\ RunSays(r, FirstOrAlone)
<1>1. PICK r : r = run OBVIOUS
<1>2. r \in PushRuns /\ RunNames(r) /\ RunSays(r, FirstOrAlone) /\ run' = r
  BY <1>1 DEF PushInv
<1>3. CheckType' BY PushFacts DEF CheckType
<1>4. r.at = "check" => CheckSays(r.claims)'
  <2>1. r.at = "check" => CheckSays(r.claims) BY <1>1, PushFacts DEF AsksSay
  <2>2. r.claims \in 0 .. HeadCommit BY <1>2, PushFacts DEF RunNames, PushRuns
  <2> QED BY <2>1, <2>2, PushFacts, CheckSaysStill
<1>5. run'.at = "check" => CheckSays(run.claims)' BY <1>2, <1>4 DEF CheckSays
<1>6. AsksSay' BY <1>5, PushFacts DEF AsksSay
<1> QED BY <1>2, <1>3, <1>6

LEMMA SurroundingsKeep == PushInv /\ Surroundings => PushInv'
<1> SUFFICES ASSUME PushInv, Surroundings PROVE PushInv' OBVIOUS
<1>1. ASSUME Grows, UNCHANGED <<check, run, copyKind, base, outer, record, runs>>, disk' \in Trees
      PROVE  PushInv'
  <2>1. run'.at = "idle" \/ runs # 0 BY <1>1, PushFacts
  <2>2. run' \in PushRuns BY <1>1, PushFacts
  <2> QED BY <1>1, <2>1, <2>2, RunRests, RunMoves
<1>2. CASE UserEdits
  <2>1. PICK write \in UserWrites : disk' = LaidOver(disk, write) BY <1>2 DEF UserEdits
  <2>2. disk' \in Trees BY <2>1, EditsAssumption, LaidOverType, PushFacts
  <2> QED BY <1>1, <1>2, <2>2 DEF UserEdits, Grows
<1>3. CASE Publishes
  <2>1. Grows BY <1>3, OthersGrow, PushFacts DEF Publishes
  <2>2. disk' \in Trees BY <1>3, PushFacts DEF Publishes, copyVars
  <2> QED BY <1>1, <1>3, <2>1, <2>2 DEF Publishes, copyVars
<1>4. CASE Reviews
  <2>1. disk' \in Trees BY <1>4, PushFacts DEF Reviews
  <2> QED BY <1>1, <1>4, <2>1 DEF Reviews, Grows
<1>5. CASE OtherRunConverges
  <2>1. /\ UNCHANGED <<versions, check, copyKind, disk, outer, record, run, runs>> /\ Grows
        /\ base' = [commit |-> HeadCommit, files |-> Only(HeadTree, Covered)]
    BY <1>5 DEF OtherRunConverges, Grows
  <2>2. /\ base' \in PushBases /\ base'.commit = HeadCommit
        /\ base'.files = Standing(HeadCommit)
    BY <2>1, OnlyTyped, PushFacts DEF PushBases, Standing, HeadTree
  <2>3. /\ HeadCommit' = HeadCommit
        /\ \A n : TreeAt(n)' = TreeAt(n) /\ Standing(n)' = Standing(n)
    BY <2>1, SameVersions
  <2>4. FirstOrAlone' <=> FirstOrAlone BY <2>1 DEF FirstOrAlone
  <2>5. CopyTyped' BY <2>1, <2>2 DEF PushInv, CopyTyped
  <2>6. RecordAsCommitted' BY <2>1, <2>3 DEF PushInv, CopySays, RecordAsCommitted
  <2>7. CopySays' BY <2>1, <2>2, <2>3, <2>4, <2>6, PushFacts DEF PushInv, CopySays
  <2> QED BY <2>1, <2>4, <2>5, <2>7, RunRests, PushFolds
<1>6. CASE EnclosingConverges
  <2>1. /\ UNCHANGED <<versions, check, copyKind, disk, base, record, run, runs>> /\ Grows
        /\ outer' = [commit |-> HeadCommit, files |-> HeadTree]
        /\ copyKind = "folder" /\ outer.commit # 0 /\ HeadCommit # 0
    BY <1>6 DEF EnclosingConverges, HoldsHead, Grows
  <2>2. /\ outer' \in PushBases /\ outer'.commit = HeadCommit
        /\ outer'.files = TreeAt(HeadCommit)
    BY <2>1, PushFacts DEF PushBases, HeadTree
  <2>3. /\ HeadCommit' = HeadCommit
        /\ \A n : TreeAt(n)' = TreeAt(n) /\ Standing(n)' = Standing(n)
    BY <2>1, SameVersions
  <2>4. FirstOrAlone' <=> FirstOrAlone BY <2>1, <2>2 DEF FirstOrAlone
  <2>5. CopyTyped' BY <2>1, <2>2 DEF PushInv, CopyTyped
  <2>6. RecordAsCommitted' BY <2>1, <2>3 DEF PushInv, CopySays, RecordAsCommitted
  <2>7. CopySays' BY <2>1, <2>2, <2>3, <2>4, <2>6, PushFacts DEF PushInv, CopySays
  <2> QED BY <2>1, <2>4, <2>5, <2>7, RunRests, PushFolds
<1> QED BY <1>2, <1>3, <1>4, <1>5, <1>6 DEF Surroundings

LEMMA PushStarts == PushInit => PushInv
<1> SUFFICES ASSUME PushInit PROVE PushInv OBVIOUS
<1>1. PICK c \in InitialContents :
         LET tree == [p \in Paths |-> c]
         IN /\ versions \in {<<>>, <<tree>>}
            /\ \E edited \in EditedFirst : disk = LaidOver(Only(tree, Covered), edited)
            /\ base \in {NoBase} \cup
                  {[commit |-> n, files |-> Only(tree, Covered)] : n \in 1 .. HeadCommit}
            /\ outer \in {NoBase} \cup
                  {[commit |-> n, files |-> tree] :
                      n \in IF copyKind = "copy" THEN {} ELSE 1 .. HeadCommit}
  BY DEF PushInit
<1>2. PICK tree : tree = [p \in Paths |-> c] OBVIOUS
<1>3. tree \in Trees BY <1>2, InitialAssumption DEF Trees
<1>4. /\ versions \in {<<>>, <<tree>>}
      /\ \E edited \in EditedFirst : disk = LaidOver(Only(tree, Covered), edited)
      /\ base \in {NoBase} \cup
            {[commit |-> n, files |-> Only(tree, Covered)] : n \in 1 .. HeadCommit}
      /\ outer \in {NoBase} \cup
            {[commit |-> n, files |-> tree] :
                n \in IF copyKind = "copy" THEN {} ELSE 1 .. HeadCommit}
  BY <1>1, <1>2
<1>5. versions \in Seq(Trees) /\ HeadCommit \in {0, 1} /\ (HeadCommit = 1 => TreeAt(1) = tree)
  <2>1. CASE versions = <<>> BY <2>1 DEF HeadCommit
  <2>2. CASE versions = <<tree>>
    <3>1. versions \in Seq(Trees) /\ Len(versions) = 1 /\ versions[1] = tree BY <1>3, <2>2
    <3> QED BY <3>1 DEF HeadCommit, TreeAt
  <2> QED BY <1>4, <2>1, <2>2
<1>6. LineInv BY <1>5, FirstSteady
<1>7. disk \in Trees
  <2>1. PICK edited \in EditedFirst : disk = LaidOver(Only(tree, Covered), edited) BY <1>4
  <2>2. Only(tree, Covered) \in Trees BY <1>3, OnlyTyped
  <2> QED BY <2>1, <2>2, EditsAssumption, LaidOverType
<1>8. EmptyTree \in Trees /\ Standing(0) = EmptyTree /\ TreeAt(0) = EmptyTree
  BY DEF EmptyTree, Trees, Standing, Only, TreeAt
<1>9. base \in PushBases /\ base.commit <= HeadCommit /\ base.files = Standing(base.commit)
  <2>1. CASE base = NoBase BY <1>5, <1>8, <2>1 DEF NoBase, PushBases
  <2>2. ASSUME NEW n \in 1 .. HeadCommit, base = [commit |-> n, files |-> Only(tree, Covered)]
        PROVE  base \in PushBases /\ base.commit <= HeadCommit /\ base.files = Standing(base.commit)
    <3>1. n = 1 /\ HeadCommit = 1 BY <1>5, <2>2
    <3>2. Only(tree, Covered) \in Trees BY <1>3, OnlyTyped
    <3> QED BY <1>5, <2>2, <3>1, <3>2 DEF PushBases, Standing
  <2> QED BY <1>4, <2>1, <2>2
<1>10. /\ outer \in PushBases /\ outer.commit <= HeadCommit /\ outer.files = TreeAt(outer.commit)
       /\ copyKind = "copy" => outer.commit = 0
  <2>1. CASE outer = NoBase BY <1>5, <1>8, <2>1 DEF NoBase, PushBases
  <2>2. ASSUME NEW n \in 1 .. HeadCommit, copyKind # "copy",
               outer = [commit |-> n, files |-> tree]
        PROVE  /\ outer \in PushBases /\ outer.commit <= HeadCommit
               /\ outer.files = TreeAt(outer.commit)
               /\ copyKind = "copy" => outer.commit = 0
    <3>1. n = 1 /\ HeadCommit = 1 BY <1>5, <2>2
    <3> QED BY <1>3, <1>5, <2>2, <3>1 DEF PushBases
  <2> QED BY <1>4, <2>1, <2>2
<1>11. /\ copyKind \in {"copy", "folder"} /\ check = NoCheck /\ run = IdleRun
       /\ record = NoRecord /\ runs = 0
  BY DEF PushInit
<1>12. record \in PushRecords /\ record.commit = 0 /\ RecordAsCommitted
  BY <1>8, <1>11 DEF NoRecord, PushRecords, RecordAsCommitted
<1>13. CopyTyped BY <1>7, <1>9, <1>10, <1>11, <1>12 DEF CopyTyped
<1>14. CopySays
  <2>1. run.at = "idle" BY <1>11 DEF IdleRun
  <2> QED BY <1>5, <1>9, <1>10, <1>11, <1>12, <2>1 DEF CopySays
<1>15. run \in PushRuns /\ RunNames(run) /\ RunSays(run, FirstOrAlone)
  <2>1. PICK known \in BOOLEAN : known = FirstOrAlone BY DEF FirstOrAlone
  <2>2. IdleRun \in PushRuns /\ RunNames(IdleRun) /\ RunSays(IdleRun, FirstOrAlone)
    BY <1>5, <2>1, IdleSays
  <2> HIDE DEF IdleRun
  <2> QED BY <1>11, <2>2
<1>16. CheckType /\ AsksSay
  <2>1. run.at = "idle" BY <1>11 DEF IdleRun
  <2> QED BY <1>11, <2>1 DEF CheckType, NoCheck, CheckSteps, AsksSay
<1> QED BY <1>6, <1>13, <1>14, <1>15, <1>16 DEF PushInv

LEMMA PushKeeps == PushInv /\ [PushNext \/ Surroundings]_pushVars => PushInv'
<1> SUFFICES ASSUME PushInv, [PushNext \/ Surroundings]_pushVars PROVE PushInv' OBVIOUS
<1>1. CASE PushNext
  BY <1>1, BeginKeeps, ReadHeadKeeps, CollectKeeps, PlanKeeps, SendAcceptedKeeps,
     SendUnansweredKeeps, EndingsKeep, SendTooLargeKeeps, SendMissesBlobsKeeps,
     SendConflictsKeeps, CheckRunsKeeps, SendAgainKeeps, CollectAgainKeeps, SaveRecordKeeps,
     LayCopyKeeps, AdoptForcedKeeps, LayFolderKeeps, LayOverEnclosingKeeps
     DEF PushNext
<1>2. CASE Surroundings BY <1>2, SurroundingsKeep
<1>3. CASE UNCHANGED pushVars
  <2>1. /\ UNCHANGED <<check, run, copyKind, base, outer, record, runs>> /\ Grows
        /\ disk' \in Trees
    BY <1>3, PushFacts DEF pushVars, copyVars, Grows
  <2>2. run'.at = "idle" \/ runs # 0 BY <2>1, PushFacts
  <2>3. run' \in PushRuns BY <2>1, PushFacts
  <2> QED BY <2>1, <2>2, <2>3, RunRests, RunMoves
<1> QED BY <1>1, <1>2, <1>3

(* What holds of every publication, of the copy it is made from and of the  *)
(* run, whatever other writers, the user and other runs do in between       *)
(* (smart.rs, commands/push.rs).                                            *)
THEOREM PushInvariant == PushSpec => []PushInv
<1>1. PushInit => PushInv BY PushStarts
<1>2. PushInv /\ [PushNext \/ Surroundings]_pushVars => PushInv' BY PushKeeps
<1> QED BY <1>1, <1>2, PTL DEF PushSpec

(* Whatever lays a publication over a base, and whatever record it leaves,  *)
(* the base names a commit and exactly its files, and the record every file *)
(* of its own (commands/push.rs 590 to 665, converge.rs 3011 to 3068,       *)
(* smart.rs 950 to 975).                                                    *)
THEOREM PublishesAsCommitted == PushSpec => []AsCommitted
<1>1. PushInv => AsCommitted
  BY PathsAssumption
     DEF PushInv, CopySays, AsCommitted, BaseAsCommitted, OuterAsCommitted, RecordAsCommitted, Standing
<1> QED BY <1>1, PushInvariant, PTL

\* A body that claimed a parent replaces only what the run compared with.
LEMMA ReplacesSeen ==
    ASSUME PushInv, run.at = "send", FirstOrAlone, run.first # 0, NEW batch \in Batches, Lands(batch),
           NEW p \in Paths, HeadTree'[p] # HeadTree[p]
    PROVE  HeadTree[p] = run.reference[p] \/ p \in run.uploaded
<1>1. /\ batch \subseteq run.left /\ (run.claims = 0 \/ run.claims = HeadCommit)
      /\ p \in batch \/ p \in run.deletes
  BY BodyLands
<1>2. run.parent # 0 /\ ~run.force
  <2>1. ~run.force BY PushFacts DEF Placed, Sends
  <2>2. run.first \in Nat /\ run.parent \in Nat BY PushFacts DEF PushRuns
  <2>3. CASE copyKind = "copy" BY <2>1, <2>3, PushFacts DEF Placed, Sends
  <2>4. CASE copyKind = "folder"
    <3>1. run.sends # 0 BY PushFacts DEF Placed, Sends
    <3> QED BY <2>1, <2>2, <2>4, <3>1, PushFacts DEF Referred
  <2> QED BY <2>1, <2>3, <2>4, PushFacts
<1>3. /\ run.claims >= run.parent /\ run.parent \in Nat
      /\ TreeAt(run.claims)[p] = Sent(run, p)
  BY <1>2, PushFacts DEF Claimed, Sends, PushRuns
<1>4. HeadTree[p] = Sent(run, p) BY <1>1, <1>2, <1>3 DEF HeadTree
<1>5. ASSUME p \notin run.uploaded PROVE HeadTree[p] = TreeAt(run.parent)[p]
  BY <1>4, <1>5 DEF Sent, Landed
<1>6. run.reference = Without(Standing(run.parent), run.excluded)
  BY <1>2, PushFacts DEF Referred, Compared
<1>7. p \in Covered /\ p \notin run.excluded
  <2>1. /\ run.left \subseteq FilesOf(run.collected) /\ FilesOf(run.collected) \subseteq Covered
        /\ run.excluded \cap FilesOf(run.collected) = {}
        /\ run.deletes \subseteq FilesOf(run.reference) /\ run.deletes \subseteq Covered
    BY PushFacts DEF Payload, Sends
  <2>2. p \in run.deletes => p \notin run.excluded
    BY <1>6, <2>1 DEF FilesOf, Without, Only
  <2> QED BY <1>1, <2>1, <2>2
<1>8. run.reference[p] = TreeAt(run.parent)[p]
  BY <1>6, <1>7 DEF Without, Only, Standing
<1> QED BY <1>5, <1>8

(* A publication that claims a parent replaces nothing on the head it did   *)
(* not compare with, checked folders and resends included, and asks only    *)
(* for the deletion of what is gone from the disk (smart.rs 1072 to 1086,   *)
(* 1237 to 1243, 1327 to 1400; commands/push.rs 520 to 555).                *)
THEOREM PublicationTakesOnlyWhatItSaw == PushSpec => TakesOnlyWhatItSaw
<1>1. PushInv /\ [PushNext \/ Surroundings]_pushVars =>
        [LET changed == {p \in Paths : HeadTree'[p] # HeadTree[p]}
         IN (FirstOrAlone /\ versions' # versions /\ run' # run /\ run.first # NoParent)
              => \A p \in changed : HeadTree[p] = run.reference[p]
                                   \/ p \in run.uploaded]_pushVars
  <2> SUFFICES ASSUME PushInv, PushNext \/ Surroundings, FirstOrAlone, versions' # versions,
                      run' # run, run.first # NoParent,
                      NEW p \in Paths, HeadTree'[p] # HeadTree[p]
               PROVE  HeadTree[p] = run.reference[p] \/ p \in run.uploaded
    OBVIOUS
  <2>1. SendAccepted \/ SendUnanswered
    BY DEF PushNext, Surroundings, Begin, ReadHead, Collect, Plan, SendRefused, SendTooLarge,
           SendMissesBlobs, SendConflicts, CheckRuns, CheckStep, SendAgain, CollectAgain, GiveUp,
           SaveRecord, LayCopy, AdoptForced, LayFolder, LayOverEnclosing,
           UserEdits, Publishes, OtherRunConverges, EnclosingConverges, Reviews
  <2>2. PICK batch \in Batches : Lands(batch) BY <2>1 DEF SendAccepted, SendUnanswered
  <2>3. run.at = "send" BY <2>1 DEF SendAccepted, SendUnanswered
  <2> QED BY <2>2, <2>3, ReplacesSeen DEF NoParent
<1>2. PushInv /\ [PushNext \/ Surroundings]_pushVars =>
        [PlansDeletionsOfGone({"copy"})]_pushVars
  <2> SUFFICES ASSUME PushInv, PushNext \/ Surroundings, run'.at = "send", run.at = "plan",
                      copyKind = "copy", NEW p \in run'.deletes
               PROVE  disk[p] = Absent /\ p \in Scope
    BY DEF PlansDeletionsOfGone
  <2>1. Plan
    BY DEF PushNext, Surroundings, Begin, ReadHead, Collect, SendAccepted, SendUnanswered,
           SendRefused, SendTooLarge, SendMissesBlobs, SendConflicts, CheckRuns, SendAgain,
           CollectAgain, GiveUp, SaveRecord, LayCopy, AdoptForced, LayFolder, LayOverEnclosing,
           UserEdits, Publishes, OtherRunConverges, EnclosingConverges, Reviews, copyVars
  <2>2. ~Ends
    <3>1. IdleRun.at = "idle" BY DEF IdleRun
    <3> HIDE DEF IdleRun
    <3> QED BY <3>1 DEF Ends
  <2>3. PICK chunked \in BOOLEAN : run' = Planned(chunked) BY <2>1, <2>2 DEF Plan
  <2>4. PICK r : r = Planned(chunked) OBVIOUS
  <2>5. r.deletes = DeletedPaths BY <2>1, <2>4, PlannedRun
  <2>6. p \in DeletedPaths BY <2>3, <2>4, <2>5
  <2>7. CASE run.force
    <3>1. DeletedPaths = {} BY <2>7 DEF DeletedPaths, Reference, FilesOf, EmptyTree
    <3> QED BY <2>6, <3>1
  <2>8. CASE ~run.force
    <3>1. p \in FilesOf(run.reference) /\ p \in Scope /\ p \notin ExcludedOnDisk
          /\ run.collected[p] = Absent
      BY <2>6, <2>8 DEF DeletedPaths, Reference, Excluded, FilesOf, Without, Only
    <3> QED BY <3>1 DEF ExcludedOnDisk
  <2> QED BY <2>7, <2>8
<1> QED BY <1>1, <1>2, PushInvariant, PTL
        DEF PushSpec, TakesOnlyWhatItSaw, NoBlindOverwrite, DeletesOnlyGone
=============================================================================
