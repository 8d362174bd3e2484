------------------------------ MODULE MCClaims ------------------------------
(* Two authors with a device each edit a small family; and every set of some   *)
(* records about three ids, which two of them may or may not be one person, is *)
(* projected without any edit.                                                 *)
EXTENDS FamilyTree

CONSTANTS d1, d2, ann, bob
MCAuthorOf == d1 :> ann @@ d2 :> bob
MCMaxEdits == d1 :> 3 @@ d2 :> 1
UndoMaxEdits == d1 :> 5 @@ d2 :> 0
MCDevices == {d1, d2}
MCDates == {<<1, 1>>}

p1 == [n |-> 1]
p2 == [n |-> 2]
p3 == [n |-> 3]
Person(id, by) == NewAnchor(id, "person", by, <<0, 0>>)
Says(target, predicate, value, by) == NewClaim(target, predicate, value, by, <<0, 0>>)
Pair(x, y) == [pair |-> <<x, y>>]
Called(x) == [parts |-> [given |-> x, family |-> ""]]

NameOf2 == Says(p2, "name", Called("B"), ann)
\* Nothing of p3 but claims about it; votes on the claims; a name moved elsewhere.
Universe ==
    {Person(p1, ann), Person(p2, bob), Person(p3, ann),
     Says(p1, "same_as", Pair(p1, p2), ann),
     Says(p2, "same_as", Pair(p2, p3), bob), Says(p3, "same_as", Pair(p3, p2), ann),
     Says(p1, "same_as", Pair(p1, p3), bob),
     Says(p1, "different_from", Pair(p3, p1), ann),
     Says(Says(p1, "different_from", Pair(p3, p1), ann), "attest", [verdict |-> "reject"], bob),
     NameOf2, Says(p1, "name", Called("A"), bob),
     Says(NameOf2, "reattribute_to", [personId |-> p3], bob)}

\* A couple and their child, with a note by somebody else and a marriage.
wed == [n |-> 4]
Family ==
    {Person(p1, ann), Person(p2, ann), Person(p3, ann),
     NewAnchor(wed, "event", ann, <<0, 0>>),
     Says(wed, "event_type", [type |-> "marriage"], ann),
     Says(wed, "participant", [personId |-> p1, role |-> "spouse"], ann),
     Says(wed, "participant", [personId |-> p2, role |-> "spouse"], bob),
     Says(p1, "partnership", [pair |-> <<p1, p2>>, role |-> "spouse"], ann),
     Says(p3, "parent", [parentPersonId |-> p1, kind |-> "biological"], ann),
     Says(p3, "parent", [parentPersonId |-> p2, kind |-> "biological"], ann),
     Says(p3, "biography", [text |-> "a"], ann), Says(p3, "biography", [text |-> "b"], bob)}

Families(d) == {u \in view[d].unions : u.parents # {}}
New(fields) == [new |-> fields]
Nothing == << >>
Patches == {[note |-> "x", custom |-> "c"], [birth |-> <<1, 1>>, birthPlace |-> "q"],
            [note |-> None]}
Seed == <<[type |-> "upsertPerson", id |-> [n |-> 5], fields |-> Nothing],
          [type |-> "upsertFamily", spouses |-> {p1, [n |-> 5]}, children |-> {}, facts |-> Nothing]>>

OfTheCouple(d) ==
    \/ addMarriage(d, p1, p3, [marriage |-> <<1, 1>>])
    \/ \E fam \in Families(d) : addChild(d, fam, p1)
    \/ addParents(d, p1, p3, New(Nothing))
    \/ \E fam \in Families(d) :
          \/ removeMarriage(d, fam)
          \/ \E x \in fam.children : unlinkChild(d, fam, x)
          \/ p1 \in fam.parents /\ unlinkSpouse(d, fam, p1)
          \/ linkSpouse(d, fam, p3) \/ setFamilyFacts(d, fam, [place |-> "q"])
    \/ attachMedia(d, p1, "m", "document")

\* Any first edit; then the first is undone and redone, or followed up.
FirstEdit(d) ==
    \/ createPerson(d, Nothing)
    \/ \E patch \in Patches : updatePerson(d, p3, patch)
    \/ \E id \in {p1, p3} \cap PeopleOf(d) : deletePerson(d, id)
    \/ p1 \in PeopleOf(d) /\ (OfTheCouple(d) \/ seed(d, Seed))
FollowUp(d) ==
    \/ \E link \in LinksOf(d, p1) :
          setPortrait(d, p1, link) \/ detachMedia(d, p1, link) \/ setCrop(d, p1, link, "c")
    \/ UndoEdit(d) \/ RedoEdit(d)
Editor(d) == IF edits[d] = 0 THEN FirstEdit(d) ELSE FollowUp(d)

\* The second author adds a note of his own, or takes somebody away.
Peer(d) ==
    /\ edits[d1] \in 1..2 /\ p3 \in PeopleOf(d)
    /\ \/ updatePerson(d, p3, [note |-> "y"])
       \/ deletePerson(d, p3)

MCInit ==
    \/ Init(Family, ann, {ann})
    \/ Init({Person(p3, ann)}, ann, {ann, bob})
    \/ \E S \in SUBSET Universe : Init(S, ann, {ann})
\* Three edits, checkpoints and reopenings in all, of the family or of one person.
Budget ==
    /\ \E S \in {Family, {Person(p3, ann)}} : Imported(S, ann) \in log
    /\ edits[d1] + edits[d2] + checkpoints + (now - 1) < 3
MCNext ==
    \/ Budget /\ Editor(d1)
    \/ Budget /\ Peer(d2)
    \/ \E d \in MCDevices : Mechanics(d)
    \/ \E d \in MCDevices : Budget /\ Upkeep(d)
    \/ \E d \in MCDevices : edits = (d1 :> 1 @@ d2 :> 1) /\ task[d1] = Idle /\ setModerators(d, {ann, bob})
MCSpec == MCInit /\ [][MCNext]_vars

\* One device alone, which edits one field and undoes.
UndoInit == Init(Family, ann, {ann})
UndoNext ==
    \/ \E text \in {"x", "y"} : updatePerson(d1, p3, [note |-> text])
    \/ UndoEdit(d1) \/ RedoEdit(d1)
    \/ Call(d1) \/ Commit(d1) \/ Record(d1)
UndoSpec == UndoInit /\ [][UndoNext]_vars

=============================================================================
