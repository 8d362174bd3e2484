----------------------------- MODULE FamilyTree -----------------------------
(* The editor of an opened tree (familyTree.js over the worker's engine):      *)
(* devices mint claims, commit them as batches, fold each other's batches and  *)
(* undo their own edits, over the engine of Claims and the view of Projection. *)
(*                                                                             *)
(* Every call of the engine is awaited, so a batch of a peer, a checkpoint or  *)
(* a crash falls between any two of them; an operation is its calls in order,  *)
(* what it reads of the view read when it starts.  One operation runs at a     *)
(* time on a device.  The keystroke overlay mints nothing and is left out, as  *)
(* is the silent commit, which no caller makes.                                *)
EXTENDS Claims, Projection, TLC
Sq == INSTANCE SequencesExt
Fs == INSTANCE FiniteSetsExt

CONSTANTS Devices, AuthorOf,
          Text, Dates,    \* what the fields of a form may hold
          MaxEdits, MaxNow, MaxCheckpoints   \* bounds of the model: edits of each device,
                                             \* the wall clock, checkpoints

VARIABLES
    tree,        \* d -> the engine
    log,         \* the committed batches, [from, n, items, by]
    got,         \* d -> the batches folded
    snapshot,    \* the last checkpoint, [live, covers, moderators, clean]
    view,        \* d -> the view last materialized
    task,        \* d -> the operation under way
    undo, redo,  \* d -> stacks of frames [added, removed, before]
    removeOpId,  \* d -> removed id -> the Remove operation
    fresh, now, edits, checkpoints   \* ids used, wall clock, counts of the bounds

engine == <<tree, removeOpId>>
shared == <<log, got, snapshot, checkpoints>>
stacks == <<undo, redo>>
vars == <<engine, shared, view, task, stacks, fresh, now, edits>>

Idle == [stage |-> "idle"]
NoSnapshot == [live |-> {}, covers |-> {}, moderators |-> {}, clean |-> TRUE]
Ready(d) == task[d] = Idle /\ edits[d] < MaxEdits[d]
Author(d) == tree[d].author
\* Whoever's.
AnyonesAreMine(L, author) == L
Mine(L, author) == {r \in L : r.by = author}
LiveMine(L, author, target, predicate) ==
    {c \in Mine(L, author) : IsClaim(c) /\ c.target = target /\ c.predicate = predicate}

-----------------------------------------------------------------------------
(* The calls of an operation.                                                  *)

CallAnchor(id, type) == <<[do |-> "anchor", id |-> id, type |-> type]>>
Asserting(target, predicate, value) ==
    [do |-> "assert", target |-> target, predicate |-> predicate, value |-> value]
CallAssert(target, predicate, value) == <<Asserting(target, predicate, value)>>
CallSet(target, predicate, value) ==
    <<[do |-> "set", target |-> target, predicate |-> predicate, value |-> value]>>
CallName(target, patch) == <<[do |-> "name", target |-> target, patch |-> patch]>>
CallCustom(target, field, value) ==
    <<[do |-> "custom", target |-> target, field |-> field, value |-> value]>>
CallEventPlace(id, place) ==
    IF place = None THEN CallSet(id, "event_place", None)
    ELSE <<[do |-> "place", place |-> place]>>
             \o CallSet(id, "event_place", [placeId |-> [place |-> place]])
\* Remove my claims on some anchors, then the anchors themselves.
CallForget(ids) ==
    IF ids = {} THEN <<>> ELSE <<[do |-> "forget", ids |-> ids], [do |-> "takeBack", ids |-> ids]>>
CallUnparent(children, parents) ==
    <<[do |-> "unparent", children |-> children, parents |-> parents]>>
CallUnpair(couple) == <<[do |-> "unpair", couple |-> couple]>>
CallLeave(spouse) == <<[do |-> "leave", spouse |-> spouse]>>
CallFrame(frame) ==
    <<[do |-> "takeBack", ids |-> frame.added], [do |-> "bringBack", records |-> frame.removed]>>

\* A field asked for by a patch, or nothing.
Given(patch, field, calls) == IF field \in DOMAIN patch THEN calls ELSE <<>>

EventOf(V, pid, type) ==
    LET of == {e.id : e \in {x \in V.events : /\ x.type = type
                                              /\ [person |-> pid, role |-> "principal"]
                                                    \in x.participants}}
    IN  IF of = {} THEN None ELSE Least(of)
PatchEvent(V, pid, patch, type, placeKey, new) ==
    IF {type, placeKey} \cap DOMAIN patch = {} THEN <<>>
    ELSE LET known == EventOf(V, pid, type)
             eid   == IF known = None THEN new ELSE known
         IN  (IF known # None THEN <<>>
              ELSE CallAnchor(eid, "event") \o CallAssert(eid, "event_type", [type |-> type])
                       \o CallAssert(eid, "participant",
                                     [personId |-> pid, role |-> "principal"]))
             \o Given(patch, type,
                      CallSet(eid, "date", IF patch[type] = None THEN None
                                           ELSE [edtf |-> patch[type]]))
             \o Given(patch, placeKey, CallEventPlace(eid, patch[placeKey]))

\* The ids an operation may need: those of its k-th new person and of two events of theirs.
NewPerson(k) == [n |-> fresh + 3 * k]
NewEvent(k, i) == [n |-> fresh + 3 * k + i]

ApplyPatch(V, pid, patch, k) ==
    (IF {"given", "surname"} \cap DOMAIN patch = {} THEN <<>> ELSE CallName(pid, patch))
        \o PatchEvent(V, pid, patch, "birth", "birthPlace", NewEvent(k, 1))
        \o PatchEvent(V, pid, patch, "death", "deathPlace", NewEvent(k, 2))
        \o Given(patch, "sex", CallSet(pid, "sex", IF patch.sex = None THEN None
                                                   ELSE [sex |-> patch.sex]))
        \o Given(patch, "note", CallSet(pid, "biography", IF patch.note = None THEN None
                                                          ELSE [text |-> patch.note]))
        \o Given(patch, "custom", CallCustom(pid, "field", patch.custom))

NEW_PERSON == [given |-> "", surname |-> "", sex |-> "U"]
CreateCalls(V, pid, fields, k) ==
    CallAnchor(pid, "person") \o ApplyPatch(V, pid, fields @@ NEW_PERSON, k)

\* Someone who is there, or the fields of someone new.
IsNew(who) == "new" \in DOMAIN who
PersonId(who, k) == IF IsNew(who) THEN NewPerson(k) ELSE who
PersonCalls(V, who, k) == IF IsNew(who) THEN CreateCalls(V, NewPerson(k), who.new, k) ELSE <<>>

PairSeq(p) == <<Least(p), Greatest(p)>>
CallPartner(target, pair) ==
    CallAssert(target, "partnership", [pair |-> PairSeq(pair), role |-> "spouse"])
CallParent(child, parent) ==
    CallAssert(child, "parent", [parentPersonId |-> parent, kind |-> "biological"])
\* Loops that assert one claim for each; in which order makes no difference.
CallParents(children, parents) ==
    LET pairs == Sq!SetToSeq(children \X parents) IN
    [i \in 1..Cardinality(children \X parents) |->
        Asserting(pairs[i][1], "parent", [parentPersonId |-> pairs[i][2], kind |-> "biological"])]
CallSpouses(eid, spouses) ==
    LET each == Sq!SetToSeq(spouses) IN
    [i \in 1..Cardinality(spouses) |->
        Asserting(eid, "participant", [personId |-> each[i], role |-> "spouse"])]
CallMarriage(eid, spouses) ==
    CallAnchor(eid, "event") \o CallAssert(eid, "event_type", [type |-> "marriage"])
        \o CallSpouses(eid, spouses)
CallFacts(eid, facts) ==
    Given(facts, "marriage", CallSet(eid, "date", IF facts.marriage = None THEN None
                                                  ELSE [edtf |-> facts.marriage]))
        \o Given(facts, "place", CallEventPlace(eid, facts.place))

-----------------------------------------------------------------------------
(* What one call mints, as a set: the order within a loop is that of ids.      *)

Drops(ids) == {[do |-> "drop", id |-> i] : i \in ids}
\* Replace my prior claim, or assert the first.
Replace(prior, target, predicate, value) ==
    {IF prior = {} THEN [do |-> "assert", target |-> target, predicate |-> predicate,
                         value |-> value]
     ELSE [do |-> "edit", prior |-> (CHOOSE c \in prior : TRUE), target |-> target,
           predicate |-> predicate, value |-> value]}

Named(prior, patch) ==
    LET cur == IF prior = {} THEN [given |-> "", family |-> ""]
               ELSE (CHOOSE c \in prior : TRUE).value.parts
    IN  [parts |-> [given  |-> IF "given" \in DOMAIN patch THEN patch.given ELSE cur.given,
                    family |-> IF "surname" \in DOMAIN patch THEN patch.surname ELSE cur.family]]

Portrait(links, subject, link) ==
    {[do |-> "edit", prior |-> c, target |-> subject, predicate |-> "media_link",
      value |-> [c.value EXCEPT !.role = IF c = link THEN "portrait" ELSE "document"]] :
        c \in {x \in links : (x = link) # (x.value.role = "portrait")}}

Revive(r, removals) ==
    IF IdOf(r) \in DOMAIN removals THEN [do |-> "revive", op |-> removals[IdOf(r)]]
    ELSE [do |-> "assert", target |-> r.target, predicate |-> r.predicate, value |-> r.value]

Mints(k, L, author, removals) ==
    LET Of(target, predicate) == LiveMine(L, author, target, predicate) IN
    CASE k.do \in {"anchor", "assert", "drop", "edit"} -> {k}
      [] k.do = "set" ->
           IF k.value = None THEN Drops(Of(k.target, k.predicate))
           ELSE Replace(Of(k.target, k.predicate), k.target, k.predicate, k.value)
      [] k.do = "name" ->
           Replace(Of(k.target, "name"), k.target, "name", Named(Of(k.target, "name"), k.patch))
      [] k.do = "custom" ->
           LET mine == {c \in Of(k.target, "custom_value") : c.value.fieldId = k.field} IN
           IF k.value = None THEN Drops(mine)
           ELSE Replace(mine, k.target, "custom_value", [fieldId |-> k.field, value |-> k.value])
      [] k.do = "place" ->
           LET place == [place |-> k.place]
               value == [name |-> k.place]
           IN  IF value \in {c.value : c \in Of(place, "place_name")} THEN {}
               ELSE Replace({}, place, "place_name", value)
      [] k.do = "forget" -> Drops({c \in Mine(L, author) : IsClaim(c) /\ c.target \in k.ids})
      [] k.do = "unparent" ->
           Drops(UNION {{c \in Of(x, "parent") : c.value.parentPersonId \in k.parents} :
                           x \in k.children})
      [] k.do = "unpair" ->
           Drops(UNION {{c \in Of(p, "partnership") : PairOf(c) = k.couple} : p \in k.couple})
      [] k.do = "leave" ->
           Drops({c \in Of(k.spouse, "partnership") : k.spouse \in PairOf(c)})
      [] k.do = "portrait" -> Portrait(Of(k.target, "media_link"), k.target, k.link)
      [] k.do = "takeBack" -> Drops(k.ids)
      [] k.do = "bringBack" -> {Revive(r, removals) : r \in k.records}

\* An anchor whose removal was not mine can be neither revoked nor asserted.
Throws(k, removals) ==
    k.do = "bringBack" /\ \E r \in k.records : r.kind = "anchor" /\ r.id \notin DOMAIN removals

Minted(t, m) ==
    LET at == ClockNext(t.clock, now) IN
    CASE m.do = "anchor" -> AssertAnchor(t, m.id, m.type, at)
      [] m.do = "assert" -> AssertClaim(t, m.target, m.predicate, m.value, at)
      [] m.do = "edit"   -> SupersedeClaim(t, m.prior, m.target, m.predicate, m.value, at)
      [] m.do = "drop"   -> Remove(t, m.id, at)
      [] m.do = "revive" -> Revoke(t, m.op, at)

-----------------------------------------------------------------------------
(* The operations.  Each takes stock of my records, then makes its calls.      *)

\* goal is what an undo or a redo should come back to, of no use to the code; the calls
\* may use the ids of n new people and their events.
Start(d, n, calls, inverse, goal) ==
    /\ task' = [task EXCEPT ![d] =
                  [stage |-> "calling", calls |-> calls, inverse |-> inverse, goal |-> goal,
                   before |-> Mine(Live(tree[d]), Author(d))]]
    /\ fresh' = fresh + 3 * n
    /\ edits' = [edits EXCEPT ![d] = @ + 1]
    /\ UNCHANGED <<engine, shared, view, now>>
\* An operation whose frame goes on the undo stack, and one that leaves no frame.
Edit(d, calls)     == Start(d, 3, calls, "undo", {}) /\ UNCHANGED stacks
Unframed(d, calls) == Start(d, 3, calls, "none", {}) /\ UNCHANGED stacks

PeopleOf(d) == {p.id : p \in view[d].people}

createPerson(d, fields) ==
    Ready(d) /\ Edit(d, CreateCalls(view[d], NewPerson(0), fields, 0))

updatePerson(d, id, patch) ==
    Ready(d) /\ Edit(d, ApplyPatch(view[d], id, patch, 0))

deletePerson(d, id) ==
    /\ Ready(d)
    /\ Edit(d, CallForget({id})
                   \o CallForget({EventOf(view[d], id, type) : type \in {"birth", "death"}} \ {None}))

addMarriage(d, a, b, facts) ==
    /\ Ready(d) /\ b # a
    /\ LET pair == {a, PersonId(b, 0)} IN
       Edit(d, PersonCalls(view[d], b, 0) \o CallPartner(a, pair)
                   \o (IF DOMAIN facts = {} THEN <<>>
                       ELSE CallMarriage(NewPerson(2), pair) \o CallFacts(NewPerson(2), facts)))

addChild(d, fam, child) ==
    /\ Ready(d)
    /\ Edit(d, PersonCalls(view[d], child, 0) \o CallParents({PersonId(child, 0)}, fam.parents))

\* A father and a mother, each known, new, or absent.
addParents(d, child, father, mother) ==
    /\ Ready(d)
    /\ LET Calls(who, k) ==
               IF who = None THEN <<>>
               ELSE PersonCalls(view[d], who, k) \o CallParent(child, PersonId(who, k))
           OfSex(who, sex) == IF who = None \/ ~IsNew(who) THEN who
                              ELSE [new |-> who.new @@ [sex |-> sex]]
       IN  Edit(d, Calls(OfSex(father, "M"), 0) \o Calls(OfSex(mother, "F"), 1))

removeMarriage(d, fam) ==
    /\ Ready(d)
    /\ Edit(d, CallUnpair(fam.parents) \o CallUnparent(fam.children, fam.parents)
                   \o (IF fam.marriage = None THEN <<>> ELSE CallForget({fam.marriage})))

unlinkChild(d, fam, child) ==
    Ready(d) /\ Edit(d, CallUnparent({child}, fam.parents))

unlinkSpouse(d, fam, spouse) ==
    /\ Ready(d)
    /\ Edit(d, CallLeave(spouse) \o CallUnparent(fam.children, {spouse}))

linkSpouse(d, fam, spouse) ==
    /\ Ready(d) /\ fam.parents # {} /\ spouse \notin fam.parents
    /\ LET other == Least(fam.parents) IN
       Edit(d, CallPartner(other, {other, spouse}) \o CallParents(fam.children, {spouse}))

setFamilyFacts(d, fam, facts) ==
    /\ Ready(d)
    /\ LET eid == IF fam.marriage = None THEN NewPerson(2) ELSE fam.marriage IN
       Edit(d, (IF fam.marriage = None THEN CallMarriage(eid, fam.parents) ELSE <<>>)
                   \o CallFacts(eid, facts))

LinksOf(d, subject) == LiveMine(Live(tree[d]), Author(d), subject, "media_link")
attachMedia(d, subject, hash, role) ==
    /\ Ready(d)
    /\ Edit(d, CallAssert(subject, "media_link",
                          [mediaHash |-> hash, role |-> role, crop |-> None]))
setPortrait(d, subject, link) ==
    Ready(d) /\ Edit(d, <<[do |-> "portrait", target |-> subject, link |-> link]>>)
detachMedia(d, subject, link) ==
    /\ Ready(d) /\ link \in LinksOf(d, subject)
    /\ Edit(d, <<[do |-> "drop", id |-> link]>>)
\* No stock is taken: a crop cannot be undone.
setCrop(d, subject, link, crop) ==
    /\ Ready(d) /\ link \in LinksOf(d, subject)
    /\ Unframed(d, <<[do |-> "edit", prior |-> link, target |-> subject,
                      predicate |-> "media_link", value |-> [link.value EXCEPT !.crop = crop]]>>)

\* The opposite frame goes on the other stack.
UndoEdit(d) ==
    /\ Ready(d) /\ undo[d] # <<>>
    /\ Start(d, 0, CallFrame(Head(undo[d])), "redo", Head(undo[d]).before)
    /\ undo' = [undo EXCEPT ![d] = Tail(@)]
    /\ UNCHANGED redo
RedoEdit(d) ==
    /\ Ready(d) /\ redo[d] # <<>>
    /\ Start(d, 0, CallFrame(Head(redo[d])), "replay", Head(redo[d]).before)
    /\ redo' = [redo EXCEPT ![d] = Tail(@)]
    /\ UNCHANGED undo

\* A demonstration tree, from ops on ids of the seed's own; the stacks start anew.
SeedCalls(d, o, k) ==
    IF o.type = "upsertPerson" THEN CreateCalls(view[d], o.id, o.fields, k)
    ELSE (IF Cardinality(o.spouses) < 2 THEN <<>> ELSE CallPartner(Least(o.spouses), o.spouses))
             \o CallParents(o.children, o.spouses)
             \o (IF DOMAIN o.facts = {} THEN <<>>
                 ELSE CallMarriage(NewPerson(k), o.spouses) \o CallFacts(NewPerson(k), o.facts))
seed(d, ops) ==
    /\ Ready(d)
    /\ Start(d, Len(ops), Sq!FlattenSeq([i \in DOMAIN ops |-> SeedCalls(d, ops[i], i - 1)]),
             "none", {})
    /\ undo' = [undo EXCEPT ![d] = <<>>] /\ redo' = [redo EXCEPT ![d] = <<>>]

-----------------------------------------------------------------------------
(* The calls, the commit, and what follows it.                                 *)

After(t, mints) ==
    LET Mint(m, u) == Minted(u, m) IN Fs!FoldSet(Mint, t, mints)
Removals(items) == {i \in items : i.kind = "remove"}
\* The Remove operation of each id: the new ones over the old.
Remembered(removals, new) ==
    LET named == {r.target : r \in new} IN
    [i \in named \cup DOMAIN removals |->
        IF i \in named THEN CHOOSE r \in new : r.target = i ELSE removals[i]]

Call(d) ==
    /\ task[d].stage = "calling" /\ task[d].calls # <<>>
    /\ \E k \in {Head(task[d].calls)} :
       /\ ~Throws(k, removeOpId[d])
       /\ \E t \in {After(tree[d], Mints(k, Live(tree[d]), Author(d), removeOpId[d]))} :
          /\ tree' = [tree EXCEPT ![d] = t]
          /\ removeOpId' = [removeOpId EXCEPT ![d] = Remembered(@, Removals(t.items \ tree[d].items))]
    /\ task' = [task EXCEPT ![d].calls = Tail(@)]
    /\ UNCHANGED <<shared, view, stacks, fresh, now, edits>>

\* The operation stops where it is; what it has minted stays with the engine.
CallThrows(d) ==
    /\ task[d].stage = "calling" /\ task[d].calls # <<>>
    /\ Throws(Head(task[d].calls), removeOpId[d])
    /\ task' = [task EXCEPT ![d] = Idle]
    /\ UNCHANGED <<engine, shared, view, stacks, fresh, now, edits>>

BatchesOf(d) == {b \in log : b.from = d}
Commit(d) ==
    /\ task[d].stage = "calling" /\ task[d].calls = <<>>
    /\ LET batch == [from |-> d, n |-> Cardinality(BatchesOf(d)) + 1,
                     items |-> tree[d].pending, by |-> Author(d)]
           new   == IF tree[d].pending = {} THEN {} ELSE {batch}
       IN  log' = log \cup new /\ got' = [got EXCEPT ![d] = @ \cup new]
    /\ tree' = [tree EXCEPT ![d] = Flushed(@)]
    /\ task' = [task EXCEPT ![d].stage = "committed"]
    /\ UNCHANGED <<removeOpId, snapshot, checkpoints, view, stacks, fresh, now, edits>>

Frame(before, after) ==
    [added |-> {IdOf(r) : r \in after} \ {IdOf(r) : r \in before},
     removed |-> {r \in before : IdOf(r) \notin {IdOf(s) : s \in after}},
     before |-> before]
Changes(frame) == frame.added # {} \/ frame.removed # {}

Materialized(d) == view' = [view EXCEPT ![d] = Project(Live(tree[d]))]
Record(d) ==
    /\ task[d].stage = "committed"
    /\ Materialized(d)
    /\ LET frame  == Frame(task[d].before, Mine(Live(tree[d]), Author(d)))
           framed == Changes(frame)
           how    == task[d].inverse
       IN  /\ undo' = [undo EXCEPT ![d] =
                         IF framed /\ how \in {"undo", "replay"} THEN <<frame>> \o @ ELSE @]
           /\ redo' = [redo EXCEPT ![d] =
                         IF framed /\ how = "redo" THEN <<frame>> \o @
                         ELSE IF framed /\ how = "undo" THEN <<>> ELSE @]
    /\ task' = [task EXCEPT ![d] = Idle]
    /\ UNCHANGED <<engine, shared, fresh, now, edits>>

-----------------------------------------------------------------------------
(* What happens around the editor.                                             *)

\* Fold a batch of the log: those of one device in order.
Receive(d, b) ==
    /\ b \notin got[d]
    /\ \A c \in log : c.from = b.from /\ c.n < b.n => c \in got[d]
    /\ tree' = [tree EXCEPT ![d] = Merge(@, b.items, b.by)]
    /\ got' = [got EXCEPT ![d] = @ \cup {b}]
    /\ UNCHANGED <<removeOpId, log, snapshot, checkpoints, view, task, stacks, fresh, now, edits>>

\* In the middle of an operation it would be repeated at the end of it.
Hydrate(d) ==
    /\ task[d] = Idle
    /\ Materialized(d) /\ view' # view
    /\ UNCHANGED <<engine, shared, task, stacks, fresh, now, edits>>

\* Saying that it stands for batches it has not folded.
CheckpointOfLog(d) ==
    /\ checkpoints < MaxCheckpoints /\ snapshot.covers \subseteq got[d] /\ got[d] # {}
    /\ snapshot' = [live |-> Snapshot(tree[d]), covers |-> log,
                    moderators |-> tree[d].moderators, clean |-> tree[d].pending = {}]
    /\ checkpoints' = checkpoints + 1
    /\ UNCHANGED <<engine, log, got, view, task, stacks, fresh, now, edits>>
\* A snapshot of the engine as it is, saying which batches it stands for.
Checkpoint(d) ==
    /\ checkpoints < MaxCheckpoints /\ snapshot.covers \subseteq got[d] /\ got[d] # {}
    /\ snapshot' = [live |-> Snapshot(tree[d]), covers |-> got[d],
                    moderators |-> tree[d].moderators, clean |-> tree[d].pending = {}]
    /\ checkpoints' = checkpoints + 1
    /\ UNCHANGED <<engine, log, got, view, task, stacks, fresh, now, edits>>

\* A fresh engine over a snapshot and the batches after it.
Fold(t, batches) ==
    LET Take(b, u) == Merge(u, b.items, b.by) IN Fs!FoldSet(Take, t, batches)
Opened(author, moderators, s, batches) ==
    Fold(LoadSnapshot(SetModerators(NewTree(author), moderators), s.live), batches \ s.covers)

\* The page is closed, or crashes, and is opened again; time has passed.
Reopen(d) ==
    /\ now < MaxNow
    /\ tree' = [tree EXCEPT ![d] = Opened(Author(d), @.moderators, snapshot, got[d])]
    /\ got' = [got EXCEPT ![d] = @ \cup snapshot.covers]
    /\ view' = [view EXCEPT ![d] = Project(Live(tree'[d]))]
    /\ task' = [task EXCEPT ![d] = Idle]
    /\ undo' = [undo EXCEPT ![d] = <<>>] /\ redo' = [redo EXCEPT ![d] = <<>>]
    /\ removeOpId' = [removeOpId EXCEPT ![d] = << >>]
    /\ now' = now + 1
    /\ UNCHANGED <<log, snapshot, checkpoints, fresh, edits>>

setModerators(d, dids) ==
    /\ task[d] = Idle /\ dids # tree[d].moderators
    /\ tree' = [tree EXCEPT ![d] = SetModerators(@, dids)]
    /\ view' = [view EXCEPT ![d] = Project(Live(tree'[d]))]
    /\ UNCHANGED <<removeOpId, shared, task, stacks, fresh, now, edits>>

-----------------------------------------------------------------------------
(* Everything starts from one batch of records that is already in the log.     *)

\* Smaller ids are those of imports and seeds.
FirstFresh == 100
Imported(items, author) == [from |-> "import", n |-> 1, items |-> items, by |-> author]
Init(items, author, moderators) ==
    /\ log = {Imported(items, author)}
    /\ got = [d \in Devices |-> log]
    /\ tree = [d \in Devices |->
                 Merge(SetModerators(NewTree(AuthorOf[d]), moderators), items, author)]
    /\ snapshot = NoSnapshot
    /\ \E v \in {Project(items)} : view = [d \in Devices |-> v]
    /\ task = [d \in Devices |-> Idle]
    /\ undo = [d \in Devices |-> <<>>] /\ redo = [d \in Devices |-> <<>>]
    /\ removeOpId = [d \in Devices |-> << >>]
    /\ fresh = FirstFresh /\ now = 1 /\ edits = [d \in Devices |-> 0] /\ checkpoints = 0

Mechanics(d) ==
    \/ Call(d) \/ CallThrows(d) \/ Commit(d) \/ Record(d)
    \/ \E b \in log : Receive(d, b)
    \/ Hydrate(d)
Upkeep(d) == Checkpoint(d) \/ Reopen(d)

-----------------------------------------------------------------------------
(* Every operation, on any people and families that the view shows, with any  *)
(* form.                                                                       *)

AnchorId == [n : Nat]
\* No value is no id.
ASSUME NoneAssumption == None \notin AnchorId
Form(fields) == UNION {[F -> Text \cup Dates \cup {None}] : F \in SUBSET fields}
PersonFields == {"given", "surname", "sex", "note", "custom",
                 "birth", "birthPlace", "death", "deathPlace"}
FactFields == {"marriage", "place"}
\* Somebody there, or somebody new.
Someone(forms) == AnchorId \cup {[new |-> form] : form \in forms}

Finite(ids) == {S \in SUBSET ids : IsFiniteSet(S)}
SeedOps(forms, facts) ==
    [type : {"upsertPerson"}, id : AnchorId, fields : forms]
        \cup [type : {"upsertFamily"}, spouses : Finite(AnchorId), children : Finite(AnchorId),
              facts : facts]

AnchorsOf(items) == {i.id : i \in {x \in items : x.kind = "anchor"}}
AnchorsIn(calls) == {calls[i].id : i \in {j \in DOMAIN calls : calls[j].do = "anchor"}}
AnchorsAhead(d) == IF task[d].stage = "calling" THEN AnchorsIn(task[d].calls) ELSE {}
Taken == (UNION {AnchorsOf(b.items) : b \in log})
             \cup UNION {AnchorsOf(tree[d].pending) \cup AnchorsAhead(d) : d \in Devices}
\* A tree is reset before it is seeded (reseed): nothing in it has an id of the seed.
Unused(ops) ==
    \A i \in DOMAIN ops : ops[i].type = "upsertPerson" =>
        /\ ops[i].id \notin Taken /\ ops[i].id.n < FirstFresh
        /\ \A j \in DOMAIN ops : ops[j].type = "upsertPerson" /\ ops[j].id = ops[i].id => j = i

OnPeople(d) ==
    \/ \E form \in Form(PersonFields) : createPerson(d, form)
    \/ \E id \in AnchorId, form \in Form(PersonFields) : updatePerson(d, id, form)
    \/ \E id \in AnchorId : deletePerson(d, id)
    \/ \E a \in AnchorId, b \in Someone(Form(PersonFields)), facts \in Form(FactFields) :
          addMarriage(d, a, b, facts)
    \/ \E child \in AnchorId, father, mother \in Someone(Form(PersonFields)) \cup {None} :
          addParents(d, child, father, mother)
    \/ \E ops \in Seq(SeedOps(Form(PersonFields), Form(FactFields))) : Unused(ops) /\ seed(d, ops)
OnFamilies(d) ==
    \E fam \in view[d].unions :
        \/ \E child \in Someone(Form(PersonFields)) : addChild(d, fam, child)
        \/ removeMarriage(d, fam)
        \/ \E child \in fam.children : unlinkChild(d, fam, child)
        \/ \E spouse \in fam.parents : unlinkSpouse(d, fam, spouse)
        \/ \E spouse \in AnchorId : linkSpouse(d, fam, spouse)
        \/ \E facts \in Form(FactFields) : setFamilyFacts(d, fam, facts)
OnMedia(d) ==
    \E subject \in AnchorId :
        \/ \E hash \in Text, role \in {"portrait", "document"} : attachMedia(d, subject, hash, role)
        \/ \E link \in LinksOf(d, subject) :
              setPortrait(d, subject, link) \/ detachMedia(d, subject, link)
        \/ \E link \in LinksOf(d, subject), crop \in Text : setCrop(d, subject, link, crop)
Operation(d) == OnPeople(d) \/ OnFamilies(d) \/ OnMedia(d) \/ UndoEdit(d) \/ RedoEdit(d)

Next ==
    \E d \in Devices :
        \/ Operation(d) \/ Mechanics(d) \/ Upkeep(d)
        \/ \E dids \in SUBSET {AuthorOf[e] : e \in Devices} : setModerators(d, dids)
Spec(items, author, moderators) == Init(items, author, moderators) /\ [][Next]_vars

-----------------------------------------------------------------------------
(* Properties.                                                                 *)

Stepping(d) == task[d] # Idle /\ task'[d] # task[d] /\ now' = now

\* Whatever an editor's operation does, undo and redo included, a claim of
\* another author that was live stays live (only this replica's claims are
\* touched: liveMine, deletePerson, removeMarriage, applyFrame).
PeersClaimsSurvive ==
    [][\A d \in Devices : Stepping(d) =>
          \A c \in Live(tree[d]) :
             IsClaim(c) /\ c.by # Author(d) => c \in Live(tree'[d])]_vars

\* What a call mints is live at once and was never there before, whatever was
\* merged, undone or reopened since the clock was last right (emit, HlcClock).
MintsTakeEffect ==
    [][\A d \in Devices : Stepping(d) =>
          LET new == tree'[d].pending \ tree[d].pending IN
          /\ new \cap tree[d].items = {}
          /\ \A i \in Asserted(new) : i \in Live(tree'[d])]_vars

\* Replicas that have folded the same batches, in whatever order, under the same
\* moderators, show the same records (materialize; merge).
ReplicasAgree ==
    \A d, e \in Devices :
       /\ got[d] = got[e] /\ tree[d].moderators = tree[e].moderators
       /\ tree[d].pending = {} /\ tree[e].pending = {} /\ checkpoints = 0 /\ d # e
       => Live(tree[d]) = Live(tree[e])

\* Whatever a device has folded, the view of it is sound (project).
ProjectionIsSound == \A d \in Devices : IsSound(Live(tree[d]))

RevokedIn(batches) == {i.removal : i \in {x \in UNION {b.items : b \in batches} : x.kind = "revoke"}}
\* A device that opens from the checkpoint and folds only what came after it has
\* every record that a device has that folded the whole log, unless an undo
\* revoked a removal or the checkpoint was taken in the middle of an operation
\* (snapshot, load_snapshot).
CheckpointLosesNothing ==
    /\ snapshot # NoSnapshot /\ snapshot.clean
    /\ RevokedIn(log \ snapshot.covers) = {}
    => \E d \in Devices :
          Live(Opened(Author(d), snapshot.moderators, NoSnapshot, log))
             \subseteq Live(Opened(Author(d), snapshot.moderators, snapshot, log))

\* What the records say, apart from when it was said.
Said(records) ==
    {IF r.kind = "anchor" THEN r.id ELSE FactOf(r) : r \in records}
\* An undo, or a redo, with nothing of anybody else's in between brings back what
\* I said before (familyTree.js: a commit's inverse).
UndoRestores ==
    [][\A d \in Devices :
          /\ task[d] # Idle /\ task[d].stage = "committed" /\ task'[d] = Idle
          /\ now' = now /\ task[d].inverse \in {"redo", "replay"}
          /\ \A b \in got[d] : b.from \in {"import", d}
          => Said(Mine(Live(tree[d]), Author(d))) = Said(task[d].goal)]_vars
=============================================================================
