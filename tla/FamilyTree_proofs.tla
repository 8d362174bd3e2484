-------------------------- MODULE FamilyTree_proofs --------------------------
(***************************************************************************)
(* Proofs about the editors of a family tree: any devices and authors, any *)
(* operation on any form, over any records that were imported.             *)
(***************************************************************************)
EXTENDS FamilyTree, FiniteSetTheorems, SequenceTheorems, WellFoundedInduction, TLAPS

-----------------------------------------------------------------------------
(* Induction, stated of sets.                                              *)

\* Of the subsets of a finite set that are in B, one has none of B below it.
LEMMA SmallestSubset ==
  ASSUME NEW M, IsFiniteSet(M), NEW B, B \subseteq SUBSET M, B # {}
  PROVE  \E X \in B : \A Y \in SUBSET X : Y # X => Y \notin B
<1>1. IsWellFoundedOn(StrictSubsetOrdering(M), FiniteSubsetsOf(M))
  BY FS_StrictSubsetOrderingWellFounded
<1>2. B \subseteq FiniteSubsetsOf(M)
  BY FS_Subset DEF FiniteSubsetsOf
<1>3. PICK X \in B : \A Y \in B : ~(<<Y, X>> \in StrictSubsetOrdering(M))
  BY <1>1, <1>2, WFMin, Zenon
<1>4. \A Y \in SUBSET X : Y # X => Y \notin B
  BY <1>3 DEF StrictSubsetOrdering
<1> QED BY <1>3, <1>4

\* A property of a set of sets, T, that passes from the smaller ones to each.
LEMMA FiniteInduction ==
  ASSUME NEW M, IsFiniteSet(M), NEW T,
         \A s \in SUBSET M : (\A u \in SUBSET s : u # s => u \in T) => s \in T
  PROVE  M \in T
<1> DEFINE B == {s \in SUBSET M : s \notin T}
<1> SUFFICES ASSUME B # {} PROVE FALSE
  OBVIOUS
<1>0. B \subseteq SUBSET M
  OBVIOUS
<1>1. PICK X \in B : \A Y \in SUBSET X : Y # X => Y \notin B
  <2> HIDE DEF B
  <2> QED BY <1>0, SmallestSubset, Zenon
<1>2. \A u \in SUBSET X : u # X => u \in T
  BY <1>1
<1> QED BY <1>1, <1>2

\* A set of numbers that begins at nought and never stops.
LEMMA NumberInduction ==
  ASSUME NEW T, 0 \in T, \A n \in Nat : n \in T => n + 1 \in T, NEW m \in Nat
  PROVE  m \in T
<1> DEFINE I == 0..m
           U == {s \in SUBSET I : \A k \in Nat : s = 0..k => k \in T}
<1>1. IsFiniteSet(I)
  BY FS_Interval
<1>2. ASSUME NEW s \in SUBSET I, \A u \in SUBSET s : u # s => u \in U
      PROVE  s \in U
  <2> SUFFICES ASSUME NEW k \in Nat, s = 0..k PROVE k \in T
    BY <1>2
  <2>1. CASE k = 0
    BY <2>1
  <2>2. CASE k # 0
    <3>1. k - 1 \in Nat /\ 0..(k - 1) \in SUBSET s /\ 0..(k - 1) # s
      BY <2>2
    <3>2. k - 1 \in T
      BY <3>1, <1>2
    <3> QED BY <3>1, <3>2
  <2> QED BY <2>1, <2>2
<1>3. \A s \in SUBSET I : (\A u \in SUBSET s : u # s => u \in U) => s \in U
  <2> HIDE DEF I, U
  <2> QED BY <1>2
<1>4. I \in U
  <2> HIDE DEF I, U
  <2> QED BY <1>1, <1>3, FiniteInduction, Zenon
<1> QED BY <1>4

\* What a function makes of a finite set is finite.
LEMMA ImageIsFinite ==
  ASSUME NEW S, IsFiniteSet(S), NEW f, NEW T, \A y \in T : \E x \in S : y = f[x]
  PROVE  IsFiniteSet(T)
<1> DEFINE U == {x \in S : f[x] \in T}
           g == [x \in U |-> f[x]]
<1>1. IsFiniteSet(U)
  BY FS_Subset
<1>2. g \in Surjection(U, T)
  BY DEF Surjection
<1> QED BY <1>1, <1>2, FS_Surjection

LEMMA TwoAreFinite == ASSUME NEW x, NEW y PROVE IsFiniteSet({x, y})
<1>1. IsFiniteSet({x} \cup {y})
  BY FS_Singleton, FS_Union
<1>2. {x} \cup {y} = {x, y}
  OBVIOUS
<1> QED BY <1>1, <1>2

-----------------------------------------------------------------------------
(* Folds.  The function that a fold is taken from exists, level by level.      *)

AnyOf(s) == CHOOSE x \in s : TRUE

LEMMA AnyIsIn == \A s : s # {} => AnyOf(s) \in s
  BY DEF AnyOf

\* The sets of at most n elements; taking one element away goes down a level.
Level(M, n) == {s \in SUBSET M : Cardinality(s) <= n}
LEMMA Levels ==
  ASSUME NEW M, IsFiniteSet(M)
  PROVE  /\ Level(M, 0) = {{}}
         /\ Level(M, Cardinality(M)) = SUBSET M
         /\ \A n \in Nat : \A s \in Level(M, n + 1) : s # {} => s \ {AnyOf(s)} \in Level(M, n)
<1>1. \A s \in SUBSET M : IsFiniteSet(s) /\ Cardinality(s) \in Nat /\ Cardinality(s) <= Cardinality(M)
  BY FS_Subset, FS_CardinalityType
<1>2. \A s \in SUBSET M : Cardinality(s) = 0 <=> s = {}
  BY <1>1, FS_EmptySet
<1>3. \A s \in SUBSET M : s # {} =>
         /\ s \ {AnyOf(s)} \in SUBSET M
         /\ Cardinality(s \ {AnyOf(s)}) = Cardinality(s) - 1
  BY <1>1, AnyIsIn, FS_RemoveElement
<1> QED BY <1>1, <1>2, <1>3 DEF Level

\* g mints each set of M from t, one element at a time.
Mints1By1(g, t, M) ==
  g = [s \in SUBSET M |-> IF s = {} THEN t ELSE Minted(g[s \ {AnyOf(s)}], AnyOf(s))]

LEMMA MintingFunctionExists ==
  ASSUME NEW t, NEW M, IsFiniteSet(M)
  PROVE  \E g : Mints1By1(g, t, M)
<1> DEFINE Is(h, n) == h = [s \in Level(M, n) |->
                              IF s = {} THEN t ELSE Minted(h[s \ {AnyOf(s)}], AnyOf(s))]
           T == {n \in Nat : \E h : Is(h, n)}
<1>1. 0 \in T
  <2> DEFINE h == [s \in Level(M, 0) |-> t]
  <2>1. Is(h, 0)
    BY Levels
  <2> QED BY <2>1
<1>2. ASSUME NEW n \in Nat, n \in T PROVE n + 1 \in T
  <2>1. PICK h : Is(h, n)
    BY <1>2
  <2> DEFINE u == [s \in Level(M, n + 1) |->
                     IF s = {} THEN t ELSE Minted(h[s \ {AnyOf(s)}], AnyOf(s))]
  <2>2. \A s \in Level(M, n) : s \in Level(M, n + 1)
    <3>1. \A s \in SUBSET M : Cardinality(s) \in Nat
      BY FS_Subset, FS_CardinalityType
    <3> QED BY <3>1 DEF Level
  <2>3. \A s \in Level(M, n) : u[s] = h[s]
    BY <2>1, <2>2
  <2>4. \A s \in Level(M, n + 1) : s # {} => u[s \ {AnyOf(s)}] = h[s \ {AnyOf(s)}]
    BY <2>3, Levels
  <2>5. Is(u, n + 1)
    BY <2>4
  <2> HIDE DEF Is
  <2> QED BY <2>5
<1>3. Cardinality(M) \in T
  <2> HIDE DEF T
  <2> QED BY <1>1, <1>2, NumberInduction, FS_CardinalityType
<1>4. PICK h : Is(h, Cardinality(M))
  BY <1>3
<1>5. Level(M, Cardinality(M)) = SUBSET M
  BY Levels
<1> QED BY <1>4, <1>5, Zenon DEF Mints1By1

\* The steps of minting a set, one at a time.
MintsAlong(g, t, M) ==
  /\ g[{}] = t
  /\ \A s \in SUBSET M : s # {} => g[s] = Minted(g[s \ {AnyOf(s)}], AnyOf(s))
LEMMA AfterUnfolds ==
  ASSUME NEW t, NEW M, IsFiniteSet(M)
  PROVE  \E g : After(t, M) = g[M] /\ MintsAlong(g, t, M)
<1> DEFINE f == CHOOSE g : Mints1By1(g, t, M)
<1>1. After(t, M) = f[M]
  BY Zenon DEF After, Fs!FoldSet, Fs!MapThenFoldSet, AnyOf, Mints1By1
<1>3. Mints1By1(f, t, M)
  BY MintingFunctionExists, Zenon
<1> HIDE DEF f
<1>4. MintsAlong(f, t, M)
  BY <1>3 DEF Mints1By1, MintsAlong
<1> QED BY <1>1, <1>4, Zenon

\* g folds each set of batches of B into t, one at a time.
Folds1By1(g, t, M) ==
  g = [s \in SUBSET M |-> IF s = {} THEN t ELSE Merge(g[s \ {AnyOf(s)}], AnyOf(s).items, AnyOf(s).by)]

LEMMA FoldingFunctionExists ==
  ASSUME NEW t, NEW M, IsFiniteSet(M)
  PROVE  \E g : Folds1By1(g, t, M)
<1> DEFINE Is(h, n) == h = [s \in Level(M, n) |->
                              IF s = {} THEN t ELSE Merge(h[s \ {AnyOf(s)}], AnyOf(s).items, AnyOf(s).by)]
           T == {n \in Nat : \E h : Is(h, n)}
<1>1. 0 \in T
  <2> DEFINE h == [s \in Level(M, 0) |-> t]
  <2>1. Is(h, 0)
    BY Levels
  <2> QED BY <2>1
<1>2. ASSUME NEW n \in Nat, n \in T PROVE n + 1 \in T
  <2>1. PICK h : Is(h, n)
    BY <1>2
  <2> DEFINE u == [s \in Level(M, n + 1) |->
                     IF s = {} THEN t ELSE Merge(h[s \ {AnyOf(s)}], AnyOf(s).items, AnyOf(s).by)]
  <2>2. \A s \in Level(M, n) : s \in Level(M, n + 1)
    <3>1. \A s \in SUBSET M : Cardinality(s) \in Nat
      BY FS_Subset, FS_CardinalityType
    <3> QED BY <3>1 DEF Level
  <2>3. \A s \in Level(M, n) : u[s] = h[s]
    BY <2>1, <2>2
  <2>4. \A s \in Level(M, n + 1) : s # {} => u[s \ {AnyOf(s)}] = h[s \ {AnyOf(s)}]
    BY <2>3, Levels
  <2>5. Is(u, n + 1)
    BY <2>4
  <2> HIDE DEF Is
  <2> QED BY <2>5
<1>3. Cardinality(M) \in T
  <2> HIDE DEF T
  <2> QED BY <1>1, <1>2, NumberInduction, FS_CardinalityType
<1>4. PICK h : Is(h, Cardinality(M))
  BY <1>3
<1>5. Level(M, Cardinality(M)) = SUBSET M
  BY Levels
<1> QED BY <1>4, <1>5, Zenon DEF Folds1By1

\* The steps of folding a set of batches.
FoldsAlong(g, t, M) ==
  /\ g[{}] = t
  /\ \A s \in SUBSET M : s # {} => g[s] = Merge(g[s \ {AnyOf(s)}], AnyOf(s).items, AnyOf(s).by)
LEMMA FoldUnfolds ==
  ASSUME NEW t, NEW M, IsFiniteSet(M)
  PROVE  \E g : Fold(t, M) = g[M] /\ FoldsAlong(g, t, M)
<1> DEFINE f == CHOOSE g : Folds1By1(g, t, M)
<1>1. Fold(t, M) = f[M]
  BY Zenon DEF Fold, Fs!FoldSet, Fs!MapThenFoldSet, AnyOf, Folds1By1
<1>3. Folds1By1(f, t, M)
  BY FoldingFunctionExists, Zenon
<1> HIDE DEF f
<1>4. FoldsAlong(f, t, M)
  BY <1>3 DEF Folds1By1, FoldsAlong
<1> QED BY <1>1, <1>4, Zenon

\* h[i] is the first i of the sequences ss, one after the other.
Then(s, t) == s \o t
Joins(h, ss, n) == h = [i \in 1..n |-> IF i = 1 THEN ss[i] ELSE Then(h[i - 1], ss[i])]

LEMMA JoiningFunctionExists ==
  ASSUME NEW ss, NEW n \in Nat
  PROVE  \E h : Joins(h, ss, n)
<1> DEFINE T == {m \in Nat : \E h : Joins(h, ss, m)}
<1>1. 0 \in T
  <2> DEFINE h == [i \in 1..0 |-> ss[i]]
  <2>1. Joins(h, ss, 0)
    BY DEF Joins
  <2> QED BY <2>1
<1>2. ASSUME NEW m \in Nat, m \in T PROVE m + 1 \in T
  <2>1. PICK h : Joins(h, ss, m)
    BY <1>2
  <2> DEFINE u == [i \in 1..(m + 1) |-> IF i = 1 THEN ss[i] ELSE Then(h[i - 1], ss[i])]
  <2>2. \A i \in 1..m : u[i] = h[i]
    BY <2>1 DEF Joins
  <2>3. \A i \in 1..(m + 1) : i # 1 => u[i - 1] = h[i - 1]
    <3>1. \A i \in 1..(m + 1) : i # 1 => i - 1 \in 1..m
      OBVIOUS
    <3> HIDE DEF u
    <3> QED BY <2>2, <3>1
  <2>4. Joins(u, ss, m + 1)
    BY <2>3 DEF Joins
  <2> QED BY <2>4
<1>3. n \in T
  <2> HIDE DEF T
  <2> QED BY <1>1, <1>2, NumberInduction
<1> QED BY <1>3

\* Joined sequences over a set are a sequence over it.
LEMMA FlattenType ==
  ASSUME NEW S, NEW ss \in Seq(Seq(S))
  PROVE  Sq!FlattenSeq(ss) \in Seq(S)
<1>1. CASE Len(ss) = 0
  BY <1>1 DEF Sq!FlattenSeq
<1>2. CASE Len(ss) # 0
  <2> DEFINE n == Len(ss)
             f == CHOOSE h : Joins(h, ss, n)
             T == {m \in Nat : m + 1 \in 1..n => f[m + 1] \in Seq(S)}
  <2>1. Sq!FlattenSeq(ss) = f[n]
    BY <1>2, Zenon DEF Sq!FlattenSeq, Joins, Then
  <2>2. n \in Nat \ {0}
    BY <1>2
  <2>3. Joins(f, ss, n)
    BY <2>2, JoiningFunctionExists, Zenon
  <2> HIDE DEF f
  <2>4. \A i \in 1..n : f[i] = IF i = 1 THEN ss[i] ELSE Then(f[i - 1], ss[i])
    BY <2>3 DEF Joins
  <2>5. 0 \in T
    BY <2>4, <2>2
  <2>6. ASSUME NEW m \in Nat, m \in T PROVE m + 1 \in T
    <3> SUFFICES ASSUME m + 2 \in 1..n PROVE f[m + 2] \in Seq(S)
      BY <2>6
    <3>1. f[m + 2] = Then(f[m + 1], ss[m + 2])
      BY <2>4
    <3>2. f[m + 1] \in Seq(S) /\ ss[m + 2] \in Seq(S)
      BY <2>6
    <3> QED BY <3>1, <3>2 DEF Then
  <2>7. n - 1 \in T
    <3>1. n - 1 \in Nat
      BY <2>2
    <3> HIDE DEF T
    <3> QED BY <3>1, <2>5, <2>6, NumberInduction
  <2> QED BY <2>1, <2>2, <2>7
<1> QED BY <1>1, <1>2

-----------------------------------------------------------------------------
(* Records, operations and engines.                                        *)

AnAnchor(i) == i = NewAnchor(i.id, i.type, i.by, i.at) /\ i.id \in AnchorId
\* The claims whose values name the ids they are about; any id is an anchor's.
Naming == {"same_as", "different_from", "reattribute_to"}
ValueOK(predicate, value) ==
  /\ predicate \in {"same_as", "different_from"} /\ "pair" \in DOMAIN value
        => value.pair[1] \in AnchorId /\ value.pair[2] \in AnchorId
  /\ predicate = "reattribute_to" /\ "personId" \in DOMAIN value => value.personId \in AnchorId
LEMMA PlainValues == \A predicate : predicate \notin Naming => \A value : ValueOK(predicate, value)
  BY DEF Naming, ValueOK

AClaim(i) == i = NewClaim(i.target, i.predicate, i.value, i.by, i.at) /\ ValueOK(i.predicate, i.value)
AnOp(i) ==
  \/ i = NewRemove(i.target, i.by, i.at)
  \/ i = NewSupersede(i.prior, i.replacement, i.by, i.at) /\ AClaim(i.replacement)
  \/ i = NewRevoke(i.removal, i.by, i.at)
ARecord(i) == AnAnchor(i) \/ AClaim(i)
AnItem(i) == ARecord(i) \/ AnOp(i)

\* What the kinds tell apart.
LEMMA Kinds ==
  /\ \A i : AnAnchor(i) => i.kind = "anchor" /\ ~IsOp(i) /\ ~IsClaim(i) /\ IdOf(i) = i.id
  /\ \A i : AClaim(i) => i.kind = "claim" /\ ~IsOp(i) /\ IsClaim(i) /\ IdOf(i) = i
  /\ \A i : AnOp(i) => i.kind # "anchor" /\ i.kind # "claim" /\ IsOp(i) /\ IdOf(i) = i
<1>1. \A i : AnAnchor(i) => i.kind = "anchor"
  BY DEF AnAnchor, NewAnchor
<1>2. \A i : AClaim(i) => i.kind = "claim"
  BY DEF AClaim, NewClaim
<1>3. \A i : AnOp(i) => i.kind \in {"remove", "supersede", "revoke"}
  BY DEF AnOp, NewRemove, NewSupersede, NewRevoke
<1> QED BY <1>1, <1>2, <1>3 DEF IsOp, IdOf, IsClaim

\* Claims and operations are no anchor's id.
LEMMA ItemIsNoId == ASSUME NEW i, AnItem(i) PROVE i \notin AnchorId
<1>1. "kind" \in DOMAIN i
  BY DEF AnItem, ARecord, AnAnchor, AClaim, AnOp, NewAnchor, NewClaim, NewRemove, NewSupersede,
         NewRevoke
<1>2. \A x \in AnchorId : DOMAIN x = {"n"}
  BY DEF AnchorId
<1> QED BY <1>1, <1>2

\* An engine of an author: its records are well shaped, and finitely many.
Fields == {"author", "items", "committers", "moderators", "pending", "clock"}
Items(S) == IsFiniteSet(S) /\ \A i \in S : AnItem(i)
Engine(t, author) ==
  /\ DOMAIN t = Fields /\ t.author = author
  /\ Items(t.items) /\ Items(t.pending)

LEMMA EmitIs ==
  ASSUME NEW t, DOMAIN t = Fields, NEW new, NEW at
  PROVE  LET u == Emit(t, new, at)
         IN  /\ DOMAIN u = Fields /\ u.author = t.author /\ u.moderators = t.moderators
             /\ u.items = Insert(t.items, new) /\ u.pending = t.pending \cup new
             /\ u.committers = t.committers \cup Committed(new, t.author)
             /\ u.clock = at
  BY DEF Emit, Fields
LEMMA MergeIs ==
  ASSUME NEW t, DOMAIN t = Fields, NEW batch, NEW by
  PROVE  LET u == Merge(t, batch, by)
         IN  /\ DOMAIN u = Fields /\ u.author = t.author /\ u.moderators = t.moderators
             /\ u.items = Insert(t.items, batch) /\ u.pending = t.pending
             /\ u.committers = t.committers \cup Committed(batch, by)
             /\ u.clock = Observed(t.clock, batch)
  BY DEF Merge, Fields
LEMMA LoadIs ==
  ASSUME NEW t, DOMAIN t = Fields, NEW batch
  PROVE  LET u == LoadSnapshot(t, batch)
         IN  /\ DOMAIN u = Fields /\ u.author = t.author /\ u.moderators = t.moderators
             /\ u.items = Insert(t.items, batch) /\ u.pending = t.pending
             /\ u.committers = t.committers /\ u.clock = Observed(t.clock, batch)
  BY DEF LoadSnapshot, Fields
LEMMA FlushIs ==
  ASSUME NEW t, DOMAIN t = Fields, NEW dids
  PROVE  LET u == Flushed(t)
             v == SetModerators(t, dids)
         IN  /\ DOMAIN u = Fields /\ u.author = t.author /\ u.moderators = t.moderators
             /\ u.items = t.items /\ u.pending = {} /\ u.committers = t.committers
             /\ u.clock = t.clock
             /\ DOMAIN v = Fields /\ v.author = t.author /\ v.moderators = dids
             /\ v.items = t.items /\ v.pending = t.pending /\ v.committers = t.committers
             /\ v.clock = t.clock
  BY DEF Flushed, SetModerators, Fields
LEMMA NewTreeIs ==
  ASSUME NEW author
  PROVE  LET t == NewTree(author)
         IN  /\ DOMAIN t = Fields /\ t.author = author /\ t.moderators = {author}
             /\ t.items = {} /\ t.pending = {} /\ t.committers = {} /\ t.clock = <<0, 0>>
  BY DEF NewTree, Fields

-----------------------------------------------------------------------------
(* What a mint leaves alive.                                               *)

\* What an author may take away: an anchor, or a claim of its own.
Own(x, author) == x \in AnchorId \/ (AClaim(x) /\ x.by = author)
SparesPeers(i, author) ==
  /\ i.kind = "remove" => Own(i.target, author)
  /\ i.kind = "supersede" => Own(i.prior, author)
\* Every claim of another author that is live in t is live in u.
Spares(t, u, author) ==
  \A c \in Live(t) : IsClaim(c) /\ c.by # author => c \in Live(u)

\* Inserting replaces nothing but anchors: every other id is its item's own.
LEMMA InsertItems ==
  ASSUME NEW S, NEW new, Items(S), Items(new)
  PROVE  /\ Items(Insert(S, new))
         /\ new \subseteq Insert(S, new)
         /\ Insert(S, new) \subseteq S \cup new
         /\ \A i \in S : ~AnAnchor(i) => i \in Insert(S, new)
<1>1. Insert(S, new) \subseteq S \cup new /\ new \subseteq Insert(S, new)
  BY DEF Insert
<1>2. IsFiniteSet(Insert(S, new))
  BY <1>1, FS_Union, FS_Subset DEF Items
<1>3. ASSUME NEW i \in S, ~AnAnchor(i), i \notin Insert(S, new) PROVE FALSE
  <2>1. PICK n \in new : IdOf(n) = IdOf(i)
    BY <1>3 DEF Insert
  <2>2. AnItem(n) /\ AnItem(i) /\ IdOf(i) = i
    BY <1>3, Kinds DEF Items, AnItem, ARecord
  <2>3. CASE AnAnchor(n)
    BY <2>1, <2>2, <2>3, Kinds, ItemIsNoId DEF AnAnchor
  <2>4. CASE ~AnAnchor(n)
    BY <2>1, <2>2, <2>4, <1>1, <1>3, Kinds DEF AnItem, ARecord
  <2> QED BY <2>3, <2>4
<1> QED BY <1>1, <1>2, <1>3 DEF Items

\* Live claims are claims.
LEMMA LiveIsARecord ==
  ASSUME NEW t, Items(t.items)
  PROVE  /\ \A c \in Live(t) : ARecord(c)
         /\ Live(t) \subseteq Asserted(t.items)
<1>1. Live(t) \subseteq Asserted(t.items)
  BY DEF Live, Materialize
<1>2. ASSUME NEW c \in Asserted(t.items) PROVE ARecord(c)
  <2>1. CASE c \in t.items /\ ~IsOp(c)
    BY <2>1, Kinds DEF Items, AnItem
  <2>2. CASE \E i \in t.items : i.kind = "supersede" /\ c = i.replacement
    <3>1. PICK i \in t.items : i.kind = "supersede" /\ c = i.replacement
      BY <2>2
    <3>2. AnOp(i)
      BY <3>1, Kinds DEF Items, AnItem, ARecord
    <3>3. i.kind = "supersede" => AClaim(i.replacement)
      BY <3>2 DEF AnOp, NewRemove, NewRevoke
    <3> QED BY <3>1, <3>3 DEF ARecord
  <2> QED BY <2>1, <2>2 DEF Asserted
<1> QED BY <1>1, <1>2

Acting(t) == {i \in t.items : IsOp(i) /\ Authorized(i, t.committers, t.moderators)}

\* What is emitted adds to the dead only what its removals and replacements name.
LEMMA EmitSpares ==
  ASSUME NEW author, NEW t, Engine(t, author), NEW new, Items(new), NEW at,
         \A i \in new : SparesPeers(i, author)
  PROVE  Engine(Emit(t, new, at), author) /\ Spares(t, Emit(t, new, at), author)
<1> DEFINE u == Emit(t, new, at)
<1>1. /\ DOMAIN u = Fields /\ u.author = author /\ u.moderators = t.moderators
      /\ u.items = Insert(t.items, new) /\ u.pending = t.pending \cup new
      /\ u.committers = t.committers \cup Committed(new, author)
  BY EmitIs DEF Engine
<1> HIDE DEF u
<1>2. Engine(u, author)
  <2>1. Items(t.pending \cup new)
    BY FS_Union DEF Engine, Items
  <2> QED BY <1>1, <2>1, InsertItems DEF Engine
<1>3. ASSUME NEW c \in Live(t), IsClaim(c), c.by # author PROVE c \in Live(u)
  <2>1. AClaim(c) /\ c \in Asserted(t.items) /\ IdOf(c) = c /\ ~IsOp(c) /\ ~AnAnchor(c)
    BY <1>3, LiveIsARecord, Kinds DEF Engine, ARecord
  <2>2. \A i \in t.items : ~AnAnchor(i) => i \in u.items
    BY <1>1, InsertItems DEF Engine
  <2>3. c \in Asserted(u.items)
    <3>1. CASE c \in t.items
      BY <2>1, <2>2, <3>1 DEF Asserted
    <3>2. CASE \E i \in t.items : i.kind = "supersede" /\ i.by = i.replacement.by /\ c = i.replacement
      BY <2>2, <3>2, Kinds DEF Asserted
    <3> QED BY <2>1, <3>1, <3>2 DEF Asserted
  <2>4. c \notin Dead(Acting(t))
    BY <2>1 DEF Live, Materialize, Acting
  <2>5. \A i \in Acting(t) : i \in Acting(u)
    BY <1>1, <2>2, Kinds DEF Acting, Authorized
  <2>6. ASSUME NEW i \in Acting(u), i \notin Acting(t) PROVE i \in new
    <3>1. i \in t.items \cup new
      BY <1>1, <2>6, InsertItems DEF Engine, Acting
    <3>2. CASE i \in t.items
      BY <1>1, <2>6, <3>2 DEF Acting, Authorized, Committed
    <3> QED BY <3>1, <3>2
  <2>7. \A i \in new : ~(i.kind = "remove" /\ i.target = c) /\ ~(i.kind = "supersede" /\ i.prior = c)
    <3>1. ~Own(c, author)
      BY <2>1, <1>3, ItemIsNoId DEF Own, AnItem, ARecord
    <3> QED BY <3>1 DEF SparesPeers
  <2>8. c \notin Dead(Acting(u))
    BY <2>4, <2>5, <2>6, <2>7 DEF Dead, Revoked
  <2> QED BY <2>1, <2>3, <2>8 DEF Live, Materialize, Acting
<1> QED BY <1>2, <1>3 DEF Spares, u

\* A mint of an author.
MintOK(m, author) ==
  \/ m.do = "anchor" /\ m.id \in AnchorId
  \/ m.do = "revive"
  \/ m.do = "assert" /\ ValueOK(m.predicate, m.value)
  \/ m.do = "edit" /\ Own(m.prior, author) /\ ValueOK(m.predicate, m.value)
  \/ m.do = "drop" /\ Own(m.id, author)

LEMMA NewItems ==
  /\ \A id \in AnchorId : \A type, by, at :
        LET i == NewAnchor(id, type, by, at) IN AnItem(i) /\ \A a : SparesPeers(i, a)
  /\ \A target, predicate, value, by, at : ValueOK(predicate, value) =>
        LET i == NewClaim(target, predicate, value, by, at)
        IN  AClaim(i) /\ AnItem(i) /\ \A a : SparesPeers(i, a)
  /\ \A removal, by, at :
        LET i == NewRevoke(removal, by, at) IN AnItem(i) /\ \A a : SparesPeers(i, a)
  /\ \A target, by, at :
        LET i == NewRemove(target, by, at)
        IN  AnItem(i) /\ \A a : Own(target, a) => SparesPeers(i, a)
  /\ \A prior, by, at : \A c : AClaim(c) =>
        LET i == NewSupersede(prior, c, by, at)
        IN  AnItem(i) /\ \A a : Own(prior, a) => SparesPeers(i, a)
<1>1. \A id \in AnchorId : \A type, by, at :
        LET i == NewAnchor(id, type, by, at) IN AnAnchor(i) /\ \A a : SparesPeers(i, a)
  BY DEF AnAnchor, NewAnchor, SparesPeers
<1>2. \A target, predicate, value, by, at : ValueOK(predicate, value) =>
        LET i == NewClaim(target, predicate, value, by, at)
        IN  AClaim(i) /\ \A a : SparesPeers(i, a)
  BY DEF AClaim, NewClaim, SparesPeers
<1>3. \A removal, by, at :
        LET i == NewRevoke(removal, by, at) IN AnOp(i) /\ \A a : SparesPeers(i, a)
  BY DEF AnOp, NewRevoke, SparesPeers
<1>4. \A target, by, at :
        LET i == NewRemove(target, by, at)
        IN  AnOp(i) /\ \A a : Own(target, a) => SparesPeers(i, a)
  BY DEF AnOp, NewRemove, SparesPeers
<1>5. \A prior, by, at : \A c : AClaim(c) =>
        LET i == NewSupersede(prior, c, by, at)
        IN  AnOp(i) /\ \A a : Own(prior, a) => SparesPeers(i, a)
  BY DEF AnOp, NewSupersede, SparesPeers
<1> QED BY <1>1, <1>2, <1>3, <1>4, <1>5 DEF AnItem, ARecord

\* One mint leaves the engine well shaped and every peer's claim alive.
LEMMA MintedSpares ==
  ASSUME NEW author, NEW t, Engine(t, author), NEW m, MintOK(m, author)
  PROVE  Engine(Minted(t, m), author) /\ Spares(t, Minted(t, m), author)
<1> DEFINE at == ClockNext(t.clock, now)
           Good(new) == Items(new) /\ \A i \in new : SparesPeers(i, author)
<1>1. \A new : Good(new) => /\ Engine(Emit(t, new, at), author)
                            /\ Spares(t, Emit(t, new, at), author)
  BY EmitSpares
<1>2. \A i : AnItem(i) /\ SparesPeers(i, author) => Good({i})
  BY FS_Singleton DEF Items
<1>3. \A i, j : Good({i}) /\ Good({j}) => Good({i, j})
  <2> QED BY TwoAreFinite DEF Items
<1> HIDE DEF at, Good
<1>4. CASE m.do = "anchor"
  <2>1. Minted(t, m) = AssertAnchor(t, m.id, m.type, at)
    BY <1>4 DEF Minted, at
  <2>2. m.id \in AnchorId /\ \A v : ValueOK("existence", v)
    BY <1>4, PlainValues DEF MintOK, Naming
  <2> QED BY <1>1, <1>2, <1>3, <2>1, <2>2, NewItems DEF AssertAnchor
<1>5. CASE m.do = "assert"
  <2>1. Minted(t, m) = AssertClaim(t, m.target, m.predicate, m.value, at)
    BY <1>5 DEF Minted, at
  <2>2. ValueOK(m.predicate, m.value)
    BY <1>5 DEF MintOK
  <2> QED BY <1>1, <1>2, <2>1, <2>2, NewItems DEF AssertClaim
<1>6. CASE m.do = "revive"
  <2>1. Minted(t, m) = Revoke(t, m.op, at)
    BY <1>6 DEF Minted, at
  <2> QED BY <1>1, <1>2, <2>1, NewItems DEF Revoke
<1>7. CASE m.do = "edit"
  <2>1. Minted(t, m) = SupersedeClaim(t, m.prior, m.target, m.predicate, m.value, at)
    BY <1>7 DEF Minted, at
  <2>2. Own(m.prior, author) /\ ValueOK(m.predicate, m.value)
    BY <1>7 DEF MintOK
  <2> QED BY <1>1, <1>2, <2>1, <2>2, NewItems DEF SupersedeClaim
<1>8. CASE m.do = "drop"
  <2>1. Minted(t, m) = Remove(t, m.id, at)
    BY <1>8 DEF Minted, at
  <2>2. Own(m.id, author)
    BY <1>8 DEF MintOK
  <2> QED BY <1>1, <1>2, <2>1, <2>2, NewItems DEF Remove
<1> QED BY <1>4, <1>5, <1>6, <1>7, <1>8 DEF MintOK

MintsOK(M, author) == IsFiniteSet(M) /\ \A m \in M : MintOK(m, author)

\* So do all the mints of a call.
LEMMA AfterSpares ==
  ASSUME NEW author, NEW t, Engine(t, author), NEW M, MintsOK(M, author)
  PROVE  Engine(After(t, M), author) /\ Spares(t, After(t, M), author)
<1>0. IsFiniteSet(M)
  BY DEF MintsOK
<1>1. PICK g : After(t, M) = g[M] /\ MintsAlong(g, t, M)
  BY <1>0, AfterUnfolds, Zenon
<1> DEFINE T == {s \in SUBSET M : Engine(g[s], author) /\ Spares(t, g[s], author)}
<1>2. ASSUME NEW s \in SUBSET M, \A u \in SUBSET s : u # s => u \in T PROVE s \in T
  <2>1. CASE s = {}
    BY <1>1, <2>1 DEF Spares, MintsAlong
  <2>2. CASE s # {}
    <3> DEFINE u == s \ {AnyOf(s)}
    <3>1. u \in T /\ AnyOf(s) \in M
      BY <1>2, <2>2, AnyIsIn
    <3>2. g[s] = Minted(g[u], AnyOf(s))
      BY <1>1, <2>2 DEF MintsAlong
    <3>3. Engine(g[s], author) /\ Spares(g[u], g[s], author)
      BY <3>1, <3>2, MintedSpares DEF MintsOK
    <3> QED BY <3>1, <3>3 DEF Spares
  <2> QED BY <2>1, <2>2
<1>3. M \in T
  <2> HIDE DEF T
  <2>1. \A s \in SUBSET M : (\A u \in SUBSET s : u # s => u \in T) => s \in T
    BY <1>2
  <2> QED BY <2>1, FiniteInduction, Zenon DEF MintsOK
<1> QED BY <1>1, <1>3

-----------------------------------------------------------------------------
(* What merging, opening and the rest leave of an engine.                  *)

Batches(B) == IsFiniteSet(B) /\ \A b \in B : Items(b.items)

LEMMA MergeEngine ==
  ASSUME NEW author, NEW t, Engine(t, author), NEW batch, Items(batch), NEW by
  PROVE  Engine(Merge(t, batch, by), author) /\ Engine(LoadSnapshot(t, batch), author)
  BY MergeIs, LoadIs, InsertItems DEF Engine

LEMMA FlushEngine ==
  ASSUME NEW author, NEW t, Engine(t, author), NEW dids
  PROVE  /\ Engine(Flushed(t), author) /\ Live(Flushed(t)) = Live(t)
         /\ Engine(SetModerators(t, dids), author)
<1>1. Items({})
  BY FS_EmptySet DEF Items
<1> QED BY <1>1, FlushIs DEF Engine, Live

LEMMA NewEngine == \A author, dids : Engine(SetModerators(NewTree(author), dids), author)
<1>1. Items({})
  BY FS_EmptySet DEF Items
<1>2. ASSUME NEW author PROVE Engine(NewTree(author), author)
  BY <1>1, NewTreeIs DEF Engine
<1> QED BY <1>2, FlushEngine

\* Folding batches leaves an engine well shaped, and what it has pending.
LEMMA FoldEngine ==
  ASSUME NEW author, NEW t, Engine(t, author), NEW B, Batches(B)
  PROVE  Engine(Fold(t, B), author) /\ Fold(t, B).pending = t.pending
<1>0. IsFiniteSet(B)
  BY DEF Batches
<1>1. PICK g : Fold(t, B) = g[B] /\ FoldsAlong(g, t, B)
  BY <1>0, FoldUnfolds, Zenon
<1> DEFINE T == {s \in SUBSET B : Engine(g[s], author) /\ g[s].pending = t.pending}
<1>2. ASSUME NEW s \in SUBSET B, \A u \in SUBSET s : u # s => u \in T PROVE s \in T
  <2>1. CASE s = {}
    BY <1>1, <2>1 DEF FoldsAlong
  <2>2. CASE s # {}
    <3> DEFINE u == s \ {AnyOf(s)}
    <3>1. u \in T /\ AnyOf(s) \in B
      BY <1>2, <2>2, AnyIsIn
    <3>2. g[s] = Merge(g[u], AnyOf(s).items, AnyOf(s).by)
      BY <1>1, <2>2 DEF FoldsAlong
    <3>3. Engine(g[s \ {AnyOf(s)}], author) /\ Items(AnyOf(s).items)
      BY <3>1 DEF Batches
    <3>4. g[s].pending = g[s \ {AnyOf(s)}].pending
      BY <3>2, <3>3, MergeIs DEF Engine
    <3>5. Engine(g[s], author)
      BY <3>2, <3>3, MergeEngine
    <3> QED BY <3>1, <3>4, <3>5
  <2> QED BY <2>1, <2>2
<1>3. B \in T
  <2> HIDE DEF T
  <2>1. \A s \in SUBSET B : (\A u \in SUBSET s : u # s => u \in T) => s \in T
    BY <1>2
  <2> QED BY <1>0, <2>1, FiniteInduction, Zenon
<1> QED BY <1>1, <1>3

LEMMA OpenedEngine ==
  ASSUME NEW author, NEW dids, NEW s, Items(s.live), NEW B, Batches(B)
  PROVE  /\ Engine(Opened(author, dids, s, B), author)
         /\ Opened(author, dids, s, B).pending = {}
<1> DEFINE t == SetModerators(NewTree(author), dids)
           u == LoadSnapshot(t, s.live)
<1>1. Batches(B \ s.covers)
  BY FS_Difference DEF Batches
<1>2. Engine(t, author) /\ t.pending = {}
  BY NewEngine, NewTreeIs, FlushIs
<1>3. Engine(u, author) /\ u.pending = {}
  <2> HIDE DEF t
  <2> QED BY <1>2, MergeEngine, LoadIs DEF Engine
<1>4. Opened(author, dids, s, B) = Fold(u, B \ s.covers)
  BY DEF Opened
<1> HIDE DEF u
<1> QED BY <1>1, <1>3, <1>4, FoldEngine

\* What a device shows and publishes is records, finitely many.
LEMMA LiveItems ==
  ASSUME NEW author, NEW t, Engine(t, author)
  PROVE  Items(Live(t)) /\ \A r \in Live(t) : ARecord(r)
<1>1. IsFiniteSet(Asserted(t.items))
  <2> DEFINE S == {x \in t.items : x.kind = "supersede" /\ x.by = x.replacement.by}
             f == [i \in S |-> i.replacement]
  <2>1. IsFiniteSet(S) /\ IsFiniteSet({i \in t.items : ~IsOp(i)})
    BY FS_Subset DEF Engine, Items
  <2>2. \A y \in {i.replacement : i \in S} : \E x \in S : y = f[x]
    OBVIOUS
  <2>3. IsFiniteSet({i.replacement : i \in S})
    <3> HIDE DEF S, f
    <3> QED BY <2>1, <2>2, ImageIsFinite, Zenon
  <2> QED BY <2>1, <2>3, FS_Union DEF Asserted
<1> QED BY <1>1, LiveIsARecord, FS_Subset DEF Engine, Items, AnItem

-----------------------------------------------------------------------------
(* What a call mints.                                                      *)

Records(S) == IsFiniteSet(S) /\ \A r \in S : ARecord(r)
CallOK(k, author) ==
  \/ k.do \in {"name", "custom", "place", "forget", "unparent", "unpair", "leave", "portrait"}
  \/ k.do \in {"assert", "set"} /\ k.predicate \notin Naming
  \/ k.do = "anchor" /\ k.id \in AnchorId
  \/ k.do = "drop" /\ Own(k.id, author)
  \/ k.do = "edit" /\ Own(k.prior, author) /\ k.predicate \notin Naming
  \/ k.do = "takeBack" /\ IsFiniteSet(k.ids) /\ \A i \in k.ids : Own(i, author)
  \/ k.do = "bringBack" /\ Records(k.records)

\* Finitely many things that an author may take away.
OwnSet(S, author) == IsFiniteSet(S) /\ \A x \in S : Own(x, author)

LEMMA MineIsOwn ==
  ASSUME NEW author, NEW L, Items(L), NEW S, S \subseteq {c \in Mine(L, author) : IsClaim(c)}
  PROVE  OwnSet(S, author)
<1>1. S \subseteq L
  BY DEF Mine
<1>2. IsFiniteSet(S)
  BY <1>1, FS_Subset DEF Items
<1>3. \A c \in S : AClaim(c) /\ c.by = author
  BY <1>1, Kinds DEF Mine, Items, AnItem, ARecord, IsClaim
<1> QED BY <1>2, <1>3 DEF OwnSet, Own

LEMMA DropsOK ==
  ASSUME NEW author, NEW S, OwnSet(S, author)
  PROVE  MintsOK(Drops(S), author)
<1> DEFINE f == [i \in S |-> [do |-> "drop", id |-> i]]
<1>1. \A m \in Drops(S) : \E i \in S : m = f[i]
  BY DEF Drops
<1>2. IsFiniteSet(Drops(S))
  <2>1. IsFiniteSet(S)
    BY DEF OwnSet
  <2> HIDE DEF f
  <2> QED BY <1>1, <2>1, ImageIsFinite, Zenon
<1>3. \A m \in Drops(S) : m.do = "drop" /\ Own(m.id, author)
  BY DEF Drops, OwnSet
<1> QED BY <1>2, <1>3 DEF MintsOK, MintOK

LEMMA ReplaceOK ==
  ASSUME NEW author, NEW S, OwnSet(S, author), NEW target, NEW predicate, predicate \notin Naming,
         NEW value
  PROVE  MintsOK(Replace(S, target, predicate, value), author)
<1>1. PICK m : Replace(S, target, predicate, value) = {m}
  BY DEF Replace
<1>2. MintOK(m, author)
  <2>1. CASE S = {}
    <3>1. m \in Replace(S, target, predicate, value)
      BY <1>1
    <3>2. m.do = "assert" /\ m.predicate = predicate /\ m.value = value
      BY <2>1, <3>1 DEF Replace
    <3> QED BY <3>2, PlainValues DEF MintOK
  <2>2. CASE S # {}
    <3>1. m \in Replace(S, target, predicate, value)
      BY <1>1
    <3>2. m.do = "edit" /\ m.prior = (CHOOSE c \in S : TRUE) /\ m.predicate = predicate
      BY <2>2, <3>1 DEF Replace
    <3>3. (CHOOSE c \in S : TRUE) \in S
      BY <2>2
    <3> QED BY <3>2, <3>3, PlainValues DEF MintOK, OwnSet
  <2> QED BY <2>1, <2>2
<1> QED BY <1>1, <1>2, FS_Singleton DEF MintsOK

LEMMA PortraitOK ==
  ASSUME NEW author, NEW S, OwnSet(S, author), NEW subject, NEW link
  PROVE  MintsOK(Portrait(S, subject, link), author)
<1> DEFINE f == [c \in S |->
      [do |-> "edit", prior |-> c, target |-> subject, predicate |-> "media_link",
       value |-> [c.value EXCEPT !.role = IF c = link THEN "portrait" ELSE "document"]]]
<1>1. \A m \in Portrait(S, subject, link) : \E c \in S : m = f[c]
  BY Zenon DEF Portrait
<1>2. IsFiniteSet(Portrait(S, subject, link))
  <2>1. IsFiniteSet(S)
    BY DEF OwnSet
  <2> HIDE DEF f
  <2> QED BY <1>1, <2>1, ImageIsFinite, Zenon
<1>3. \A c \in S : f[c].do = "edit" /\ f[c].prior = c /\ f[c].predicate = "media_link"
  BY Zenon
<1>4. \A m \in Portrait(S, subject, link) :
         m.do = "edit" /\ Own(m.prior, author) /\ ValueOK(m.predicate, m.value)
  <2> HIDE DEF f
  <2> QED BY <1>1, <1>3, PlainValues DEF OwnSet, Naming
<1> QED BY <1>2, <1>4 DEF MintsOK, MintOK

\* Whatever a call finds alive, it mints only what its author may.
LEMMA MintsOfCall ==
  ASSUME NEW author, NEW L, Items(L), NEW k, CallOK(k, author), NEW removals, ~Throws(k, removals)
  PROVE  MintsOK(Mints(k, L, author, removals), author)
<1> DEFINE M == Mints(k, L, author, removals)
           Of(target, predicate) == LiveMine(L, author, target, predicate)
           Some(S) == S \subseteq {c \in Mine(L, author) : IsClaim(c)}
<1>1. \A target, predicate : Some(Of(target, predicate))
  BY DEF LiveMine
<1>2. \A S : Some(S) => OwnSet(S, author)
  BY MineIsOwn
<1>3. \A S : OwnSet(S, author) => MintsOK(Drops(S), author)
  BY DropsOK
<1>4. \A S, target, predicate, value :
         OwnSet(S, author) /\ predicate \notin Naming
            => MintsOK(Replace(S, target, predicate, value), author)
  BY ReplaceOK
<1>5. \A target, predicate, S : S \subseteq Of(target, predicate) => OwnSet(S, author)
  <2> HIDE DEF Of
  <2> QED BY <1>1, <1>2
<1> HIDE DEF Of, Some
<1>6. CASE k.do \in {"anchor", "assert", "drop", "edit"}
  <2>1. M = {k}
    BY <1>6 DEF Mints
  <2>2. MintOK(k, author)
    BY <1>6, PlainValues DEF CallOK, MintOK
  <2> QED BY <2>1, <2>2, FS_Singleton DEF MintsOK
<1>7. CASE k.do = "set"
  <2>1. \/ M = Drops(Of(k.target, k.predicate))
        \/ M = Replace(Of(k.target, k.predicate), k.target, k.predicate, k.value)
    BY <1>7 DEF Mints, Of
  <2>2. k.predicate \notin Naming
    BY <1>7 DEF CallOK
  <2> QED BY <2>1, <2>2, <1>3, <1>4, <1>5
<1>8. CASE k.do = "name"
  <2>1. PICK value : M = Replace(Of(k.target, "name"), k.target, "name", value)
    BY <1>8 DEF Mints, Of
  <2> QED BY <2>1, <1>4, <1>5 DEF Naming
<1>9. CASE k.do = "custom"
  <2> DEFINE mine == {c \in Of(k.target, "custom_value") : c.value.fieldId = k.field}
  <2>1. PICK value : \/ M = Drops(mine)
                     \/ M = Replace(mine, k.target, "custom_value", value)
    BY <1>9 DEF Mints, Of
  <2>2. OwnSet(mine, author)
    BY <1>5
  <2> HIDE DEF mine
  <2> QED BY <2>1, <2>2, <1>3, <1>4 DEF Naming
<1>10. CASE k.do = "place"
  <2>1. PICK place, value : \/ M = {}
                            \/ M = Replace({}, place, "place_name", value)
    BY <1>10 DEF Mints, Of
  <2>2. OwnSet({}, author) /\ MintsOK({}, author)
    BY FS_EmptySet DEF OwnSet, MintsOK
  <2> QED BY <2>1, <2>2, <1>4 DEF Naming
<1>11. CASE k.do = "forget"
  <2> DEFINE S == {c \in Mine(L, author) : IsClaim(c) /\ c.target \in k.ids}
  <2>1. M = Drops(S)
    BY <1>11 DEF Mints
  <2>2. Some(S)
    BY DEF Some
  <2> HIDE DEF S
  <2> QED BY <2>1, <2>2, <1>2, <1>3
<1>12. CASE k.do = "unparent"
  <2> DEFINE S == UNION {{c \in Of(x, "parent") : c.value.parentPersonId \in k.parents} :
                           x \in k.children}
  <2>1. M = Drops(S)
    BY <1>12 DEF Mints, Of
  <2>2. Some(S)
    BY <1>1 DEF Some
  <2> HIDE DEF S
  <2> QED BY <2>1, <2>2, <1>2, <1>3
<1>13. CASE k.do = "unpair"
  <2> DEFINE S == UNION {{c \in Of(p, "partnership") : PairOf(c) = k.couple} : p \in k.couple}
  <2>1. M = Drops(S)
    BY <1>13 DEF Mints, Of
  <2>2. Some(S)
    BY <1>1 DEF Some
  <2> HIDE DEF S
  <2> QED BY <2>1, <2>2, <1>2, <1>3
<1>14. CASE k.do = "leave"
  <2> DEFINE S == {c \in Of(k.spouse, "partnership") : k.spouse \in PairOf(c)}
  <2>1. M = Drops(S)
    BY <1>14 DEF Mints, Of
  <2>2. OwnSet(S, author)
    BY <1>5
  <2> HIDE DEF S
  <2> QED BY <2>1, <2>2, <1>3
<1>15. CASE k.do = "portrait"
  <2>1. M = Portrait(Of(k.target, "media_link"), k.target, k.link)
    BY <1>15 DEF Mints, Of
  <2> QED BY <2>1, <1>5, PortraitOK
<1>16. CASE k.do = "takeBack"
  <2>1. M = Drops(k.ids)
    BY <1>16 DEF Mints
  <2>2. OwnSet(k.ids, author)
    BY <1>16 DEF CallOK, OwnSet
  <2> QED BY <2>1, <2>2, <1>3
<1>17. CASE k.do = "bringBack"
  <2> DEFINE f == [r \in k.records |-> Revive(r, removals)]
  <2>1. \A m \in M : \E r \in k.records : m = f[r]
    BY <1>17 DEF Mints
  <2>2. IsFiniteSet(k.records) /\ \A r \in k.records : ARecord(r)
    BY <1>17 DEF CallOK, Records
  <2>3. IsFiniteSet(M)
    <3> HIDE DEF f, M
    <3> QED BY <2>1, <2>2, ImageIsFinite, Zenon
  <2>4. ASSUME NEW r \in k.records PROVE MintOK(Revive(r, removals), author)
    <3>1. CASE IdOf(r) \in DOMAIN removals
      BY <3>1 DEF Revive, MintOK
    <3>2. CASE IdOf(r) \notin DOMAIN removals
      <4>1. ~AnAnchor(r)
        BY <1>17, <3>2, Kinds DEF Throws, AnAnchor
      <4>2. AClaim(r)
        BY <2>2, <4>1 DEF ARecord
      <4> DEFINE m == Revive(r, removals)
      <4>3. m.do = "assert" /\ m.predicate = r.predicate /\ m.value = r.value
        BY <3>2 DEF Revive
      <4> HIDE DEF m
      <4>4. MintOK(m, author)
        BY <4>2, <4>3 DEF AClaim, MintOK
      <4> QED BY <4>4 DEF m
    <3> QED BY <3>1, <3>2
  <2>5. \A m \in M : MintOK(m, author)
    <3>1. \A r \in k.records : MintOK(f[r], author)
      BY <2>4
    <3> HIDE DEF f, M
    <3> QED BY <2>1, <3>1
  <2> QED BY <2>3, <2>5 DEF MintsOK
<1> QED BY <1>6, <1>7, <1>8, <1>9, <1>10, <1>11, <1>12, <1>13, <1>14, <1>15, <1>16, <1>17 DEF CallOK

-----------------------------------------------------------------------------
(* The view: what an operation takes from it.                              *)

ViewOK(V) ==
  /\ \A e \in V.events : e.id \in AnchorId
  /\ \A u \in V.unions : /\ IsFiniteSet(u.parents) /\ IsFiniteSet(u.children)
                         /\ u.marriage = None \/ u.marriage \in AnchorId

LEMMA LeastIsIn ==
  ASSUME NEW S, S \subseteq AnchorId, S # {}
  PROVE  Least(S) \in S /\ \A y \in S : Least(S).n <= y.n
<1>1. \E x \in S : \A y \in S : x.n <= y.n
  <2> SUFFICES ASSUME \A x \in S : \E y \in S : ~(x.n <= y.n) PROVE FALSE
    OBVIOUS
  <2>1. \A x \in S : x.n \in Nat
    BY DEF AnchorId
  <2> DEFINE T == {n \in Nat : \A x \in S : n <= x.n}
  <2>2. 0 \in T
    BY <2>1
  <2>3. \A n \in Nat : n \in T => n + 1 \in T
    BY <2>1
  <2>4. PICK x \in S : TRUE
    OBVIOUS
  <2>5. x.n + 1 \in T
    <3>1. x.n + 1 \in Nat
      BY <2>1
    <3> HIDE DEF T
    <3> QED BY <2>2, <2>3, <3>1, NumberInduction
  <2> QED BY <2>1, <2>5
<1> QED BY <1>1 DEF Least

LEMMA EventsHaveIds ==
  ASSUME NEW L, \A r \in L : ARecord(r), NEW R
  PROVE  \A e \in Events(L, R) : e.id \in AnchorId
<1>1. \A id \in Anchors(L, "event") : id \in AnchorId
  BY Kinds DEF Anchors, ARecord, AnAnchor
<1>2. \A id : EventView(L, R, id).id = id
  BY Zenon DEF EventView
<1> QED BY <1>1, <1>2 DEF Events

LEMMA EdgesAreFinite ==
  ASSUME NEW L, IsFiniteSet(L), NEW R
  PROVE  /\ IsFiniteSet(ParentChild(L, R))
         /\ \A p \in Partnerships(L, R) : IsFiniteSet(p.pair)
<1>1. IsFiniteSet(ParentChild(L, R))
  <2> DEFINE C == Having(L, "parent", "parentPersonId")
             Edge(k) == [parent |-> Canon(R, k[2]), child |-> Canon(R, k[1]), kind |-> k[3]]
             f == [c \in C |-> Edge(ParentKey(c))]
  <2>1. IsFiniteSet(C)
    BY FS_Subset DEF Having
  <2>2. \A e \in ParentChild(L, R) : \E c \in C : e = Edge(ParentKey(c))
    BY Zenon DEF ParentChild
  <2>3. \A e \in ParentChild(L, R) : \E c \in C : e = f[c]
    <3> HIDE DEF Edge, C
    <3> QED BY <2>2
  <2> HIDE DEF f, C
  <2> QED BY <2>1, <2>3, ImageIsFinite, Zenon
<1>2. ASSUME NEW p \in Partnerships(L, R) PROVE IsFiniteSet(p.pair)
  <2>1. PICK c : p.pair = {Canon(R, x) : x \in PairOf(c)}
    <3>1. \A q \in Partnerships(L, R) : \E c \in Paired(L, "partnership") :
             q = [pair |-> {Canon(R, x) : x \in PartnerKey(c)[1]}, role |-> PartnerKey(c)[2]]
      BY Zenon DEF Partnerships
    <3>2. \A c : PartnerKey(c)[1] = PairOf(c)
      BY DEF PartnerKey
    <3> QED BY <3>1, <3>2
  <2> DEFINE S == PairOf(c)
             f == [x \in S |-> Canon(R, x)]
             T == {Canon(R, x) : x \in S}
  <2>2. IsFiniteSet(S)
    BY TwoAreFinite DEF PairOf
  <2>3. \A y \in T : \E x \in S : y = f[x]
    OBVIOUS
  <2>4. IsFiniteSet(T)
    <3> HIDE DEF S, f, T
    <3> QED BY <2>2, <2>3, ImageIsFinite, Zenon
  <2> QED BY <2>1, <2>4
<1> QED BY <1>1, <1>2

LEMMA UnionsOK ==
  ASSUME NEW edges, IsFiniteSet(edges), NEW pairs, \A p \in pairs : IsFiniteSet(p.pair),
         NEW events, \A e \in events : e.id \in AnchorId
  PROVE  \A u \in Unions(edges, pairs, events) :
            /\ IsFiniteSet(u.parents) /\ IsFiniteSet(u.children)
            /\ u.marriage = None \/ u.marriage \in AnchorId
<1>1. ASSUME NEW child PROVE IsFiniteSet(ParentsOf(edges, child))
  <2> DEFINE f == [e \in edges |-> e.parent]
  <2>1. \A y \in ParentsOf(edges, child) : \E e \in edges : y = f[e]
    BY DEF ParentsOf
  <2> HIDE DEF f
  <2> QED BY <2>1, ImageIsFinite, Zenon
<1>2. IsFiniteSet({e.child : e \in edges})
  <2> DEFINE f == [e \in edges |-> e.child]
  <2>1. \A y \in {e.child : e \in edges} : \E e \in edges : y = f[e]
    OBVIOUS
  <2> HIDE DEF f
  <2> QED BY <2>1, ImageIsFinite, Zenon
<1>3. ASSUME NEW s PROVE MarriageOf(events, s) = None \/ MarriageOf(events, s) \in AnchorId
  <2> DEFINE of == {e.id : e \in {x \in events : /\ x.type \in {"marriage", "divorce"}
                                                 /\ {p.person : p \in x.participants} = s}}
  <2>1. of \subseteq AnchorId
    OBVIOUS
  <2>2. MarriageOf(events, s) = IF of = {} THEN None ELSE Least(of)
    BY Zenon DEF MarriageOf
  <2> HIDE DEF of
  <2> QED BY <2>1, <2>2, LeastIsIn
<1>4. ASSUME NEW u \in Unions(edges, pairs, events)
      PROVE  /\ IsFiniteSet(u.parents) /\ IsFiniteSet(u.children)
             /\ u.marriage = None \/ u.marriage \in AnchorId
  <2>1. PICK s \in {ParentsOf(edges, e.child) : e \in edges} \cup {p.pair : p \in pairs} :
           u = [parents  |-> s,
                children |-> {c \in {e.child : e \in edges} : ParentsOf(edges, c) = s},
                marriage |-> MarriageOf(events, s)]
    BY Zenon DEF Unions
  <2>2. IsFiniteSet(s)
    BY <1>1
  <2>3. IsFiniteSet({c \in {e.child : e \in edges} : ParentsOf(edges, c) = s})
    BY <1>2, FS_Subset
  <2> QED BY <1>3, <2>1, <2>2, <2>3
<1> QED BY <1>4

\* The view names only anchors as events, and its unions are of finitely many people.
LEMMA ProjectOK ==
  ASSUME NEW L, IsFiniteSet(L), \A r \in L : ARecord(r)
  PROVE  ViewOK(Project(L))
<1> DEFINE R == Resolve(L)
           events == Events(L, R)
<1>1. /\ Project(L).events = events
      /\ Project(L).unions = Unions(ParentChild(L, R), Partnerships(L, R), events)
  <2> HIDE DEF R
  <2> QED BY DEF Project, ViewOf, R
<1> HIDE DEF R
<1> QED BY <1>1, EventsHaveIds, EdgesAreFinite, UnionsOK DEF ViewOK

-----------------------------------------------------------------------------
(* The calls of an operation.                                              *)

CallsOK(calls, author) ==
  \E S : calls \in Seq(S) /\ \A k \in S : CallOK(k, author)

LEMMA CallsFrom ==
  ASSUME NEW author, NEW S, NEW s \in Seq(S), \A k \in S : CallOK(k, author)
  PROVE  CallsOK(s, author)
  BY Zenon DEF CallsOK

LEMMA CallsNone == ASSUME NEW author PROVE CallsOK(<<>>, author)
<1> DEFINE S == {}
           s == <<>>
<1>1. s \in Seq(S) /\ \A k \in S : CallOK(k, author)
  OBVIOUS
<1>2. CallsOK(s, author)
  <2> HIDE DEF S, s
  <2> QED BY <1>1, CallsFrom
<1> QED BY <1>2

LEMMA CallsOne == ASSUME NEW author, NEW k, CallOK(k, author) PROVE CallsOK(<<k>>, author)
<1> DEFINE S == {k}
           s == <<k>>
<1>1. s \in Seq(S) /\ \A x \in S : CallOK(x, author)
  OBVIOUS
<1>2. CallsOK(s, author)
  <2> HIDE DEF S, s
  <2> QED BY <1>1, CallsFrom
<1> QED BY <1>2

LEMMA CallsThen ==
  ASSUME NEW author, NEW s, CallsOK(s, author), NEW t, CallsOK(t, author)
  PROVE  CallsOK(s \o t, author)
<1>1. PICK S : s \in Seq(S) /\ \A k \in S : CallOK(k, author)
  BY DEF CallsOK
<1>2. PICK T : t \in Seq(T) /\ \A k \in T : CallOK(k, author)
  BY DEF CallsOK
<1>3. s \in Seq(S \cup T) /\ t \in Seq(S \cup T)
  BY <1>1, <1>2
<1>4. s \o t \in Seq(S \cup T)
  BY <1>3
<1> QED BY <1>1, <1>2, <1>4 DEF CallsOK

\* The first of them is as good, and so are the rest.
LEMMA CallsHead ==
  ASSUME NEW author, NEW s, CallsOK(s, author), s # <<>>
  PROVE  CallOK(Head(s), author) /\ CallsOK(Tail(s), author)
<1>1. PICK S : s \in Seq(S) /\ \A k \in S : CallOK(k, author)
  BY DEF CallsOK
<1>2. Head(s) \in S /\ Tail(s) \in Seq(S)
  BY <1>1
<1> QED BY <1>1, <1>2 DEF CallsOK

LEMMA CallsJoined ==
  ASSUME NEW author, NEW n \in Nat, NEW f, \A i \in 1..n : CallsOK(f[i], author)
  PROVE  CallsOK(Sq!FlattenSeq([i \in 1..n |-> f[i]]), author)
<1> DEFINE S == UNION {{f[i][j] : j \in DOMAIN f[i]} : i \in 1..n}
           ss == [i \in 1..n |-> f[i]]
<1>1. ASSUME NEW i \in 1..n PROVE f[i] \in Seq(S) /\ \A j \in DOMAIN f[i] : CallOK(f[i][j], author)
  <2>1. PICK T : f[i] \in Seq(T) /\ \A k \in T : CallOK(k, author)
    BY DEF CallsOK
  <2>2. \A j \in 1..Len(f[i]) : f[i][j] \in S
    BY <2>1
  <2> QED BY <2>1, <2>2
<1>2. ss \in Seq(Seq(S))
  <2>1. \A i \in 1..n : f[i] \in Seq(S)
    BY <1>1
  <2> HIDE DEF S
  <2> QED BY <2>1
<1>3. Sq!FlattenSeq(ss) \in Seq(S)
  <2> HIDE DEF S, ss
  <2> QED BY <1>2, FlattenType
<1>4. \A k \in S : CallOK(k, author)
  BY <1>1
<1> HIDE DEF S
<1> QED BY <1>3, <1>4 DEF CallsOK

LEMMA SimpleCalls ==
  ASSUME NEW author
  PROVE  /\ \A target, predicate, value :
               predicate \notin Naming => CallOK(Asserting(target, predicate, value), author)
         /\ \A id \in AnchorId : \A type : CallsOK(CallAnchor(id, type), author)
         /\ \A target, predicate, value :
               predicate \notin Naming => CallsOK(CallAssert(target, predicate, value), author)
         /\ \A target, predicate, value :
               predicate \notin Naming => CallsOK(CallSet(target, predicate, value), author)
         /\ \A target, patch : CallsOK(CallName(target, patch), author)
         /\ \A target, field, value : CallsOK(CallCustom(target, field, value), author)
         /\ \A id, place : CallsOK(CallEventPlace(id, place), author)
         /\ \A children, parents : CallsOK(CallUnparent(children, parents), author)
         /\ \A couple : CallsOK(CallUnpair(couple), author)
         /\ \A spouse : CallsOK(CallLeave(spouse), author)
         /\ \A target, pair : CallsOK(CallPartner(target, pair), author)
         /\ \A child, parent : CallsOK(CallParent(child, parent), author)
         /\ \A patch, field, calls : CallsOK(calls, author) => CallsOK(Given(patch, field, calls), author)
<1> DEFINE Plain == {"name", "custom", "place", "unparent", "unpair", "leave"}
<1>1. \A k : k.do \in Plain => CallsOK(<<k>>, author)
  BY CallsOne DEF CallOK
<1>2. \A k : k.do = "anchor" /\ k.id \in AnchorId => CallsOK(<<k>>, author)
  BY CallsOne DEF CallOK
<1>3. \A target, predicate, value :
         predicate \notin Naming => CallOK(Asserting(target, predicate, value), author)
  BY DEF CallOK, Asserting
<1>4. \A target, predicate, value :
         predicate \notin Naming => CallsOK(CallAssert(target, predicate, value), author)
  BY <1>3, CallsOne DEF CallAssert
<1>5. \A target, predicate, value :
         predicate \notin Naming => CallsOK(CallSet(target, predicate, value), author)
  BY CallsOne DEF CallOK, CallSet
<1>6. \A id, place : CallsOK(CallEventPlace(id, place), author)
  <2>1. \A place : CallsOK(<<[do |-> "place", place |-> place]>>, author)
    BY <1>1
  <2> QED BY <2>1, <1>5, CallsThen DEF CallEventPlace, Naming
<1>7. \A id \in AnchorId : \A type : CallsOK(CallAnchor(id, type), author)
  BY <1>2 DEF CallAnchor
<1>8. /\ \A target, patch : CallsOK(CallName(target, patch), author)
      /\ \A target, field, value : CallsOK(CallCustom(target, field, value), author)
      /\ \A children, parents : CallsOK(CallUnparent(children, parents), author)
      /\ \A couple : CallsOK(CallUnpair(couple), author)
      /\ \A spouse : CallsOK(CallLeave(spouse), author)
  BY <1>1 DEF CallName, CallCustom, CallUnparent, CallUnpair, CallLeave
<1>9. /\ \A target, pair : CallsOK(CallPartner(target, pair), author)
      /\ \A child, parent : CallsOK(CallParent(child, parent), author)
  BY <1>4 DEF CallPartner, CallParent, Naming
<1>10. \A patch, field, calls : CallsOK(calls, author) => CallsOK(Given(patch, field, calls), author)
  BY CallsNone DEF Given
<1> QED BY <1>3, <1>4, <1>5, <1>6, <1>7, <1>8, <1>9, <1>10

\* Taking back ids of the author's own, and bringing back what a frame removed.
LEMMA ForgetAndFrame ==
  ASSUME NEW author
  PROVE  /\ \A ids : OwnSet(ids, author) => CallsOK(CallForget(ids), author)
         /\ \A frame : OwnSet(frame.added, author) /\ Records(frame.removed)
                          => CallsOK(CallFrame(frame), author)
<1>1. ASSUME NEW j, CallOK(j, author), NEW k, CallOK(k, author) PROVE CallsOK(<<j, k>>, author)
  <2> DEFINE S == {j, k}
             s == <<j, k>>
  <2>1. s \in Seq(S) /\ \A x \in S : CallOK(x, author)
    BY <1>1
  <2>2. CallsOK(s, author)
    <3> HIDE DEF S, s
    <3> QED BY <2>1, CallsFrom
  <2> QED BY <2>2
<1>2. \A ids : CallOK([do |-> "forget", ids |-> ids], author)
  BY DEF CallOK
<1>3. \A ids : OwnSet(ids, author) => CallOK([do |-> "takeBack", ids |-> ids], author)
  BY DEF CallOK, OwnSet
<1>4. \A records : Records(records) => CallOK([do |-> "bringBack", records |-> records], author)
  BY DEF CallOK
<1>5. ASSUME NEW ids, OwnSet(ids, author) PROVE CallsOK(CallForget(ids), author)
  BY <1>1, <1>2, <1>3, <1>5, CallsNone DEF CallForget
<1>6. ASSUME NEW frame, OwnSet(frame.added, author), Records(frame.removed)
      PROVE  CallsOK(CallFrame(frame), author)
  BY <1>1, <1>3, <1>4, <1>6 DEF CallFrame
<1> QED BY <1>5, <1>6

LEMMA NewIds ==
  ASSUME fresh \in Nat, NEW k \in Nat
  PROVE  NewPerson(k) \in AnchorId /\ \A i \in Nat : NewEvent(k, i) \in AnchorId
  BY DEF NewPerson, NewEvent, AnchorId

\* Any patch of a person.
LEMMA PatchCalls ==
  ASSUME NEW author, NEW V, NEW pid, NEW patch, fresh \in Nat, NEW k \in Nat
  PROVE  CallsOK(ApplyPatch(V, pid, patch, k), author)
<1> DEFINE OK(s) == CallsOK(s, author)
<1>1. OK(<<>>)
  BY CallsNone
<1>2. \A s, t : OK(s) /\ OK(t) => OK(s \o t)
  BY CallsThen
<1>3. ASSUME NEW type, NEW placeKey, NEW new \in AnchorId
      PROVE  OK(PatchEvent(V, pid, patch, type, placeKey, new))
  <2> DEFINE known == EventOf(V, pid, type)
             eid == IF known = None THEN new ELSE known
             head == IF known # None THEN <<>>
                     ELSE CallAnchor(eid, "event") \o CallAssert(eid, "event_type", [type |-> type])
                              \o CallAssert(eid, "participant",
                                            [personId |-> pid, role |-> "principal"])
             dated == Given(patch, type,
                            CallSet(eid, "date", IF patch[type] = None THEN None
                                                 ELSE [edtf |-> patch[type]]))
             placed == Given(patch, placeKey, CallEventPlace(eid, patch[placeKey]))
  <2>1. OK(head)
    <3>1. CASE known # None
      BY <1>1, <3>1
    <3>2. CASE known = None
      <4>1. OK(CallAnchor(new, "event"))
        BY SimpleCalls
      <4>2. \A p, v : p \notin Naming => OK(CallAssert(new, p, v))
        BY SimpleCalls
      <4> HIDE DEF OK, known
      <4> QED BY <1>2, <3>2, <4>1, <4>2 DEF Naming
    <3> QED BY <3>1, <3>2
  <2>2. OK(dated) /\ OK(placed)
    <3>1. \A v : OK(CallSet(eid, "date", v))
      BY SimpleCalls DEF Naming
    <3>2. OK(CallEventPlace(eid, patch[placeKey]))
      BY SimpleCalls
    <3>3. \A f, s : OK(s) => OK(Given(patch, f, s))
      BY SimpleCalls
    <3> HIDE DEF OK, eid
    <3> QED BY <3>1, <3>2, <3>3
  <2>3. \/ PatchEvent(V, pid, patch, type, placeKey, new) = <<>>
        \/ PatchEvent(V, pid, patch, type, placeKey, new) = head \o dated \o placed
    BY DEF PatchEvent
  <2> HIDE DEF OK, head, dated, placed
  <2> QED BY <1>1, <1>2, <2>1, <2>2, <2>3
<1>4. \A i \in Nat : NewEvent(k, i) \in AnchorId
  BY NewIds
<1>5. OK(PatchEvent(V, pid, patch, "birth", "birthPlace", NewEvent(k, 1)))
      /\ OK(PatchEvent(V, pid, patch, "death", "deathPlace", NewEvent(k, 2)))
  BY <1>3, <1>4
<1>6. \A f, s : OK(s) => OK(Given(patch, f, s))
  BY SimpleCalls
<1>7. /\ \A p, v : p \in {"sex", "biography"} => OK(CallSet(pid, p, v))
      /\ \A f, v : OK(CallCustom(pid, f, v))
      /\ OK(CallName(pid, patch))
  BY SimpleCalls DEF Naming
<1> DEFINE named == IF {"given", "surname"} \cap DOMAIN patch = {} THEN <<>>
                    ELSE CallName(pid, patch)
<1>8. OK(named)
  BY <1>1, <1>7
<1> HIDE DEF OK, named
<1>9. \A a, b, c, d, e, f : OK(a) /\ OK(b) /\ OK(c) /\ OK(d) /\ OK(e) /\ OK(f)
         => OK(a \o b \o c \o d \o e \o f)
  BY <1>2
<1> QED BY <1>5, <1>6, <1>7, <1>8, <1>9 DEF ApplyPatch, named, OK

LEMMA PersonIsNamed ==
  ASSUME NEW author, NEW V, fresh \in Nat, NEW k \in Nat
  PROVE  /\ \A id \in AnchorId : \A fields : CallsOK(CreateCalls(V, id, fields, k), author)
         /\ \A who : CallsOK(PersonCalls(V, who, k), author)
<1>1. ASSUME NEW id \in AnchorId, NEW fields PROVE CallsOK(CreateCalls(V, id, fields, k), author)
  <2>1. \A patch : CallsOK(ApplyPatch(V, id, patch, k), author)
    BY PatchCalls
  <2>2. CallsOK(CallAnchor(id, "person"), author)
    BY SimpleCalls
  <2> QED BY <2>1, <2>2, CallsThen DEF CreateCalls
<1>2. NewPerson(k) \in AnchorId
  BY NewIds
<1>3. \A who : CallsOK(PersonCalls(V, who, k), author)
  BY <1>1, <1>2, CallsNone DEF PersonCalls
<1> QED BY <1>1, <1>3

\* Loops of asserts.
LEMMA LoopCalls ==
  ASSUME NEW author, NEW S, IsFiniteSet(S), NEW f, \A i \in 1..Cardinality(S) : CallOK(f[i], author)
  PROVE  CallsOK([i \in 1..Cardinality(S) |-> f[i]], author)
<1> DEFINE n == Cardinality(S)
           T == {f[i] : i \in 1..n}
           s == [i \in 1..n |-> f[i]]
<1>1. n \in Nat
  BY FS_CardinalityType
<1> HIDE DEF n
<1>2. s \in Seq(T)
  BY <1>1
<1>3. \A k \in T : CallOK(k, author)
  BY DEF n
<1>4. CallsOK(s, author)
  <2> HIDE DEF s, T
  <2> QED BY <1>2, <1>3, CallsFrom
<1> QED BY <1>4 DEF n

\* Calls on families, of anybody with anybody.
LEMMA FamilyCalls ==
  ASSUME NEW author
  PROVE  /\ \A children, parents : IsFiniteSet(children) /\ IsFiniteSet(parents)
                => CallsOK(CallParents(children, parents), author)
         /\ \A eid \in AnchorId : \A spouses : IsFiniteSet(spouses)
                => CallsOK(CallMarriage(eid, spouses), author)
         /\ \A eid, facts : CallsOK(CallFacts(eid, facts), author)
<1>1. ASSUME NEW children, NEW parents, IsFiniteSet(children), IsFiniteSet(parents)
      PROVE  CallsOK(CallParents(children, parents), author)
  <2> DEFINE S == children \X parents
             pairs == Sq!SetToSeq(S)
             f == [i \in 1..Cardinality(S) |->
                     Asserting(pairs[i][1], "parent",
                               [parentPersonId |-> pairs[i][2], kind |-> "biological"])]
  <2>1. IsFiniteSet(S)
    BY <1>1, FS_Product
  <2>2. \A i \in 1..Cardinality(S) : CallOK(f[i], author)
    BY SimpleCalls DEF Naming
  <2>3. CallParents(children, parents) = [i \in 1..Cardinality(S) |-> f[i]]
    BY DEF CallParents
  <2> HIDE DEF S, f
  <2> QED BY <2>1, <2>2, <2>3, LoopCalls
<1>2. ASSUME NEW eid, NEW spouses, IsFiniteSet(spouses) PROVE CallsOK(CallSpouses(eid, spouses), author)
  <2> DEFINE each == Sq!SetToSeq(spouses)
             f == [i \in 1..Cardinality(spouses) |->
                     Asserting(eid, "participant", [personId |-> each[i], role |-> "spouse"])]
  <2>1. \A i \in 1..Cardinality(spouses) : CallOK(f[i], author)
    BY SimpleCalls DEF Naming
  <2>2. CallSpouses(eid, spouses) = [i \in 1..Cardinality(spouses) |-> f[i]]
    BY DEF CallSpouses
  <2> HIDE DEF f
  <2> QED BY <1>2, <2>1, <2>2, LoopCalls
<1>3. ASSUME NEW eid \in AnchorId, NEW spouses, IsFiniteSet(spouses)
      PROVE  CallsOK(CallMarriage(eid, spouses), author)
  <2>1. CallsOK(CallAnchor(eid, "event"), author)
    BY SimpleCalls
  <2>2. CallsOK(CallAssert(eid, "event_type", [type |-> "marriage"]), author)
    BY SimpleCalls DEF Naming
  <2> QED BY <1>2, <1>3, <2>1, <2>2, CallsThen DEF CallMarriage
<1>4. ASSUME NEW eid, NEW facts PROVE CallsOK(CallFacts(eid, facts), author)
  <2>1. \A v : CallsOK(CallSet(eid, "date", v), author)
    BY SimpleCalls DEF Naming
  <2>2. \A v : CallsOK(CallEventPlace(eid, v), author)
    BY SimpleCalls
  <2>3. \A f, s : CallsOK(s, author) => CallsOK(Given(facts, f, s), author)
    BY SimpleCalls
  <2>4. CallsOK(Given(facts, "marriage", CallSet(eid, "date", IF facts.marriage = None THEN None
                                                  ELSE [edtf |-> facts.marriage])), author)
    BY <2>1, <2>3
  <2>5. CallsOK(Given(facts, "place", CallEventPlace(eid, facts.place)), author)
    BY <2>2, <2>3
  <2> QED BY <2>4, <2>5, CallsThen DEF CallFacts
<1> QED BY <1>1, <1>3, <1>4

\* Any operations of a seed.
LEMMA SeedsCalls ==
  ASSUME NEW author, NEW d, fresh \in Nat, NEW k \in Nat,
         NEW o \in SeedOps(Form(PersonFields), Form(FactFields))
  PROVE  CallsOK(SeedCalls(d, o, k), author)
<1>1. CASE o.type = "upsertPerson"
  <2>1. o.id \in AnchorId
    BY <1>1 DEF SeedOps
  <2> QED BY <1>1, <2>1, PersonIsNamed DEF SeedCalls
<1>2. CASE o.type = "upsertFamily"
  <2>1. IsFiniteSet(o.spouses) /\ IsFiniteSet(o.children)
    BY <1>2 DEF SeedOps, Finite
  <2>2. NewPerson(k) \in AnchorId
    BY NewIds
  <2>3. \A target, pair : CallsOK(CallPartner(target, pair), author)
    BY SimpleCalls
  <2>4. CallsOK(CallParents(o.children, o.spouses), author)
    BY <2>1, FamilyCalls
  <2>5. CallsOK(CallMarriage(NewPerson(k), o.spouses), author)
    BY <2>1, <2>2, FamilyCalls
  <2>6. CallsOK(CallFacts(NewPerson(k), o.facts), author)
    BY FamilyCalls
  <2>7. \A s, t : CallsOK(s, author) /\ CallsOK(t, author) => CallsOK(s \o t, author)
    BY CallsThen
  <2>8. CallsOK(<<>>, author)
    BY CallsNone
  <2> DEFINE first == IF Cardinality(o.spouses) < 2 THEN <<>>
                      ELSE CallPartner(Least(o.spouses), o.spouses)
             last == IF DOMAIN o.facts = {} THEN <<>>
                     ELSE CallMarriage(NewPerson(k), o.spouses) \o CallFacts(NewPerson(k), o.facts)
  <2>9. CallsOK(first, author) /\ CallsOK(last, author)
    BY <2>3, <2>5, <2>6, <2>7, <2>8
  <2>10. SeedCalls(d, o, k) = first \o CallParents(o.children, o.spouses) \o last
    BY <1>2 DEF SeedCalls
  <2> HIDE DEF first, last
  <2> QED BY <2>4, <2>7, <2>9, <2>10
<1> QED BY <1>1, <1>2 DEF SeedOps

-----------------------------------------------------------------------------
(* The invariant.                                                          *)

FrameOK(frame, author) == OwnSet(frame.added, author) /\ Records(frame.removed)
FramesOK(frames, author) ==
  \E S : frames \in Seq(S) /\ \A f \in S : FrameOK(f, author)

TaskFields == {"stage", "calls", "inverse", "goal", "before"}
TaskOK(k, author) ==
  \/ k = Idle
  \/ /\ DOMAIN k = TaskFields /\ k.stage \in {"calling", "committed"}
     /\ CallsOK(k.calls, author) /\ Records(k.before)

DeviceOK(author, t, v, k, u, r) ==
  /\ Engine(t, author) /\ ViewOK(v) /\ TaskOK(k, author)
  /\ FramesOK(u, author) /\ FramesOK(r, author)

OnDevices(f) == f = [d \in Devices |-> f[d]]

\* Whatever a device is about to take away is an anchor or its author's own.
EditorInv ==
  /\ OnDevices(tree) /\ OnDevices(got) /\ OnDevices(view) /\ OnDevices(task)
  /\ OnDevices(undo) /\ OnDevices(redo)
  /\ fresh \in Nat /\ now \in Nat
  /\ Batches(log) /\ \A d \in Devices : got[d] \subseteq log
  /\ Items(snapshot.live) /\ snapshot.covers \subseteq log
  /\ \A d \in Devices : DeviceOK(AuthorOf[d], tree[d], view[d], task[d], undo[d], redo[d])

LEMMA FramesNone == ASSUME NEW author PROVE FramesOK(<<>>, author)
<1> DEFINE S == {}
           s == <<>>
<1>1. s \in Seq(S) /\ \A f \in S : FrameOK(f, author)
  OBVIOUS
<1>2. FramesOK(s, author)
  <2> HIDE DEF S, s
  <2> QED BY <1>1, Zenon DEF FramesOK
<1> QED BY <1>2

LEMMA FramesPush ==
  ASSUME NEW author, NEW frame, FrameOK(frame, author), NEW s, FramesOK(s, author)
  PROVE  FramesOK(<<frame>> \o s, author)
<1>1. PICK S : s \in Seq(S) /\ \A f \in S : FrameOK(f, author)
  BY DEF FramesOK
<1> DEFINE T == S \cup {frame}
           p == <<frame>> \o s
<1>2. p \in Seq(T) /\ \A f \in T : FrameOK(f, author)
  <2>1. s \in Seq(T) /\ <<frame>> \in Seq(T)
    BY <1>1
  <2> QED BY <1>1, <2>1
<1>3. FramesOK(p, author)
  <2> HIDE DEF T, p
  <2> QED BY <1>2, Zenon DEF FramesOK
<1> QED BY <1>3

LEMMA FramesHead ==
  ASSUME NEW author, NEW s, FramesOK(s, author), s # <<>>
  PROVE  FrameOK(Head(s), author) /\ FramesOK(Tail(s), author)
<1>1. PICK S : s \in Seq(S) /\ \A f \in S : FrameOK(f, author)
  BY DEF FramesOK
<1>2. Head(s) \in S /\ Tail(s) \in Seq(S)
  BY <1>1
<1> QED BY <1>1, <1>2 DEF FramesOK

\* What a tree may start from: finitely many anchors and claims; the values that
\* name an id do name one.
Importable(items) == IsFiniteSet(items) /\ \A i \in items : ARecord(i)

\* Every device starts with the imported records.
LEMMA InitOK ==
  ASSUME NEW items, Importable(items), NEW author, NEW moderators,
         Init(items, author, moderators)
  PROVE  EditorInv
<1>1. Items(items) /\ Items({})
  BY FS_EmptySet DEF Importable, Items, AnItem
<1>2. \A d \in Devices : Engine(tree[d], AuthorOf[d])
  BY <1>1, NewEngine, MergeEngine DEF Init
<1>3. \A d \in Devices : ViewOK(view[d])
  BY ProjectOK DEF Init, Importable
<1>4. Batches(log)
  <2>1. log = {Imported(items, author)}
    BY DEF Init
  <2>2. Imported(items, author).items = items
    BY DEF Imported
  <2> QED BY <1>1, <2>1, <2>2, FS_Singleton DEF Batches
<1>5. \A d \in Devices : got[d] \subseteq log
  BY DEF Init
<1>6. Items(snapshot.live) /\ snapshot.covers \subseteq log
  BY <1>1 DEF Init, NoSnapshot
<1>7. \A d \in Devices : task[d] = Idle /\ undo[d] = <<>> /\ redo[d] = <<>>
  BY DEF Init
<1>8. /\ OnDevices(tree) /\ OnDevices(got) /\ OnDevices(view) /\ OnDevices(task)
      /\ OnDevices(undo) /\ OnDevices(redo)
  BY DEF Init, OnDevices
<1>9. fresh \in Nat /\ now \in Nat
  BY DEF Init, FirstFresh
<1> QED BY <1>2, <1>3, <1>4, <1>5, <1>6, <1>7, <1>8, <1>9, FramesNone
        DEF EditorInv, DeviceOK, TaskOK

-----------------------------------------------------------------------------
(* Operations.                                                             *)

\* What a step of one device has to show of it.
LEMMA OneDevice ==
  ASSUME EditorInv, NEW d \in Devices,
         OnDevices(tree)', OnDevices(got)', OnDevices(view)', OnDevices(task)', OnDevices(undo)',
         OnDevices(redo)',
         \A e \in Devices : e # d =>
            /\ tree'[e] = tree[e] /\ view'[e] = view[e] /\ task'[e] = task[e]
            /\ undo'[e] = undo[e] /\ redo'[e] = redo[e],
         DeviceOK(AuthorOf[d], tree'[d], view'[d], task'[d], undo'[d], redo'[d]),
         fresh' \in Nat, now' \in Nat,
         Batches(log'), \A e \in Devices : got'[e] \subseteq log',
         Items(snapshot'.live), snapshot'.covers \subseteq log'
  PROVE  EditorInv'
<1>1. \A e \in Devices : DeviceOK(AuthorOf[e], tree'[e], view'[e], task'[e], undo'[e], redo'[e])
  BY DEF EditorInv
<1> QED BY <1>1 DEF EditorInv

\* An operation whose calls are in order keeps the invariant.
LEMMA StartOK ==
  ASSUME EditorInv, NEW d \in Devices, NEW n \in Nat, NEW calls, CallsOK(calls, AuthorOf[d]),
         NEW inverse, NEW goal, Start(d, n, calls, inverse, goal),
         OnDevices(undo)', OnDevices(redo)',
         \A e \in Devices : e # d => undo'[e] = undo[e] /\ redo'[e] = redo[e],
         FramesOK(undo'[d], AuthorOf[d]), FramesOK(redo'[d], AuthorOf[d])
  PROVE  EditorInv'
<1> DEFINE k == [stage |-> "calling", calls |-> calls, inverse |-> inverse, goal |-> goal,
                 before |-> Mine(Live(tree[d]), Author(d))]
<1>1. Records(Mine(Live(tree[d]), Author(d)))
  <2>1. Records(Live(tree[d]))
    BY LiveItems DEF EditorInv, DeviceOK, Items, Records
  <2> QED BY <2>1, FS_Subset DEF Mine, Records
<1>2. TaskOK(k, AuthorOf[d])
  BY <1>1 DEF TaskOK, TaskFields
<1>3. task' = [task EXCEPT ![d] = k]
  BY DEF Start
<1> HIDE DEF k
<1>4. OnDevices(task)' /\ task'[d] = k /\ \A e \in Devices : e # d => task'[e] = task[e]
  BY <1>3 DEF EditorInv, OnDevices
<1>5. fresh' \in Nat
  BY DEF Start, EditorInv
<1>6. UNCHANGED <<tree, log, got, snapshot, view, now>>
  BY DEF Start, engine, shared
<1>7. OnDevices(tree)' /\ OnDevices(got)' /\ OnDevices(view)'
  BY <1>6 DEF EditorInv, OnDevices
<1>8. DeviceOK(AuthorOf[d], tree'[d], view'[d], task'[d], undo'[d], redo'[d])
  BY <1>2, <1>4, <1>6 DEF EditorInv, DeviceOK
<1> QED BY <1>4, <1>5, <1>6, <1>7, <1>8, OneDevice DEF EditorInv

LEMMA EditOK ==
  ASSUME EditorInv, NEW d \in Devices, NEW calls, CallsOK(calls, AuthorOf[d]),
         Edit(d, calls) \/ Unframed(d, calls)
  PROVE  EditorInv'
<1>1. PICK inverse, goal : Start(d, 3, calls, inverse, goal)
  BY DEF Edit, Unframed
<1>2. UNCHANGED <<undo, redo>>
  BY DEF Edit, Unframed, stacks
<1>3. FramesOK(undo'[d], AuthorOf[d]) /\ FramesOK(redo'[d], AuthorOf[d])
  BY <1>2 DEF EditorInv, DeviceOK
<1>4. OnDevices(undo)' /\ OnDevices(redo)'
  BY <1>2 DEF EditorInv, OnDevices
<1> QED BY <1>1, <1>2, <1>3, <1>4, StartOK

\* The combinators that operations are made of, for one device.
LEMMA Building ==
  ASSUME EditorInv, NEW d \in Devices
  PROVE  LET OK(s) == CallsOK(s, AuthorOf[d])
         IN  /\ OK(<<>>) /\ \A s, t : OK(s) /\ OK(t) => OK(s \o t)
             /\ \A who, k : k \in Nat => OK(PersonCalls(view[d], who, k))
             /\ \A k \in Nat : NewPerson(k) \in AnchorId
             /\ \A x \in AnchorId : OwnSet({x}, AuthorOf[d])
  BY CallsNone, CallsThen, PersonIsNamed, NewIds, FS_Singleton DEF EditorInv, OwnSet, Own

LEMMA EventIsAnId ==
  ASSUME NEW V, ViewOK(V), NEW pid, NEW type
  PROVE  EventOf(V, pid, type) = None \/ EventOf(V, pid, type) \in AnchorId
<1> DEFINE of == {e.id : e \in {x \in V.events : /\ x.type = type
                                              /\ [person |-> pid, role |-> "principal"]
                                                    \in x.participants}}
<1>1. of \subseteq AnchorId
  BY DEF ViewOK
<1>2. EventOf(V, pid, type) = IF of = {} THEN None ELSE Least(of)
  BY Zenon DEF EventOf
<1> HIDE DEF of
<1> QED BY <1>1, <1>2, LeastIsIn

LEMMA PeopleOK ==
  ASSUME EditorInv, NEW d \in Devices, OnPeople(d)
  PROVE  EditorInv'
<1> DEFINE OK(s) == CallsOK(s, AuthorOf[d])
<1>0. /\ OK(<<>>) /\ \A s, t : OK(s) /\ OK(t) => OK(s \o t)
      /\ \A who, k : k \in Nat => OK(PersonCalls(view[d], who, k))
      /\ \A k \in Nat : NewPerson(k) \in AnchorId
      /\ \A x \in AnchorId : OwnSet({x}, AuthorOf[d])
  BY Building
<1>01. \A target, pair : OK(CallPartner(target, pair))
  BY SimpleCalls
<1>02. \A child, parent : OK(CallParent(child, parent))
  BY SimpleCalls
<1>03. fresh \in Nat /\ ViewOK(view[d])
  BY DEF EditorInv, DeviceOK
<1>1. ASSUME NEW form, createPerson(d, form) PROVE EditorInv'
  <2>1. OK(CreateCalls(view[d], NewPerson(0), form, 0))
    BY <1>0, <1>03, PersonIsNamed
  <2> QED BY <1>1, <2>1, EditOK DEF createPerson
<1>2. ASSUME NEW id, NEW form, updatePerson(d, id, form) PROVE EditorInv'
  <2>1. OK(ApplyPatch(view[d], id, form, 0))
    BY <1>03, PatchCalls
  <2> QED BY <1>2, <2>1, EditOK DEF updatePerson
<1>3. ASSUME NEW id \in AnchorId, deletePerson(d, id) PROVE EditorInv'
  <2> DEFINE E == {EventOf(view[d], id, type) : type \in {"birth", "death"}} \ {None}
  <2>1. OK(CallForget({id}))
    BY <1>0, ForgetAndFrame
  <2>2. OwnSet(E, AuthorOf[d])
    <3> DEFINE b == EventOf(view[d], id, "birth")
               e == EventOf(view[d], id, "death")
    <3>1. E = {b, e} \ {None}
      OBVIOUS
    <3>2. \A x \in {b, e} \ {None} : x \in AnchorId
      BY <1>03, EventIsAnId
    <3>3. IsFiniteSet({b, e} \ {None})
      BY TwoAreFinite, FS_Difference
    <3> HIDE DEF b, e, E
    <3> QED BY <3>1, <3>2, <3>3 DEF OwnSet, Own
  <2>3. OK(CallForget(E))
    <3> HIDE DEF E
    <3> QED BY <2>2, ForgetAndFrame
  <2>4. OK(CallForget({id}) \o CallForget(E))
    <3> HIDE DEF E, OK
    <3> QED BY <1>0, <2>1, <2>3
  <2> QED BY <1>3, <2>4, EditOK DEF deletePerson
<1>4. ASSUME NEW a, NEW b, NEW facts, addMarriage(d, a, b, facts) PROVE EditorInv'
  <2> DEFINE pair == {a, PersonId(b, 0)}
             last == IF DOMAIN facts = {} THEN <<>>
                     ELSE CallMarriage(NewPerson(2), pair) \o CallFacts(NewPerson(2), facts)
  <2>1. OK(CallMarriage(NewPerson(2), pair))
    <3>1. IsFiniteSet(pair)
      BY TwoAreFinite
    <3> QED BY <1>0, <3>1, FamilyCalls
  <2>2. OK(CallFacts(NewPerson(2), facts))
    BY FamilyCalls
  <2>3. OK(last)
    BY <1>0, <2>1, <2>2
  <2>4. OK(PersonCalls(view[d], b, 0)) /\ OK(CallPartner(a, pair))
    BY <1>0, <1>01
  <2>5. OK(PersonCalls(view[d], b, 0) \o CallPartner(a, pair) \o last)
    <3> HIDE DEF OK, last, pair
    <3> QED BY <1>0, <2>3, <2>4
  <2> QED BY <1>4, <2>5, EditOK DEF addMarriage
<1>5. ASSUME NEW child, NEW father, NEW mother, addParents(d, child, father, mother)
      PROVE  EditorInv'
  <2> DEFINE Calls(who, k) == IF who = None THEN <<>>
                              ELSE PersonCalls(view[d], who, k) \o CallParent(child, PersonId(who, k))
             OfSex(who, sex) == IF who = None \/ ~IsNew(who) THEN who
                                ELSE [new |-> who.new @@ [sex |-> sex]]
  <2>1. \A who : OK(Calls(who, 0)) /\ OK(Calls(who, 1))
    <3>1. \A who : OK(PersonCalls(view[d], who, 0)) /\ OK(PersonCalls(view[d], who, 1))
      BY <1>0
    <3> QED BY <1>0, <1>02, <3>1
  <2>2. \A w, x : OK(Calls(w, 0) \o Calls(x, 1))
    <3> HIDE DEF OK, Calls
    <3> QED BY <1>0, <2>1
  <2>3. Edit(d, Calls(OfSex(father, "M"), 0) \o Calls(OfSex(mother, "F"), 1))
    BY <1>5 DEF addParents
  <2>4. OK(Calls(OfSex(father, "M"), 0) \o Calls(OfSex(mother, "F"), 1))
    <3> HIDE DEF OK, Calls, OfSex
    <3> QED BY <2>2
  <2> DEFINE calls == Calls(OfSex(father, "M"), 0) \o Calls(OfSex(mother, "F"), 1)
  <2> HIDE DEF calls
  <2>5. OK(calls) /\ Edit(d, calls)
    BY <2>3, <2>4 DEF calls
  <2> QED BY <2>5, EditOK
<1>6. ASSUME NEW ops \in Seq(SeedOps(Form(PersonFields), Form(FactFields))), seed(d, ops)
      PROVE  EditorInv'
  <2> DEFINE f == [i \in 1..Len(ops) |-> SeedCalls(d, ops[i], i - 1)]
             ss == [i \in DOMAIN ops |-> SeedCalls(d, ops[i], i - 1)]
  <2>1. \A i \in 1..Len(ops) : OK(f[i])
    <3>1. \A i \in 1..Len(ops) : OK(SeedCalls(d, ops[i], i - 1))
      <4>1. \A i \in 1..Len(ops) : i - 1 \in Nat /\ ops[i] \in SeedOps(Form(PersonFields), Form(FactFields))
        OBVIOUS
      <4> QED BY <1>03, <4>1, SeedsCalls
    <3> QED BY <3>1
  <2>2. OK(Sq!FlattenSeq(ss))
    <3>1. ss = [i \in 1..Len(ops) |-> f[i]] /\ Len(ops) \in Nat
      OBVIOUS
    <3> HIDE DEF f, ss
    <3> QED BY <2>1, <3>1, CallsJoined
  <2>3. Start(d, Len(ops), Sq!FlattenSeq(ss), "none", {})
    BY <1>6 DEF seed
  <2>4. undo' = [undo EXCEPT ![d] = <<>>] /\ redo' = [redo EXCEPT ![d] = <<>>]
    BY <1>6 DEF seed
  <2>5. /\ OnDevices(undo)' /\ OnDevices(redo)' /\ undo'[d] = <<>> /\ redo'[d] = <<>>
        /\ \A e \in Devices : e # d => undo'[e] = undo[e] /\ redo'[e] = redo[e]
    BY <2>4 DEF EditorInv, OnDevices
  <2>6. FramesOK(undo'[d], AuthorOf[d]) /\ FramesOK(redo'[d], AuthorOf[d])
    BY <2>5, FramesNone
  <2>7. Len(ops) \in Nat
    OBVIOUS
  <2> DEFINE calls == Sq!FlattenSeq(ss)
  <2>8. OK(calls) /\ Start(d, Len(ops), calls, "none", {})
    BY <2>2, <2>3
  <2> HIDE DEF calls
  <2> QED BY <2>5, <2>6, <2>7, <2>8, StartOK
<1> HIDE DEF OK
<1> QED BY <1>1, <1>2, <1>3, <1>4, <1>5, <1>6 DEF OnPeople

LEMMA FamiliesOK ==
  ASSUME EditorInv, NEW d \in Devices, OnFamilies(d)
  PROVE  EditorInv'
<1> DEFINE OK(s) == CallsOK(s, AuthorOf[d])
<1>0. /\ OK(<<>>) /\ \A s, t : OK(s) /\ OK(t) => OK(s \o t)
      /\ \A who, k : k \in Nat => OK(PersonCalls(view[d], who, k))
      /\ \A k \in Nat : NewPerson(k) \in AnchorId
      /\ \A x \in AnchorId : OwnSet({x}, AuthorOf[d])
  BY Building
<1>1. PICK fam \in view[d].unions :
        \/ \E child \in Someone(Form(PersonFields)) : addChild(d, fam, child)
        \/ removeMarriage(d, fam)
        \/ \E child \in fam.children : unlinkChild(d, fam, child)
        \/ \E spouse \in fam.parents : unlinkSpouse(d, fam, spouse)
        \/ \E spouse \in AnchorId : linkSpouse(d, fam, spouse)
        \/ \E facts \in Form(FactFields) : setFamilyFacts(d, fam, facts)
  BY DEF OnFamilies
<1>2. /\ IsFiniteSet(fam.parents) /\ IsFiniteSet(fam.children)
      /\ fam.marriage = None \/ fam.marriage \in AnchorId
  BY DEF EditorInv, DeviceOK, ViewOK
<1>3. \A x : IsFiniteSet({x})
  BY FS_Singleton
<1>4. /\ \A children, parents : IsFiniteSet(children) /\ IsFiniteSet(parents)
                => OK(CallParents(children, parents))
      /\ \A eid \in AnchorId : \A spouses : IsFiniteSet(spouses) => OK(CallMarriage(eid, spouses))
      /\ \A eid, facts : OK(CallFacts(eid, facts))
  BY FamilyCalls
<1>5. /\ \A children, parents : OK(CallUnparent(children, parents))
      /\ \A couple : OK(CallUnpair(couple)) /\ \A spouse : OK(CallLeave(spouse))
  BY SimpleCalls
<1>6. \A target, pair : OK(CallPartner(target, pair))
  BY SimpleCalls
<1>7. \A x \in AnchorId : OK(CallForget({x}))
  BY <1>0, ForgetAndFrame
<1>8. \A calls : OK(calls) /\ Edit(d, calls) => EditorInv'
  BY EditOK
<1> HIDE DEF OK
<1>9. ASSUME NEW child, addChild(d, fam, child) PROVE EditorInv'
  <2>1. OK(PersonCalls(view[d], child, 0)) /\ OK(CallParents({PersonId(child, 0)}, fam.parents))
    BY <1>0, <1>2, <1>3, <1>4
  <2> QED BY <1>0, <1>8, <1>9, <2>1 DEF addChild
<1>10. ASSUME removeMarriage(d, fam) PROVE EditorInv'
  <2> DEFINE last == IF fam.marriage = None THEN <<>> ELSE CallForget({fam.marriage})
  <2>1. OK(last)
    BY <1>0, <1>2, <1>7
  <2>2. Edit(d, CallUnpair(fam.parents) \o CallUnparent(fam.children, fam.parents) \o last)
    BY <1>10 DEF removeMarriage
  <2> HIDE DEF last
  <2> QED BY <1>0, <1>5, <1>8, <2>1, <2>2
<1>11. ASSUME NEW child, unlinkChild(d, fam, child) PROVE EditorInv'
  BY <1>5, <1>8, <1>11 DEF unlinkChild
<1>12. ASSUME NEW spouse, unlinkSpouse(d, fam, spouse) PROVE EditorInv'
  BY <1>0, <1>5, <1>8, <1>12 DEF unlinkSpouse
<1>13. ASSUME NEW spouse, linkSpouse(d, fam, spouse) PROVE EditorInv'
  <2> DEFINE other == Least(fam.parents)
  <2>1. OK(CallPartner(other, {other, spouse})) /\ OK(CallParents(fam.children, {spouse}))
    BY <1>2, <1>3, <1>4, <1>6
  <2>2. Edit(d, CallPartner(other, {other, spouse}) \o CallParents(fam.children, {spouse}))
    BY <1>13 DEF linkSpouse
  <2> HIDE DEF other
  <2> QED BY <1>0, <1>8, <2>1, <2>2
<1>14. ASSUME NEW facts, setFamilyFacts(d, fam, facts) PROVE EditorInv'
  <2> DEFINE eid == IF fam.marriage = None THEN NewPerson(2) ELSE fam.marriage
             first == IF fam.marriage = None THEN CallMarriage(eid, fam.parents) ELSE <<>>
  <2>1. eid \in AnchorId
    BY <1>0, <1>2
  <2>2. OK(first)
    BY <1>0, <1>2, <1>4, <2>1
  <2>3. Edit(d, first \o CallFacts(eid, facts))
    BY <1>14 DEF setFamilyFacts
  <2> HIDE DEF eid, first
  <2> QED BY <1>0, <1>4, <1>8, <2>2, <2>3
<1> QED BY <1>1, <1>9, <1>10, <1>11, <1>12, <1>13, <1>14

LEMMA MediaOK ==
  ASSUME EditorInv, NEW d \in Devices, OnMedia(d)
  PROVE  EditorInv'
<1> DEFINE OK(s) == CallsOK(s, AuthorOf[d])
<1>1. \A calls : OK(calls) /\ (Edit(d, calls) \/ Unframed(d, calls)) => EditorInv'
  BY EditOK
<1>2. \A k : CallOK(k, AuthorOf[d]) => OK(<<k>>)
  BY CallsOne
<1>3. \A subject : \A link \in LinksOf(d, subject) : Own(link, AuthorOf[d])
  <2> SUFFICES ASSUME NEW subject, NEW link \in LinksOf(d, subject) PROVE Own(link, AuthorOf[d])
    OBVIOUS
  <2>1. Engine(tree[d], AuthorOf[d]) /\ Author(d) = AuthorOf[d]
    BY DEF EditorInv, DeviceOK, Engine, Author
  <2>2. Items(Live(tree[d]))
    BY <2>1, LiveItems
  <2>3. LinksOf(d, subject) \subseteq {c \in Mine(Live(tree[d]), AuthorOf[d]) : IsClaim(c)}
    BY <2>1 DEF LinksOf, LiveMine
  <2> QED BY <2>2, <2>3, MineIsOwn DEF OwnSet
<1> HIDE DEF OK
<1>4. ASSUME NEW subject, NEW hash, NEW role, attachMedia(d, subject, hash, role) PROVE EditorInv'
  <2>1. \A v : OK(CallAssert(subject, "media_link", v))
    BY SimpleCalls DEF OK, Naming
  <2> QED BY <1>1, <1>4, <2>1 DEF attachMedia
<1>5. ASSUME NEW subject, NEW link, setPortrait(d, subject, link) PROVE EditorInv'
  <2> DEFINE k == [do |-> "portrait", target |-> subject, link |-> link]
  <2>1. CallOK(k, AuthorOf[d])
    BY DEF CallOK
  <2>2. Edit(d, <<k>>)
    BY <1>5 DEF setPortrait
  <2> HIDE DEF k
  <2> QED BY <1>1, <1>2, <2>1, <2>2
<1>6. ASSUME NEW subject, NEW link \in LinksOf(d, subject), detachMedia(d, subject, link)
      PROVE  EditorInv'
  <2> DEFINE k == [do |-> "drop", id |-> link]
  <2>1. CallOK(k, AuthorOf[d])
    BY <1>3 DEF CallOK
  <2>2. Edit(d, <<k>>)
    BY <1>6 DEF detachMedia
  <2> HIDE DEF k
  <2> QED BY <1>1, <1>2, <2>1, <2>2
<1>7. ASSUME NEW subject, NEW link \in LinksOf(d, subject), NEW crop, setCrop(d, subject, link, crop)
      PROVE  EditorInv'
  <2> DEFINE k == [do |-> "edit", prior |-> link, target |-> subject,
                   predicate |-> "media_link", value |-> [link.value EXCEPT !.crop = crop]]
  <2>1. k.do = "edit" /\ k.prior = link /\ k.predicate = "media_link"
    BY Zenon
  <2>2. Unframed(d, <<k>>)
    BY <1>7, Zenon DEF setCrop
  <2> HIDE DEF k
  <2>3. CallOK(k, AuthorOf[d])
    BY <1>3, <2>1 DEF CallOK, Naming
  <2> QED BY <1>1, <1>2, <2>2, <2>3
<1> QED BY <1>4, <1>5, <1>6, <1>7 DEF OnMedia

LEMMA UndoOK ==
  ASSUME EditorInv, NEW d \in Devices, UndoEdit(d) \/ RedoEdit(d)
  PROVE  EditorInv'
<1>0. FramesOK(undo[d], AuthorOf[d]) /\ FramesOK(redo[d], AuthorOf[d])
  BY DEF EditorInv, DeviceOK
<1>1. CASE UndoEdit(d)
  <2>1. FrameOK(Head(undo[d]), AuthorOf[d]) /\ FramesOK(Tail(undo[d]), AuthorOf[d])
    BY <1>0, <1>1, FramesHead DEF UndoEdit
  <2>2. CallsOK(CallFrame(Head(undo[d])), AuthorOf[d])
    BY <2>1, ForgetAndFrame DEF FrameOK
  <2>3. PICK inverse, goal : Start(d, 0, CallFrame(Head(undo[d])), inverse, goal)
    BY <1>1 DEF UndoEdit
  <2>4. /\ OnDevices(undo)' /\ OnDevices(redo)' /\ undo'[d] = Tail(undo[d]) /\ redo' = redo
        /\ \A e \in Devices : e # d => undo'[e] = undo[e]
    BY <1>1 DEF UndoEdit, EditorInv, OnDevices
  <2> QED BY <1>0, <2>1, <2>2, <2>3, <2>4, StartOK
<1>2. CASE RedoEdit(d)
  <2>1. FrameOK(Head(redo[d]), AuthorOf[d]) /\ FramesOK(Tail(redo[d]), AuthorOf[d])
    BY <1>0, <1>2, FramesHead DEF RedoEdit
  <2>2. CallsOK(CallFrame(Head(redo[d])), AuthorOf[d])
    BY <2>1, ForgetAndFrame DEF FrameOK
  <2>3. PICK inverse, goal : Start(d, 0, CallFrame(Head(redo[d])), inverse, goal)
    BY <1>2 DEF RedoEdit
  <2>4. /\ OnDevices(undo)' /\ OnDevices(redo)' /\ redo'[d] = Tail(redo[d]) /\ undo' = undo
        /\ \A e \in Devices : e # d => redo'[e] = redo[e]
    BY <1>2 DEF RedoEdit, EditorInv, OnDevices
  <2> QED BY <1>0, <2>1, <2>2, <2>3, <2>4, StartOK
<1> QED BY <1>1, <1>2

-----------------------------------------------------------------------------
(* Calls, the commit, and what follows it.                                 *)

LEMMA NotIdle == Idle.stage # "calling" /\ Idle.stage # "committed"
  BY DEF Idle

\* A call keeps the invariant, and it spares the peers' claims.
LEMMA CallStepOK ==
  ASSUME EditorInv, NEW d \in Devices, Call(d)
  PROVE  EditorInv' /\ Spares(tree[d], tree'[d], AuthorOf[d])
<1>0. /\ Engine(tree[d], AuthorOf[d]) /\ Author(d) = AuthorOf[d] /\ TaskOK(task[d], AuthorOf[d])
  BY DEF EditorInv, DeviceOK, Engine, Author
<1>1. /\ task[d].calls # <<>> /\ task' = [task EXCEPT ![d].calls = Tail(@)]
      /\ UNCHANGED <<shared, view, stacks, fresh, now, edits>>
  BY DEF Call
<1> DEFINE M == Mints(Head(task[d].calls), Live(tree[d]), AuthorOf[d], removeOpId[d])
<1>2. tree' = [tree EXCEPT ![d] = After(tree[d], M)]
  BY <1>0 DEF Call
<1>3. task[d] # Idle
  BY NotIdle DEF Call
<1>4. /\ DOMAIN task[d] = TaskFields /\ task[d].stage \in {"calling", "committed"}
      /\ CallsOK(task[d].calls, AuthorOf[d]) /\ Records(task[d].before)
  BY <1>0, <1>3 DEF TaskOK
<1>5. CallOK(Head(task[d].calls), AuthorOf[d]) /\ CallsOK(Tail(task[d].calls), AuthorOf[d])
  BY <1>1, <1>4, CallsHead
<1>6. MintsOK(M, AuthorOf[d])
  BY <1>0, <1>5, LiveItems, MintsOfCall DEF Call
<1>7. Engine(After(tree[d], M), AuthorOf[d]) /\ Spares(tree[d], After(tree[d], M), AuthorOf[d])
  BY <1>0, <1>6, AfterSpares
<1> HIDE DEF M
<1>8. OnDevices(tree)' /\ tree'[d] = After(tree[d], M) /\ \A e \in Devices : e # d => tree'[e] = tree[e]
  BY <1>2 DEF EditorInv, OnDevices
<1>9. OnDevices(task)' /\ \A e \in Devices : e # d => task'[e] = task[e]
  BY <1>1 DEF EditorInv, OnDevices
<1>10. task'[d] = [task[d] EXCEPT !.calls = Tail(task[d].calls)]
  BY <1>1 DEF EditorInv, OnDevices
<1>11. TaskOK(task'[d], AuthorOf[d])
  BY <1>4, <1>5, <1>10 DEF TaskOK, TaskFields
<1>12. UNCHANGED <<log, got, snapshot, view, undo, redo, fresh, now>>
  BY <1>1 DEF shared, stacks
<1>13. OnDevices(got)' /\ OnDevices(view)' /\ OnDevices(undo)' /\ OnDevices(redo)'
  BY <1>12 DEF EditorInv, OnDevices
<1>14. DeviceOK(AuthorOf[d], tree'[d], view'[d], task'[d], undo'[d], redo'[d])
  BY <1>7, <1>8, <1>11, <1>12 DEF EditorInv, DeviceOK
<1>15. EditorInv'
  BY <1>8, <1>9, <1>12, <1>13, <1>14, OneDevice DEF EditorInv
<1> QED BY <1>7, <1>8, <1>15

LEMMA ThrowsStepOK ==
  ASSUME EditorInv, NEW d \in Devices, CallThrows(d)
  PROVE  EditorInv'
<1>1. UNCHANGED <<tree, log, got, snapshot, view, undo, redo, fresh, now>>
  BY DEF CallThrows, engine, shared, stacks
<1>2. OnDevices(task)' /\ task'[d] = Idle /\ \A e \in Devices : e # d => task'[e] = task[e]
  BY DEF CallThrows, EditorInv, OnDevices
<1>3. /\ OnDevices(tree)' /\ OnDevices(got)' /\ OnDevices(view)' /\ OnDevices(undo)'
      /\ OnDevices(redo)'
  BY <1>1 DEF EditorInv, OnDevices
<1>4. DeviceOK(AuthorOf[d], tree'[d], view'[d], task'[d], undo'[d], redo'[d])
  BY <1>1, <1>2 DEF EditorInv, DeviceOK, TaskOK
<1> QED BY <1>1, <1>2, <1>3, <1>4, OneDevice DEF EditorInv

\* A commit changes nothing that is live.
LEMMA CommitStepOK ==
  ASSUME EditorInv, NEW d \in Devices, Commit(d)
  PROVE  EditorInv' /\ Live(tree'[d]) = Live(tree[d])
<1>0. /\ Engine(tree[d], AuthorOf[d]) /\ TaskOK(task[d], AuthorOf[d])
  BY DEF EditorInv, DeviceOK
<1> DEFINE batch == [from |-> d, n |-> Cardinality(BatchesOf(d)) + 1,
                     items |-> tree[d].pending, by |-> Author(d)]
           new == IF tree[d].pending = {} THEN {} ELSE {batch}
<1>1. log' = log \cup new /\ got' = [got EXCEPT ![d] = @ \cup new]
  BY DEF Commit
<1>2. Batches(new)
  <2>1. batch.items = tree[d].pending
    OBVIOUS
  <2> HIDE DEF batch
  <2> QED BY <1>0, <2>1, FS_EmptySet, FS_Singleton DEF Batches, Engine
<1> HIDE DEF new
<1>3. /\ tree' = [tree EXCEPT ![d] = Flushed(@)] /\ task' = [task EXCEPT ![d].stage = "committed"]
      /\ UNCHANGED <<removeOpId, snapshot, checkpoints, view, stacks, fresh, now, edits>>
  BY DEF Commit
<1>4. task[d] # Idle
  BY NotIdle DEF Commit
<1>5. /\ DOMAIN task[d] = TaskFields /\ CallsOK(task[d].calls, AuthorOf[d])
      /\ Records(task[d].before)
  BY <1>0, <1>4 DEF TaskOK
<1>6. Batches(log')
  BY <1>1, <1>2, FS_Union DEF Batches, EditorInv
<1>7. OnDevices(got)' /\ \A e \in Devices : got'[e] \subseteq log'
  BY <1>1 DEF EditorInv, OnDevices
<1>8. OnDevices(tree)' /\ tree'[d] = Flushed(tree[d]) /\ \A e \in Devices : e # d => tree'[e] = tree[e]
  BY <1>3 DEF EditorInv, OnDevices
<1>9. OnDevices(task)' /\ \A e \in Devices : e # d => task'[e] = task[e]
  BY <1>3 DEF EditorInv, OnDevices
<1>10. task'[d] = [task[d] EXCEPT !.stage = "committed"]
  BY <1>3 DEF EditorInv, OnDevices
<1>11. TaskOK(task'[d], AuthorOf[d])
  BY <1>5, <1>10 DEF TaskOK, TaskFields
<1>12. UNCHANGED <<snapshot, view, undo, redo, fresh, now>>
  BY <1>3 DEF stacks
<1>13. OnDevices(view)' /\ OnDevices(undo)' /\ OnDevices(redo)'
  BY <1>12 DEF EditorInv, OnDevices
<1>14. Engine(Flushed(tree[d]), AuthorOf[d]) /\ Live(Flushed(tree[d])) = Live(tree[d])
  BY <1>0, FlushEngine
<1>15. DeviceOK(AuthorOf[d], tree'[d], view'[d], task'[d], undo'[d], redo'[d])
  BY <1>8, <1>11, <1>12, <1>14 DEF EditorInv, DeviceOK
<1>16. Items(snapshot'.live) /\ snapshot'.covers \subseteq log'
  BY <1>1, <1>12 DEF EditorInv
<1>17. EditorInv'
  BY <1>6, <1>7, <1>8, <1>9, <1>12, <1>13, <1>15, <1>16, OneDevice DEF EditorInv
<1> QED BY <1>8, <1>14, <1>17

\* What a commit has added is its author's, what it has taken away was there.
LEMMA FrameIsOK ==
  ASSUME NEW author, NEW L, Items(L), \A r \in L : ARecord(r), NEW before, Records(before)
  PROVE  FrameOK(Frame(before, Mine(L, author)), author)
<1> DEFINE after == Mine(L, author)
           f == [r \in after |-> IdOf(r)]
<1>1. IsFiniteSet(after)
  BY FS_Subset DEF Mine, Items
<1>2. IsFiniteSet({IdOf(r) : r \in after})
  <2>1. \A y \in {IdOf(r) : r \in after} : \E r \in after : y = f[r]
    OBVIOUS
  <2> HIDE DEF after, f
  <2> QED BY <1>1, <2>1, ImageIsFinite, Zenon
<1>3. \A r \in after : Own(IdOf(r), author)
  <2>1. ASSUME NEW r \in after PROVE Own(IdOf(r), author)
    <3>1. ARecord(r) /\ r.by = author
      BY DEF Mine
    <3> QED BY <3>1, Kinds DEF ARecord, AnAnchor, Own
  <2> QED BY <2>1
<1>4. /\ Frame(before, after).added \subseteq {IdOf(r) : r \in after}
      /\ Frame(before, after).removed \subseteq before
  BY DEF Frame
<1>5. IsFiniteSet(Frame(before, after).added) /\ Records(Frame(before, after).removed)
  BY <1>2, <1>4, FS_Subset DEF Records
<1> QED BY <1>3, <1>4, <1>5 DEF FrameOK, OwnSet

LEMMA RecordStepOK ==
  ASSUME EditorInv, NEW d \in Devices, Record(d)
  PROVE  EditorInv'
<1>0. /\ Engine(tree[d], AuthorOf[d]) /\ Author(d) = AuthorOf[d] /\ TaskOK(task[d], AuthorOf[d])
      /\ FramesOK(undo[d], AuthorOf[d]) /\ FramesOK(redo[d], AuthorOf[d])
  BY DEF EditorInv, DeviceOK, Engine, Author
<1>1. Items(Live(tree[d])) /\ (\A r \in Live(tree[d]) : ARecord(r)) /\ ViewOK(Project(Live(tree[d])))
  BY <1>0, LiveItems, ProjectOK DEF Items
<1>2. Records(task[d].before)
  <2>1. task[d] # Idle
    BY NotIdle DEF Record
  <2> QED BY <1>0, <2>1 DEF TaskOK
<1> DEFINE frame == Frame(task[d].before, Mine(Live(tree[d]), AuthorOf[d]))
<1>3. FrameOK(frame, AuthorOf[d])
  BY <1>1, <1>2, FrameIsOK
<1> HIDE DEF frame
<1>4. /\ OnDevices(undo)' /\ undo'[d] \in {undo[d], <<frame>> \o undo[d]}
      /\ \A e \in Devices : e # d => undo'[e] = undo[e]
  BY <1>0 DEF Record, EditorInv, OnDevices, frame
<1>5. /\ OnDevices(redo)' /\ redo'[d] \in {redo[d], <<frame>> \o redo[d], <<>>}
      /\ \A e \in Devices : e # d => redo'[e] = redo[e]
  BY <1>0 DEF Record, EditorInv, OnDevices, frame
<1>6. FramesOK(undo'[d], AuthorOf[d]) /\ FramesOK(redo'[d], AuthorOf[d])
  <2>1. /\ FramesOK(<<frame>> \o undo[d], AuthorOf[d])
        /\ FramesOK(<<frame>> \o redo[d], AuthorOf[d])
    BY <1>0, <1>3, FramesPush, Zenon
  <2>2. FramesOK(<<>>, AuthorOf[d])
    BY FramesNone, Zenon
  <2> QED BY <1>0, <1>4, <1>5, <2>1, <2>2, Zenon
<1>7. /\ OnDevices(task)' /\ task'[d] = Idle /\ \A e \in Devices : e # d => task'[e] = task[e]
      /\ OnDevices(view)' /\ view'[d] = Project(Live(tree[d]))
      /\ \A e \in Devices : e # d => view'[e] = view[e]
  BY DEF Record, Materialized, EditorInv, OnDevices
<1>8. UNCHANGED <<tree, log, got, snapshot, fresh, now>>
  BY DEF Record, engine, shared
<1>9. OnDevices(tree)' /\ OnDevices(got)'
  BY <1>8 DEF EditorInv, OnDevices
<1>10. DeviceOK(AuthorOf[d], tree'[d], view'[d], task'[d], undo'[d], redo'[d])
  BY <1>0, <1>1, <1>6, <1>7, <1>8 DEF DeviceOK, TaskOK
<1> QED BY <1>4, <1>5, <1>7, <1>8, <1>9, <1>10, OneDevice DEF EditorInv

-----------------------------------------------------------------------------
(* What happens around the editor.                                         *)

LEMMA ReceiveOK ==
  ASSUME EditorInv, NEW d \in Devices, NEW b \in log, Receive(d, b)
  PROVE  EditorInv'
<1>0. Engine(tree[d], AuthorOf[d]) /\ Items(b.items)
  BY DEF EditorInv, DeviceOK, Batches
<1>1. Engine(Merge(tree[d], b.items, b.by), AuthorOf[d])
  BY <1>0, MergeEngine
<1>2. /\ OnDevices(tree)' /\ tree'[d] = Merge(tree[d], b.items, b.by)
      /\ \A e \in Devices : e # d => tree'[e] = tree[e]
  BY DEF Receive, EditorInv, OnDevices
<1>3. UNCHANGED <<log, snapshot, view, task, undo, redo, fresh, now>>
  BY DEF Receive, stacks
<1>4. OnDevices(got)' /\ \A e \in Devices : got'[e] \subseteq log'
  BY <1>3 DEF Receive, EditorInv, OnDevices
<1>5. OnDevices(view)' /\ OnDevices(task)' /\ OnDevices(undo)' /\ OnDevices(redo)'
  BY <1>3 DEF EditorInv, OnDevices
<1>6. DeviceOK(AuthorOf[d], tree'[d], view'[d], task'[d], undo'[d], redo'[d])
  BY <1>1, <1>2, <1>3 DEF EditorInv, DeviceOK
<1> QED BY <1>2, <1>3, <1>4, <1>5, <1>6, OneDevice DEF EditorInv

\* What a device shows of its engine is a view that operations may start from.
LEMMA ShownIsOK ==
  ASSUME NEW author, NEW t, Engine(t, author)
  PROVE  ViewOK(Project(Live(t)))
  BY LiveItems, ProjectOK DEF Items

LEMMA HydrateOK ==
  ASSUME EditorInv, NEW d \in Devices, Hydrate(d)
  PROVE  EditorInv'
<1>1. /\ OnDevices(view)' /\ view'[d] = Project(Live(tree[d]))
      /\ \A e \in Devices : e # d => view'[e] = view[e]
  BY DEF Hydrate, Materialized, EditorInv, OnDevices
<1>2. UNCHANGED <<tree, log, got, snapshot, task, undo, redo, fresh, now>>
  BY DEF Hydrate, engine, shared, stacks
<1>3. /\ OnDevices(tree)' /\ OnDevices(got)' /\ OnDevices(task)' /\ OnDevices(undo)'
      /\ OnDevices(redo)'
  BY <1>2 DEF EditorInv, OnDevices
<1>4. DeviceOK(AuthorOf[d], tree'[d], view'[d], task'[d], undo'[d], redo'[d])
  BY <1>1, <1>2, ShownIsOK DEF EditorInv, DeviceOK
<1> QED BY <1>1, <1>2, <1>3, <1>4, OneDevice DEF EditorInv

LEMMA CheckpointOK ==
  ASSUME EditorInv, NEW d \in Devices, Checkpoint(d)
  PROVE  EditorInv'
<1>1. snapshot'.live = Live(tree[d]) /\ snapshot'.covers = got[d]
  BY DEF Checkpoint, Snapshot
<1>2. Items(snapshot'.live)
  BY <1>1, LiveItems DEF EditorInv, DeviceOK
<1>3. UNCHANGED <<tree, log, got, view, task, undo, redo, fresh, now>>
  BY DEF Checkpoint, engine, stacks
<1>4. /\ OnDevices(tree)' /\ OnDevices(got)' /\ OnDevices(view)' /\ OnDevices(task)'
      /\ OnDevices(undo)' /\ OnDevices(redo)'
  BY <1>3 DEF EditorInv, OnDevices
<1> QED BY <1>1, <1>2, <1>3, <1>4 DEF EditorInv

\* Opening from a snapshot and the batches after it gives a well-shaped engine.
LEMMA ReopenOK ==
  ASSUME EditorInv, NEW d \in Devices, Reopen(d)
  PROVE  EditorInv'
<1>0. Engine(tree[d], AuthorOf[d]) /\ Author(d) = AuthorOf[d]
  BY DEF EditorInv, DeviceOK, Engine, Author
<1> DEFINE t == Opened(AuthorOf[d], tree[d].moderators, snapshot, got[d])
<1>1. Engine(t, AuthorOf[d])
  <2>1. Batches(got[d])
    BY FS_Subset DEF EditorInv, Batches
  <2> QED BY <2>1, OpenedEngine DEF EditorInv
<1>2. OnDevices(tree)' /\ tree'[d] = t /\ \A e \in Devices : e # d => tree'[e] = tree[e]
  BY <1>0 DEF Reopen, EditorInv, OnDevices
<1> HIDE DEF t
<1>3. UNCHANGED <<log, snapshot, fresh>> /\ now' = now + 1
  BY DEF Reopen
<1>4. OnDevices(got)' /\ \A e \in Devices : got'[e] \subseteq log'
  BY <1>3 DEF Reopen, EditorInv, OnDevices
<1>5. /\ OnDevices(view)' /\ view'[d] = Project(Live(tree'[d]))
      /\ \A e \in Devices : e # d => view'[e] = view[e]
  BY DEF Reopen, EditorInv, OnDevices
<1>6. /\ OnDevices(task)' /\ OnDevices(undo)' /\ OnDevices(redo)'
      /\ task'[d] = Idle /\ undo'[d] = <<>> /\ redo'[d] = <<>>
      /\ \A e \in Devices : e # d => task'[e] = task[e] /\ undo'[e] = undo[e] /\ redo'[e] = redo[e]
  BY DEF Reopen, EditorInv, OnDevices
<1>7. DeviceOK(AuthorOf[d], tree'[d], view'[d], task'[d], undo'[d], redo'[d])
  <2>1. FramesOK(<<>>, AuthorOf[d])
    BY FramesNone, Zenon
  <2>2. ViewOK(Project(Live(t)))
    BY <1>1, ShownIsOK
  <2> QED BY <1>1, <1>2, <1>5, <1>6, <2>1, <2>2 DEF DeviceOK, TaskOK
<1>8. now' \in Nat /\ fresh' \in Nat
  BY <1>3 DEF EditorInv
<1> QED BY <1>2, <1>3, <1>4, <1>5, <1>6, <1>7, <1>8, OneDevice DEF EditorInv

LEMMA ModeratorsOK ==
  ASSUME EditorInv, NEW d \in Devices, NEW dids, setModerators(d, dids)
  PROVE  EditorInv'
<1>1. Engine(SetModerators(tree[d], dids), AuthorOf[d])
  BY FlushEngine DEF EditorInv, DeviceOK
<1>2. /\ OnDevices(tree)' /\ tree'[d] = SetModerators(tree[d], dids)
      /\ \A e \in Devices : e # d => tree'[e] = tree[e]
  BY DEF setModerators, EditorInv, OnDevices
<1>3. /\ OnDevices(view)' /\ view'[d] = Project(Live(tree'[d]))
      /\ \A e \in Devices : e # d => view'[e] = view[e]
  BY DEF setModerators, EditorInv, OnDevices
<1>4. UNCHANGED <<log, got, snapshot, task, undo, redo, fresh, now>>
  BY DEF setModerators, shared, stacks
<1>5. OnDevices(got)' /\ OnDevices(task)' /\ OnDevices(undo)' /\ OnDevices(redo)'
  BY <1>4 DEF EditorInv, OnDevices
<1>6. DeviceOK(AuthorOf[d], tree'[d], view'[d], task'[d], undo'[d], redo'[d])
  <2>1. ViewOK(Project(Live(tree'[d])))
    BY <1>1, <1>2, ShownIsOK
  <2> QED BY <1>1, <1>2, <1>3, <1>4, <2>1 DEF EditorInv, DeviceOK
<1> QED BY <1>2, <1>3, <1>4, <1>5, <1>6, OneDevice DEF EditorInv

-----------------------------------------------------------------------------
(* Every step, and what it spares.                                         *)

LEMMA NextOK ==
  ASSUME EditorInv, [Next]_vars
  PROVE  EditorInv'
<1>1. CASE UNCHANGED vars
  BY <1>1 DEF EditorInv, OnDevices, vars, engine, shared, stacks
<1>2. ASSUME NEW d \in Devices, Operation(d) PROVE EditorInv'
  BY <1>2, PeopleOK, FamiliesOK, MediaOK, UndoOK DEF Operation
<1>3. ASSUME NEW d \in Devices, Mechanics(d) PROVE EditorInv'
  BY <1>3, CallStepOK, ThrowsStepOK, CommitStepOK, RecordStepOK, ReceiveOK, HydrateOK DEF Mechanics
<1>4. ASSUME NEW d \in Devices, Upkeep(d) PROVE EditorInv'
  BY <1>4, CheckpointOK, ReopenOK DEF Upkeep
<1> QED BY <1>1, <1>2, <1>3, <1>4, ModeratorsOK DEF Next

\* What a step of the editor spares.
Spared == \A d \in Devices : Stepping(d) => Spares(tree[d], tree'[d], AuthorOf[d])

\* Only calls and commits touch the engine of a device in the middle of an operation.
LEMMA EditorSpares ==
  ASSUME EditorInv, [Next]_vars
  PROVE  Spared
<1> SUFFICES ASSUME NEW e \in Devices, Stepping(e) PROVE Spares(tree[e], tree'[e], AuthorOf[e])
  BY DEF Spared
<1>1. task'[e] # task[e] /\ now' = now /\ now \in Nat
  BY DEF Stepping, EditorInv
<1>2. tree' = tree => Spares(tree[e], tree'[e], AuthorOf[e])
  BY DEF Spares
<1>3. CASE UNCHANGED vars
  BY <1>1, <1>3 DEF vars
<1>4. ASSUME NEW d \in Devices, Operation(d) PROVE tree' = tree
  <2>1. \A n, calls, inverse, goal : Start(d, n, calls, inverse, goal) => tree' = tree
    BY DEF Start, engine
  <2>2. \A calls : Edit(d, calls) \/ Unframed(d, calls) => tree' = tree
    BY <2>1 DEF Edit, Unframed
  <2>3. OnPeople(d) => tree' = tree
    BY <2>1, <2>2 DEF OnPeople, createPerson, updatePerson, deletePerson, addMarriage, addParents, seed
  <2>4. OnFamilies(d) => tree' = tree
    BY <2>2 DEF OnFamilies, addChild, removeMarriage, unlinkChild, unlinkSpouse, linkSpouse,
                setFamilyFacts
  <2>5. OnMedia(d) => tree' = tree
    BY <2>2 DEF OnMedia, attachMedia, setPortrait, detachMedia, setCrop
  <2>6. UndoEdit(d) \/ RedoEdit(d) => tree' = tree
    BY <2>1 DEF UndoEdit, RedoEdit
  <2> QED BY <1>4, <2>3, <2>4, <2>5, <2>6 DEF Operation
<1>5. ASSUME NEW d \in Devices, Call(d) \/ Commit(d)
      PROVE  Spares(tree[e], tree'[e], AuthorOf[e])
  <2>1. task'[e] # task[e] => e = d
    BY <1>5 DEF Call, Commit, EditorInv, OnDevices
  <2>2. CASE Call(d)
    BY <1>1, <2>1, <2>2, CallStepOK
  <2>3. CASE Commit(d)
    BY <1>1, <2>1, <2>3, CommitStepOK DEF Spares
  <2> QED BY <1>5, <2>2, <2>3
<1>6. ASSUME NEW d \in Devices, CallThrows(d) \/ Record(d) \/ Hydrate(d) \/ Checkpoint(d)
      PROVE  tree' = tree
  BY <1>6 DEF CallThrows, Record, Hydrate, Checkpoint, engine
<1>7. ASSUME NEW d \in Devices, NEW b, Receive(d, b) PROVE FALSE
  BY <1>1, <1>7 DEF Receive
<1>8. ASSUME NEW d \in Devices, NEW dids, setModerators(d, dids) PROVE FALSE
  BY <1>1, <1>8 DEF setModerators
<1>9. ASSUME NEW d \in Devices, Reopen(d) PROVE FALSE
  BY <1>1, <1>9 DEF Reopen
<1>10. ASSUME NEW d \in Devices, Mechanics(d) \/ Upkeep(d)
       PROVE  Spares(tree[e], tree'[e], AuthorOf[e])
  BY <1>2, <1>5, <1>6, <1>7, <1>9, <1>10 DEF Mechanics, Upkeep
<1> QED BY <1>2, <1>3, <1>4, <1>8, <1>10 DEF Next

\* Over any records imported and with anybody's moderators, no operation of the
\* editor, undo and redo included, takes away a claim of another author: calls
\* mint removals and replacements only of anchors and of the author's own claims
\* (liveMine, deletePerson, removeMarriage, applyFrame).
THEOREM PeersClaimsStay ==
  ASSUME NEW CONSTANT items, Importable(items), NEW CONSTANT author, NEW CONSTANT moderators
  PROVE  Spec(items, author, moderators) => PeersClaimsSurvive
<1>1. Init(items, author, moderators) => EditorInv
  BY InitOK
<1>2. EditorInv /\ [Next]_vars => EditorInv'
  BY NextOK
<1>3. EditorInv /\ [Next]_vars =>
        [\A d \in Devices : Stepping(d) =>
           \A c \in Live(tree[d]) : IsClaim(c) /\ c.by # Author(d) => c \in Live(tree'[d])]_vars
  <2> SUFFICES ASSUME EditorInv, [Next]_vars
               PROVE  \A d \in Devices : Stepping(d) =>
                        \A c \in Live(tree[d]) :
                           IsClaim(c) /\ c.by # Author(d) => c \in Live(tree'[d])
    OBVIOUS
  <2>1. Spared
    BY EditorSpares
  <2>2. \A d \in Devices : Author(d) = AuthorOf[d]
    BY DEF EditorInv, DeviceOK, Engine, Author
  <2> QED BY <2>1, <2>2 DEF Spared, Spares
<1> QED BY <1>1, <1>2, <1>3, PTL DEF Spec, PeersClaimsSurvive

-----------------------------------------------------------------------------
(* The ids of the anchors that calls assert.                               *)

\* s asserts anchors of I only, each once.
Uses(s, I) ==
  /\ \E S : s \in Seq(S)
  /\ \A i \in DOMAIN s : s[i].do = "anchor" => s[i].id \in I
  /\ \A i, j \in DOMAIN s : s[i].do = "anchor" /\ s[j].do = "anchor" /\ s[i].id = s[j].id => i = j

LEMMA UsesNone == ASSUME NEW I PROVE Uses(<<>>, I)
<1> DEFINE S == {}
           s == <<>>
<1>1. s \in Seq(S) /\ DOMAIN s = {}
  OBVIOUS
<1>2. Uses(s, I)
  <2> HIDE DEF S, s
  <2> QED BY <1>1 DEF Uses
<1> QED BY <1>2

LEMMA UsesOne ==
  ASSUME NEW k, NEW I, k.do = "anchor" => k.id \in I
  PROVE  Uses(<<k>>, I)
<1> DEFINE S == {k}
           s == <<k>>
<1>1. s \in Seq(S) /\ DOMAIN s = {1} /\ s[1] = k
  OBVIOUS
<1>2. Uses(s, I)
  <2> HIDE DEF S, s
  <2> QED BY <1>1 DEF Uses
<1> QED BY <1>2

\* A loop that asserts no anchor.
LEMMA UsesLoop ==
  ASSUME NEW n \in Nat, NEW f, \A i \in 1..n : f[i].do # "anchor"
  PROVE  Uses([i \in 1..n |-> f[i]], {})
<1> DEFINE T == {f[i] : i \in 1..n}
           s == [i \in 1..n |-> f[i]]
<1>1. s \in Seq(T) /\ DOMAIN s = 1..n /\ \A i \in 1..n : s[i] = f[i]
  OBVIOUS
<1>2. Uses(s, {})
  <2> HIDE DEF T, s
  <2> QED BY <1>1 DEF Uses
<1> QED BY <1>2

LEMMA UsesThen ==
  ASSUME NEW s, NEW I, Uses(s, I), NEW t, NEW J, Uses(t, J), I \cap J = {},
         NEW K, I \subseteq K, J \subseteq K
  PROVE  Uses(s \o t, K)
<1>1. PICK S : s \in Seq(S)
  BY DEF Uses
<1>2. PICK T : t \in Seq(T)
  BY DEF Uses
<1> DEFINE p == s \o t
           m == Len(s)
<1>3. s \in Seq(S \cup T) /\ t \in Seq(S \cup T)
  BY <1>1, <1>2
<1>4. p \in Seq(S \cup T)
  BY <1>3
<1>5. /\ m \in Nat /\ Len(t) \in Nat /\ DOMAIN s = 1..m /\ DOMAIN t = 1..Len(t)
      /\ DOMAIN p = 1..(m + Len(t))
      /\ \A i \in DOMAIN p : p[i] = IF i <= m THEN s[i] ELSE t[i - m]
  BY <1>3
<1>6. \A i \in DOMAIN p : \/ i \in DOMAIN s /\ p[i] = s[i]
                          \/ i - m \in DOMAIN t /\ i > m /\ p[i] = t[i - m]
  BY <1>5
<1> HIDE DEF p, m
<1>7. \A i \in DOMAIN p : p[i].do = "anchor" => p[i].id \in K
  BY <1>6 DEF Uses
<1>8. ASSUME NEW i \in DOMAIN p, NEW j \in DOMAIN p, p[i].do = "anchor", p[j].do = "anchor",
             p[i].id = p[j].id
      PROVE  i = j
  <2>1. CASE i \in DOMAIN s /\ p[i] = s[i] /\ j \in DOMAIN s /\ p[j] = s[j]
    BY <1>8, <2>1 DEF Uses
  <2>2. CASE i - m \in DOMAIN t /\ p[i] = t[i - m] /\ j - m \in DOMAIN t /\ p[j] = t[j - m]
    <3>1. i - m = j - m
      BY <1>8, <2>2 DEF Uses
    <3> QED BY <1>5, <3>1
  <2>3. CASE i \in DOMAIN s /\ p[i] = s[i] /\ j - m \in DOMAIN t /\ p[j] = t[j - m]
    BY <1>8, <2>3 DEF Uses
  <2>4. CASE i - m \in DOMAIN t /\ p[i] = t[i - m] /\ j \in DOMAIN s /\ p[j] = s[j]
    BY <1>8, <2>4 DEF Uses
  <2> QED BY <1>6, <2>1, <2>2, <2>3, <2>4
<1>9. Uses(p, K)
  BY <1>4, <1>7, <1>8 DEF Uses
<1> QED BY <1>9 DEF p

LEMMA UsesTail ==
  ASSUME NEW s, NEW I, Uses(s, I), s # <<>>
  PROVE  /\ Uses(Tail(s), I) /\ AnchorsIn(Tail(s)) \subseteq AnchorsIn(s)
         /\ Head(s).do = "anchor" => Head(s).id \in AnchorsIn(s) \ AnchorsIn(Tail(s))
<1>1. PICK S : s \in Seq(S)
  BY DEF Uses
<1> DEFINE t == Tail(s)
<1>2. /\ t \in Seq(S) /\ Head(s) = s[1] /\ 1 \in DOMAIN s
      /\ \A i \in DOMAIN t : i \in Nat \ {0} /\ i + 1 \in DOMAIN s /\ t[i] = s[i + 1]
  BY <1>1
<1> HIDE DEF t
<1>3. \A i \in DOMAIN t : t[i].do = "anchor" => t[i].id \in I /\ t[i].id \in AnchorsIn(s)
  BY <1>2 DEF Uses, AnchorsIn
<1>4. ASSUME NEW i \in DOMAIN t, NEW j \in DOMAIN t, t[i].do = "anchor", t[j].do = "anchor",
             t[i].id = t[j].id
      PROVE  i = j
  <2>1. i + 1 = j + 1
    BY <1>2, <1>4 DEF Uses
  <2> QED BY <1>2, <2>1
<1>5. ASSUME Head(s).do = "anchor" PROVE Head(s).id \in AnchorsIn(s) \ AnchorsIn(t)
  <2>1. Head(s).id \in AnchorsIn(s)
    BY <1>2, <1>5 DEF AnchorsIn
  <2>2. ASSUME NEW i \in DOMAIN t, t[i].do = "anchor", t[i].id = Head(s).id PROVE FALSE
    <3>1. i + 1 = 1
      BY <1>2, <1>5, <2>2 DEF Uses
    <3> QED BY <1>2, <3>1
  <2> QED BY <2>1, <2>2 DEF AnchorsIn
<1>6. Uses(t, I) /\ AnchorsIn(t) \subseteq AnchorsIn(s)
  BY <1>2, <1>3, <1>4 DEF Uses, AnchorsIn
<1> QED BY <1>5, <1>6 DEF t

\* Of sequences that use different ids, one after the other.
LEMMA UsesJoined ==
  ASSUME NEW n \in Nat, NEW f, NEW I, \A i \in 1..n : Uses(f[i], I[i]),
         \A i, j \in 1..n : i # j => I[i] \cap I[j] = {},
         NEW K, \A i \in 1..n : I[i] \subseteq K
  PROVE  Uses(Sq!FlattenSeq([i \in 1..n |-> f[i]]), K)
<1> DEFINE ss == [i \in 1..n |-> f[i]]
<1>0. Len(ss) = n /\ \A i \in 1..n : ss[i] = f[i]
  OBVIOUS
<1> HIDE DEF ss
<1>1. CASE n = 0
  <2>1. Sq!FlattenSeq(ss) = <<>>
    BY <1>0, <1>1 DEF Sq!FlattenSeq
  <2> QED BY <2>1, UsesNone DEF ss
<1>2. CASE n # 0
  <2> DEFINE h == CHOOSE g : Joins(g, ss, n)
             Upto(m) == UNION {I[i] : i \in 1..m}
             T == {m \in Nat : m + 1 \in 1..n => Uses(h[m + 1], Upto(m + 1))}
  <2>1. Sq!FlattenSeq(ss) = h[n]
    BY <1>0, <1>2, Zenon DEF Sq!FlattenSeq, Joins, Then
  <2>2. Joins(h, ss, n)
    BY JoiningFunctionExists, Zenon
  <2> HIDE DEF h
  <2>3. \A i \in 1..n : h[i] = IF i = 1 THEN ss[i] ELSE Then(h[i - 1], ss[i])
    BY <2>2 DEF Joins
  <2>4. 0 \in T
    <3>1. 1 \in 1..n /\ h[1] = f[1] /\ Upto(1) = I[1]
      BY <1>0, <1>2, <2>3
    <3> HIDE DEF Upto
    <3> QED BY <3>1
  <2>5. ASSUME NEW m \in Nat, m \in T PROVE m + 1 \in T
    <3> SUFFICES ASSUME m + 2 \in 1..n PROVE Uses(h[m + 2], Upto(m + 2))
      BY <2>5
    <3>1. h[m + 2] = h[m + 1] \o f[m + 2]
      <4>1. m + 2 # 1 /\ (m + 2) - 1 = m + 1
        OBVIOUS
      <4>2. h[m + 2] = Then(h[(m + 2) - 1], ss[m + 2])
        BY <2>3, <4>1
      <4> QED BY <1>0, <4>1, <4>2 DEF Then
    <3>2. Uses(h[m + 1], Upto(m + 1)) /\ Uses(f[m + 2], I[m + 2])
      BY <2>5
    <3>3. Upto(m + 1) \cap I[m + 2] = {}
      <4>1. \A i \in 1..(m + 1) : i \in 1..n /\ i # m + 2
        OBVIOUS
      <4> QED BY <4>1
    <3>4. Upto(m + 1) \subseteq Upto(m + 2) /\ I[m + 2] \subseteq Upto(m + 2)
      OBVIOUS
    <3> HIDE DEF Upto
    <3> QED BY <3>1, <3>2, <3>3, <3>4, UsesThen
  <2>6. n - 1 \in T
    <3>1. n - 1 \in Nat
      BY <1>2
    <3> HIDE DEF T
    <3> QED BY <3>1, <2>4, <2>5, NumberInduction
  <2>7. Uses(h[n], Upto(n))
    BY <1>2, <2>6
  <2>8. Upto(n) \subseteq K
    OBVIOUS
  <2>9. Uses(h[n], K)
    <3> HIDE DEF Upto
    <3> QED BY <2>7, <2>8 DEF Uses
  <2> QED BY <2>1, <2>9 DEF ss
<1> QED BY <1>1, <1>2 DEF ss

\* Calls that assert no anchor.
LEMMA UsesNothing ==
  /\ \A target, predicate, value : Uses(CallAssert(target, predicate, value), {})
  /\ \A target, predicate, value : Uses(CallSet(target, predicate, value), {})
  /\ \A target, patch : Uses(CallName(target, patch), {})
  /\ \A target, field, value : Uses(CallCustom(target, field, value), {})
  /\ \A id, place : Uses(CallEventPlace(id, place), {})
  /\ \A children, parents : Uses(CallUnparent(children, parents), {})
  /\ \A couple : Uses(CallUnpair(couple), {})
  /\ \A spouse : Uses(CallLeave(spouse), {})
  /\ \A target, pair : Uses(CallPartner(target, pair), {})
  /\ \A child, parent : Uses(CallParent(child, parent), {})
  /\ \A ids : Uses(CallForget(ids), {})
  /\ \A frame : Uses(CallFrame(frame), {})
  /\ \A patch, field, calls : Uses(calls, {}) => Uses(Given(patch, field, calls), {})
<1>1. \A k : k.do # "anchor" => Uses(<<k>>, {})
  BY UsesOne
<1>2. \A s, t : Uses(s, {}) /\ Uses(t, {}) => Uses(s \o t, {})
  BY UsesThen
<1>3. Uses(<<>>, {})
  BY UsesNone
<1>4. \A target, predicate, value : Asserting(target, predicate, value).do # "anchor"
  BY DEF Asserting
<1>5. \A target, predicate, value : Uses(CallAssert(target, predicate, value), {})
  BY <1>1, <1>4 DEF CallAssert
<1>6. \A target, predicate, value : Uses(CallSet(target, predicate, value), {})
  BY <1>1 DEF CallSet
<1>7. \A id, place : Uses(CallEventPlace(id, place), {})
  <2>1. \A place : Uses(<<[do |-> "place", place |-> place]>>, {})
    BY <1>1
  <2> QED BY <2>1, <1>2, <1>6 DEF CallEventPlace
<1>8. /\ \A target, patch : Uses(CallName(target, patch), {})
      /\ \A target, field, value : Uses(CallCustom(target, field, value), {})
      /\ \A children, parents : Uses(CallUnparent(children, parents), {})
      /\ \A couple : Uses(CallUnpair(couple), {})
      /\ \A spouse : Uses(CallLeave(spouse), {})
  BY <1>1 DEF CallName, CallCustom, CallUnparent, CallUnpair, CallLeave
<1>9. /\ \A target, pair : Uses(CallPartner(target, pair), {})
      /\ \A child, parent : Uses(CallParent(child, parent), {})
  BY <1>5 DEF CallPartner, CallParent
<1>10. \A j, k : j.do # "anchor" /\ k.do # "anchor" => Uses(<<j, k>>, {})
  <2> SUFFICES ASSUME NEW j, NEW k, j.do # "anchor", k.do # "anchor" PROVE Uses(<<j, k>>, {})
    OBVIOUS
  <2> DEFINE S == {j, k}
             s == <<j, k>>
  <2>1. s \in Seq(S) /\ \A i \in DOMAIN s : s[i].do # "anchor"
    OBVIOUS
  <2>2. Uses(s, {})
    <3> HIDE DEF s, S
    <3> QED BY <2>1 DEF Uses
  <2> QED BY <2>2
<1>11. (\A ids : Uses(CallForget(ids), {})) /\ \A frame : Uses(CallFrame(frame), {})
  BY <1>3, <1>10 DEF CallForget, CallFrame
<1>12. \A patch, field, calls : Uses(calls, {}) => Uses(Given(patch, field, calls), {})
  BY <1>3 DEF Given
<1> QED BY <1>5, <1>6, <1>7, <1>8, <1>9, <1>11, <1>12

\* The ids of the k-th new person and of their events.
OwnIds(k) == {NewPerson(k), NewEvent(k, 1), NewEvent(k, 2)}
LEMMA OwnIdsDiffer ==
  ASSUME fresh \in Nat
  PROVE  /\ \A k \in Nat : /\ NewPerson(k) \notin {NewEvent(k, 1), NewEvent(k, 2)}
                           /\ NewEvent(k, 1) # NewEvent(k, 2)
         /\ \A k \in Nat : \A x \in OwnIds(k) :
               x \in AnchorId /\ x.n >= fresh + 3 * k /\ x.n < fresh + 3 * k + 3
         /\ \A k, l \in Nat : k # l => OwnIds(k) \cap OwnIds(l) = {}
<1>1. \A k \in Nat : \A x \in OwnIds(k) :
        x \in AnchorId /\ x.n >= fresh + 3 * k /\ x.n < fresh + 3 * k + 3
  BY DEF OwnIds, NewPerson, NewEvent, AnchorId
<1>2. \A k \in Nat : /\ NewPerson(k).n = fresh + 3 * k /\ NewEvent(k, 1).n = fresh + 3 * k + 1
                     /\ NewEvent(k, 2).n = fresh + 3 * k + 2
  BY DEF NewPerson, NewEvent
<1>3. ASSUME NEW k \in Nat, NEW l \in Nat, k # l, NEW x \in OwnIds(k), x \in OwnIds(l) PROVE FALSE
  <2>1. x.n \in Nat
    BY <1>1 DEF AnchorId
  <2> QED BY <1>1, <1>3, <2>1
<1>4. ASSUME NEW k \in Nat
      PROVE  /\ NewPerson(k) \notin {NewEvent(k, 1), NewEvent(k, 2)}
             /\ NewEvent(k, 1) # NewEvent(k, 2)
  <2> DEFINE a == fresh + 3 * k
  <2>1. /\ a \in Nat /\ NewPerson(k).n = a
        /\ NewEvent(k, 1).n = a + 1 /\ NewEvent(k, 2).n = a + 2
    BY <1>2
  <2> HIDE DEF a
  <2>2. a # a + 1 /\ a # a + 2 /\ a + 1 # a + 2
    BY <2>1
  <2> QED BY <2>1, <2>2
<1> QED BY <1>1, <1>3, <1>4

LEMMA UsesPatch ==
  ASSUME NEW V, NEW pid, NEW patch, fresh \in Nat, NEW k \in Nat
  PROVE  Uses(ApplyPatch(V, pid, patch, k), {NewEvent(k, 1), NewEvent(k, 2)})
<1>1. \A I : Uses(<<>>, I)
  BY UsesNone
<1>2. \A s, t, I : Uses(s, I) /\ Uses(t, {}) => Uses(s \o t, I)
  BY UsesThen
<1>3. ASSUME NEW type, NEW placeKey, NEW new
      PROVE  Uses(PatchEvent(V, pid, patch, type, placeKey, new), {new})
  <2> DEFINE known == EventOf(V, pid, type)
             eid == IF known = None THEN new ELSE known
             head == IF known # None THEN <<>>
                     ELSE CallAnchor(eid, "event") \o CallAssert(eid, "event_type", [type |-> type])
                              \o CallAssert(eid, "participant",
                                            [personId |-> pid, role |-> "principal"])
             dated == Given(patch, type,
                            CallSet(eid, "date", IF patch[type] = None THEN None
                                                 ELSE [edtf |-> patch[type]]))
             placed == Given(patch, placeKey, CallEventPlace(eid, patch[placeKey]))
  <2>1. Uses(head, {new})
    <3>1. CASE known # None
      BY <1>1, <3>1
    <3>2. CASE known = None
      <4>1. Uses(CallAnchor(new, "event"), {new})
        BY UsesOne DEF CallAnchor
      <4>2. \A p, v : Uses(CallAssert(new, p, v), {})
        BY UsesNothing
      <4> HIDE DEF known
      <4> QED BY <1>2, <3>2, <4>1, <4>2
    <3> QED BY <3>1, <3>2
  <2>2. Uses(dated, {}) /\ Uses(placed, {})
    <3>1. \A v : Uses(CallSet(eid, "date", v), {})
      BY UsesNothing
    <3>2. Uses(CallEventPlace(eid, patch[placeKey]), {})
      BY UsesNothing
    <3>3. \A f, s : Uses(s, {}) => Uses(Given(patch, f, s), {})
      BY UsesNothing
    <3> HIDE DEF eid
    <3> QED BY <3>1, <3>2, <3>3
  <2>3. \/ PatchEvent(V, pid, patch, type, placeKey, new) = <<>>
        \/ PatchEvent(V, pid, patch, type, placeKey, new) = head \o dated \o placed
    BY DEF PatchEvent
  <2> HIDE DEF head, dated, placed
  <2>4. Uses(head \o dated, {new})
    BY <1>2, <2>1, <2>2
  <2>5. Uses((head \o dated) \o placed, {new})
    BY <1>2, <2>2, <2>4
  <2> QED BY <1>1, <2>3, <2>5
<1> DEFINE x == NewEvent(k, 1)
           y == NewEvent(k, 2)
           named == IF {"given", "surname"} \cap DOMAIN patch = {} THEN <<>>
                    ELSE CallName(pid, patch)
           born == PatchEvent(V, pid, patch, "birth", "birthPlace", x)
           died == PatchEvent(V, pid, patch, "death", "deathPlace", y)
           sexed == Given(patch, "sex", CallSet(pid, "sex", IF patch.sex = None THEN None
                                                            ELSE [sex |-> patch.sex]))
           noted == Given(patch, "note", CallSet(pid, "biography", IF patch.note = None THEN None
                                                                   ELSE [text |-> patch.note]))
           more == Given(patch, "custom", CallCustom(pid, "field", patch.custom))
<1>4. Uses(born, {x}) /\ Uses(died, {y}) /\ x # y
  BY <1>3, OwnIdsDiffer
<1>5. Uses(named, {})
  BY <1>1, UsesNothing
<1>6. Uses(sexed, {}) /\ Uses(noted, {}) /\ Uses(more, {})
  <2>1. /\ \A p, v : Uses(CallSet(pid, p, v), {})
        /\ \A f, v : Uses(CallCustom(pid, f, v), {})
        /\ \A f, s : Uses(s, {}) => Uses(Given(patch, f, s), {})
    BY UsesNothing
  <2> QED BY <2>1
<1>7. ApplyPatch(V, pid, patch, k) = named \o born \o died \o sexed \o noted \o more
  BY DEF ApplyPatch
<1> HIDE DEF x, y, named, born, died, sexed, noted, more
<1>8. Uses(named \o born, {x})
  <2>1. Uses(named, {}) /\ Uses(born, {x})
    BY <1>4, <1>5
  <2> QED BY <2>1, UsesThen
<1>9. Uses((named \o born) \o died, {x, y})
  BY <1>4, <1>8, UsesThen
<1>10. Uses(named \o born \o died \o sexed \o noted \o more, {x, y})
  BY <1>2, <1>6, <1>9
<1> QED BY <1>7, <1>10 DEF x, y

LEMMA UsesPerson ==
  ASSUME NEW V, fresh \in Nat, NEW k \in Nat
  PROVE  /\ \A id : id \notin {NewEvent(k, 1), NewEvent(k, 2)} =>
              \A fields : Uses(CreateCalls(V, id, fields, k), {id, NewEvent(k, 1), NewEvent(k, 2)})
         /\ \A who : Uses(PersonCalls(V, who, k), OwnIds(k))
<1> DEFINE J == {NewEvent(k, 1), NewEvent(k, 2)}
<1>1. ASSUME NEW id, id \notin J, NEW fields
      PROVE  Uses(CreateCalls(V, id, fields, k), {id, NewEvent(k, 1), NewEvent(k, 2)})
  <2>1. \A patch : Uses(ApplyPatch(V, id, patch, k), J)
    BY UsesPatch
  <2>2. Uses(CallAnchor(id, "person"), {id})
    BY UsesOne DEF CallAnchor
  <2>3. {id} \cap J = {} /\ J \subseteq {id, NewEvent(k, 1), NewEvent(k, 2)}
    BY <1>1
  <2> HIDE DEF J
  <2>4. \A t : Uses(t, J) => Uses(CallAnchor(id, "person") \o t, {id, NewEvent(k, 1), NewEvent(k, 2)})
    BY <2>2, <2>3, UsesThen
  <2> QED BY <2>1, <2>4 DEF CreateCalls
<1>2. NewPerson(k) \notin J
  BY OwnIdsDiffer
<1>3. \A who : Uses(PersonCalls(V, who, k), OwnIds(k))
  BY <1>1, <1>2, UsesNone DEF PersonCalls, OwnIds
<1> QED BY <1>1, <1>3

LEMMA UsesFamily ==
  /\ \A children, parents : IsFiniteSet(children) /\ IsFiniteSet(parents)
        => Uses(CallParents(children, parents), {})
  /\ \A eid, spouses : IsFiniteSet(spouses) => Uses(CallMarriage(eid, spouses), {eid})
  /\ \A eid, facts : Uses(CallFacts(eid, facts), {})
<1>1. ASSUME NEW children, NEW parents, IsFiniteSet(children), IsFiniteSet(parents)
      PROVE  Uses(CallParents(children, parents), {})
  <2> DEFINE n == Cardinality(children \X parents)
             pairs == Sq!SetToSeq(children \X parents)
             f == [i \in 1..n |-> Asserting(pairs[i][1], "parent",
                                            [parentPersonId |-> pairs[i][2], kind |-> "biological"])]
  <2>1. n \in Nat
    BY <1>1, FS_Product, FS_CardinalityType
  <2>2. \A i \in 1..n : f[i].do # "anchor"
    BY DEF Asserting
  <2>3. CallParents(children, parents) = [i \in 1..n |-> f[i]]
    BY DEF CallParents
  <2> HIDE DEF n, f
  <2> QED BY <2>1, <2>2, <2>3, UsesLoop
<1>2. ASSUME NEW eid, NEW spouses, IsFiniteSet(spouses) PROVE Uses(CallSpouses(eid, spouses), {})
  <2> DEFINE n == Cardinality(spouses)
             each == Sq!SetToSeq(spouses)
             f == [i \in 1..n |-> Asserting(eid, "participant", [personId |-> each[i], role |-> "spouse"])]
  <2>1. n \in Nat
    BY <1>2, FS_CardinalityType
  <2>2. \A i \in 1..n : f[i].do # "anchor"
    BY DEF Asserting
  <2>3. CallSpouses(eid, spouses) = [i \in 1..n |-> f[i]]
    BY DEF CallSpouses
  <2> HIDE DEF n, f
  <2> QED BY <2>1, <2>2, <2>3, UsesLoop
<1>3. \A s, t, I : Uses(s, I) /\ Uses(t, {}) => Uses(s \o t, I)
  BY UsesThen
<1>4. ASSUME NEW eid, NEW spouses, IsFiniteSet(spouses)
      PROVE  Uses(CallMarriage(eid, spouses), {eid})
  <2>1. Uses(CallAnchor(eid, "event"), {eid})
    BY UsesOne DEF CallAnchor
  <2>2. Uses(CallAssert(eid, "event_type", [type |-> "marriage"]), {})
    BY UsesNothing
  <2> QED BY <1>2, <1>3, <1>4, <2>1, <2>2 DEF CallMarriage
<1>5. ASSUME NEW eid, NEW facts PROVE Uses(CallFacts(eid, facts), {})
  <2>1. /\ \A v : Uses(CallSet(eid, "date", v), {})
        /\ \A v : Uses(CallEventPlace(eid, v), {})
        /\ \A f, s : Uses(s, {}) => Uses(Given(facts, f, s), {})
    BY UsesNothing
  <2>2. Uses(Given(facts, "marriage", CallSet(eid, "date", IF facts.marriage = None THEN None
                                              ELSE [edtf |-> facts.marriage])), {})
    BY <2>1
  <2>3. Uses(Given(facts, "place", CallEventPlace(eid, facts.place)), {})
    BY <2>1
  <2> QED BY <1>3, <2>2, <2>3 DEF CallFacts
<1> QED BY <1>1, <1>4, <1>5

\* The ids that an operation of a seed uses.
SeedIds(o, k) ==
  IF o.type = "upsertPerson" THEN {o.id, NewEvent(k, 1), NewEvent(k, 2)} ELSE {NewPerson(k)}
LEMMA UsesSeed ==
  ASSUME NEW d, fresh \in Nat, NEW k \in Nat,
         NEW o \in SeedOps(Form(PersonFields), Form(FactFields)),
         o.type = "upsertPerson" => o.id.n < fresh
  PROVE  Uses(SeedCalls(d, o, k), SeedIds(o, k))
<1>1. CASE o.type = "upsertPerson"
  <2>1. \A x \in OwnIds(k) : x.n \in Nat /\ x.n >= fresh + 3 * k
    BY OwnIdsDiffer DEF AnchorId
  <2>2. o.id \in AnchorId
    BY <1>1 DEF SeedOps
  <2>3. o.id \notin OwnIds(k)
    BY <1>1, <2>1, <2>2 DEF AnchorId
  <2>4. o.id \notin {NewEvent(k, 1), NewEvent(k, 2)}
    BY <2>3 DEF OwnIds
  <2> QED BY <1>1, <2>4, UsesPerson DEF SeedCalls, SeedIds
<1>2. CASE o.type # "upsertPerson"
  <2> DEFINE I == {NewPerson(k)}
             first == IF Cardinality(o.spouses) < 2 THEN <<>>
                      ELSE CallPartner(Least(o.spouses), o.spouses)
             last == IF DOMAIN o.facts = {} THEN <<>>
                     ELSE CallMarriage(NewPerson(k), o.spouses) \o CallFacts(NewPerson(k), o.facts)
  <2>1. IsFiniteSet(o.spouses) /\ IsFiniteSet(o.children)
    BY <1>2 DEF SeedOps, Finite
  <2>2. Uses(first, {})
    BY UsesNone, UsesNothing
  <2>3. Uses(CallParents(o.children, o.spouses), {})
    BY <2>1, UsesFamily
  <2>4. Uses(last, I)
    <3>1. Uses(CallMarriage(NewPerson(k), o.spouses), I) /\ Uses(CallFacts(NewPerson(k), o.facts), {})
      BY <2>1, UsesFamily
    <3> HIDE DEF I
    <3>2. Uses(CallMarriage(NewPerson(k), o.spouses) \o CallFacts(NewPerson(k), o.facts), I)
      BY <3>1, UsesThen
    <3> QED BY <3>2, UsesNone
  <2>5. SeedCalls(d, o, k) = first \o CallParents(o.children, o.spouses) \o last
    BY <1>2 DEF SeedCalls
  <2> HIDE DEF I, first, last
  <2>6. Uses(first \o CallParents(o.children, o.spouses), {})
    BY <2>2, <2>3, UsesThen
  <2>7. Uses((first \o CallParents(o.children, o.spouses)) \o last, I)
    BY <2>4, <2>6, UsesThen
  <2> QED BY <1>2, <2>5, <2>7 DEF SeedIds, I
<1> QED BY <1>1, <1>2

-----------------------------------------------------------------------------
(* What operations ask for: ids that nobody has.                           *)

\* Every id in the log, pending, or waiting in a call is one given out before.
Spent == FirstFresh <= fresh /\ \A x \in Taken : x \in AnchorId /\ x.n < fresh

Free(I, n) == \A x \in I : x \in AnchorId /\ x \notin Taken /\ x.n < fresh + 3 * n
Began(d, n, calls) ==
  /\ \E inverse, goal : Start(d, n, calls, inverse, goal)
  /\ \E I : Uses(calls, I) /\ Free(I, n)
Asks(d) == \E n \in Nat : \E calls : Began(d, n, calls)

LEMMA NewIdsAreFree ==
  ASSUME Spent, fresh \in Nat, NEW n \in Nat, NEW k \in Nat, k < n
  PROVE  Free(OwnIds(k), n)
<1>1. \A x \in OwnIds(k) : x \in AnchorId /\ x.n >= fresh + 3 * k /\ x.n < fresh + 3 * k + 3
  BY OwnIdsDiffer
<1>2. \A x \in OwnIds(k) : x.n \in Nat
  BY <1>1 DEF AnchorId
<1>3. 3 * k + 3 <= 3 * n
  OBVIOUS
<1>4. \A x \in OwnIds(k) : x.n >= fresh /\ x.n < fresh + 3 * n
  BY <1>1, <1>2, <1>3
<1>5. \A x \in OwnIds(k) : x \notin Taken
  BY <1>2, <1>4 DEF Spent
<1> QED BY <1>1, <1>4, <1>5 DEF Free

EditIds == OwnIds(0) \cup OwnIds(1) \cup OwnIds(2)
LEMMA EditAsks ==
  ASSUME Spent, fresh \in Nat, NEW d \in Devices, NEW calls, Edit(d, calls) \/ Unframed(d, calls),
         NEW I, Uses(calls, I), I \subseteq EditIds
  PROVE  Asks(d)
<1>1. Free(OwnIds(0), 3) /\ Free(OwnIds(1), 3) /\ Free(OwnIds(2), 3)
  BY NewIdsAreFree
<1>2. Free(I, 3)
  BY <1>1 DEF Free, EditIds
<1>3. \E inverse, goal : Start(d, 3, calls, inverse, goal)
  BY DEF Edit, Unframed
<1>4. Began(d, 3, calls)
  BY <1>2, <1>3 DEF Began
<1> QED BY <1>4 DEF Asks

\* For the operations of one device.
LEMMA Asking ==
  ASSUME EditorInv, Spent, NEW d \in Devices
  PROVE  /\ \A calls : \A I : Uses(calls, I) /\ I \subseteq EditIds /\ (Edit(d, calls) \/ Unframed(d, calls))
                         => Asks(d)
         /\ \A s, I, t : Uses(s, I) /\ Uses(t, {}) => Uses(s \o t, I)
         /\ \A s, t, J : Uses(s, {}) /\ Uses(t, J) => Uses(s \o t, J)
         /\ \A who : Uses(PersonCalls(view[d], who, 0), OwnIds(0))
         /\ \A who : Uses(PersonCalls(view[d], who, 1), OwnIds(1))
         /\ OwnIds(0) \cap OwnIds(1) = {} /\ OwnIds(0) \cap OwnIds(2) = {}
         /\ NewPerson(2) \in OwnIds(2)
         /\ \A I : Uses(<<>>, I)
<1>0. fresh \in Nat
  BY DEF EditorInv
<1>1. OwnIds(0) \cap OwnIds(1) = {} /\ OwnIds(0) \cap OwnIds(2) = {} /\ NewPerson(2) \in OwnIds(2)
  BY <1>0, OwnIdsDiffer DEF OwnIds
<1>2. \A calls : \A I : Uses(calls, I) /\ I \subseteq EditIds /\ (Edit(d, calls) \/ Unframed(d, calls))
        => Asks(d)
  BY <1>0, EditAsks
<1>3. /\ \A who : Uses(PersonCalls(view[d], who, 0), OwnIds(0))
      /\ \A who : Uses(PersonCalls(view[d], who, 1), OwnIds(1))
  BY <1>0, UsesPerson
<1> QED BY <1>1, <1>2, <1>3, UsesThen, UsesNone

LEMMA PeopleAsk ==
  ASSUME EditorInv, Spent, NEW d \in Devices, OnPeople(d)
  PROVE  Asks(d)
<1>0. fresh \in Nat
  BY DEF EditorInv
<1> DEFINE V == view[d]
<1>1. ASSUME NEW form, createPerson(d, form) PROVE Asks(d)
  <2>1. NewPerson(0) \notin {NewEvent(0, 1), NewEvent(0, 2)}
    BY <1>0, OwnIdsDiffer
  <2>2. Uses(CreateCalls(V, NewPerson(0), form, 0), OwnIds(0))
    BY <1>0, <2>1, UsesPerson DEF OwnIds
  <2>3. OwnIds(0) \subseteq EditIds
    BY DEF EditIds
  <2> QED BY <1>1, <2>2, <2>3, Asking DEF createPerson
<1>2. ASSUME NEW id, NEW form, updatePerson(d, id, form) PROVE Asks(d)
  <2>1. Uses(ApplyPatch(V, id, form, 0), {NewEvent(0, 1), NewEvent(0, 2)})
    BY <1>0, UsesPatch
  <2>2. {NewEvent(0, 1), NewEvent(0, 2)} \subseteq EditIds
    BY DEF EditIds, OwnIds
  <2> QED BY <1>2, <2>1, <2>2, Asking DEF updatePerson
<1>3. ASSUME NEW id, deletePerson(d, id) PROVE Asks(d)
  <2>1. \A ids : Uses(CallForget(ids), {})
    BY UsesNothing
  <2>2. \A x, y : Uses(CallForget(x) \o CallForget(y), {})
    BY <2>1, Asking
  <2>3. {} \subseteq EditIds
    OBVIOUS
  <2> QED BY <1>3, <2>2, <2>3, Asking DEF deletePerson
<1>4. ASSUME NEW a, NEW b, NEW facts, addMarriage(d, a, b, facts) PROVE Asks(d)
  <2> DEFINE pair == {a, PersonId(b, 0)}
             wed == CallMarriage(NewPerson(2), pair) \o CallFacts(NewPerson(2), facts)
             last == IF DOMAIN facts = {} THEN <<>> ELSE wed
             first == PersonCalls(V, b, 0) \o CallPartner(a, pair)
  <2>1. Uses(CallMarriage(NewPerson(2), pair), {NewPerson(2)}) /\ Uses(CallFacts(NewPerson(2), facts), {})
    <3>1. IsFiniteSet(pair)
      BY TwoAreFinite
    <3> HIDE DEF pair
    <3> QED BY <3>1, UsesFamily
  <2>2. Uses(wed, {NewPerson(2)})
    BY <2>1, Asking
  <2>3. Uses(last, {NewPerson(2)})
    BY <2>2, UsesNone
  <2>4. Uses(first, OwnIds(0))
    <3>1. Uses(PersonCalls(V, b, 0), OwnIds(0)) /\ Uses(CallPartner(a, pair), {})
      BY Asking, UsesNothing
    <3> HIDE DEF V, pair
    <3> QED BY <3>1, Asking
  <2>5. OwnIds(0) \cap {NewPerson(2)} = {} /\ OwnIds(0) \cup {NewPerson(2)} \subseteq EditIds
    BY Asking DEF EditIds
  <2>6. Edit(d, first \o last)
    BY <1>4 DEF addMarriage
  <2> HIDE DEF first, last
  <2>7. Uses(first \o last, OwnIds(0) \cup {NewPerson(2)})
    BY <2>3, <2>4, <2>5, UsesThen
  <2> QED BY <2>5, <2>6, <2>7, Asking
<1>5. ASSUME NEW child, NEW father, NEW mother, addParents(d, child, father, mother)
      PROVE  Asks(d)
  <2> DEFINE Calls(who, k) == IF who = None THEN <<>>
                              ELSE PersonCalls(V, who, k) \o CallParent(child, PersonId(who, k))
             OfSex(who, sex) == IF who = None \/ ~IsNew(who) THEN who
                                ELSE [new |-> who.new @@ [sex |-> sex]]
             f == OfSex(father, "M")
             m == OfSex(mother, "F")
  <2>1. \A who : Uses(Calls(who, 0), OwnIds(0)) /\ Uses(Calls(who, 1), OwnIds(1))
    <3>1. \A who : Uses(PersonCalls(V, who, 0), OwnIds(0)) /\ Uses(PersonCalls(V, who, 1), OwnIds(1))
      BY Asking
    <3>2. \A parent : Uses(CallParent(child, parent), {})
      BY UsesNothing
    <3>3. /\ \A s, I, t : Uses(s, I) /\ Uses(t, {}) => Uses(s \o t, I)
          /\ \A I : Uses(<<>>, I)
      BY Asking
    <3> HIDE DEF V
    <3> QED BY <3>1, <3>2, <3>3
  <2>2. Edit(d, Calls(f, 0) \o Calls(m, 1))
    BY <1>5 DEF addParents
  <2> HIDE DEF f, m, Calls
  <2> DEFINE s == Calls(f, 0)
             t == Calls(m, 1)
  <2>3. Uses(s, OwnIds(0)) /\ Uses(t, OwnIds(1)) /\ Edit(d, s \o t)
    BY <2>1, <2>2
  <2> HIDE DEF s, t
  <2>4. OwnIds(0) \cap OwnIds(1) = {} /\ OwnIds(0) \cup OwnIds(1) \subseteq EditIds
    BY Asking DEF EditIds
  <2>5. Uses(s \o t, OwnIds(0) \cup OwnIds(1))
    BY <2>3, <2>4, UsesThen
  <2> QED BY <2>3, <2>4, <2>5, Asking
<1>6. ASSUME NEW ops \in Seq(SeedOps(Form(PersonFields), Form(FactFields))), Unused(ops), seed(d, ops)
      PROVE  Asks(d)
  <2> DEFINE n == Len(ops)
             f == [i \in 1..n |-> SeedCalls(d, ops[i], i - 1)]
             I == [i \in 1..n |-> SeedIds(ops[i], i - 1)]
             K == UNION {I[i] : i \in 1..n}
             calls == Sq!FlattenSeq([i \in DOMAIN ops |-> SeedCalls(d, ops[i], i - 1)])
  <2>1. /\ n \in Nat /\ DOMAIN ops = 1..n
        /\ \A i \in 1..n : ops[i] \in SeedOps(Form(PersonFields), Form(FactFields)) /\ i - 1 \in Nat
    OBVIOUS
  <2>2. \A i \in 1..n : ops[i].type = "upsertPerson" =>
           /\ ops[i].id \in AnchorId /\ ops[i].id \notin Taken /\ ops[i].id.n < FirstFresh
           /\ ops[i].id.n < fresh
    <3>1. \A i \in 1..n : ops[i].type = "upsertPerson" => ops[i].id \in AnchorId
      BY <2>1 DEF SeedOps
    <3>2. \A i \in 1..n : ops[i].type = "upsertPerson" =>
             ops[i].id \notin Taken /\ ops[i].id.n < FirstFresh
      BY <1>6, <2>1 DEF Unused
    <3>3. \A x \in AnchorId : x.n \in Nat
      BY DEF AnchorId
    <3> HIDE DEF n
    <3> QED BY <1>0, <3>1, <3>2, <3>3 DEF Spent, FirstFresh
  <2>3. \A i \in 1..n : Uses(f[i], I[i])
    BY <1>0, <2>1, <2>2, UsesSeed
  <2>4. \A i \in 1..n : \A x \in I[i] :
           \/ ops[i].type = "upsertPerson" /\ x = ops[i].id
           \/ x \in OwnIds(i - 1)
    BY DEF SeedIds, OwnIds
  <2>5. \A i \in 1..n : \A x \in OwnIds(i - 1) : x.n \in Nat /\ x.n >= fresh
    <3>1. \A k \in Nat : \A x \in OwnIds(k) : x.n >= fresh + 3 * k /\ x \in AnchorId
      BY <1>0, OwnIdsDiffer
    <3>2. \A x \in AnchorId : x.n \in Nat
      BY DEF AnchorId
    <3>3. \A k \in Nat : fresh + 3 * k >= fresh
      BY <1>0
    <3> HIDE DEF n
    <3> QED BY <1>0, <2>1, <3>1, <3>2, <3>3
  <2>6. \A i, j \in 1..n : i # j => OwnIds(i - 1) \cap OwnIds(j - 1) = {}
    <3>1. \A k, l \in Nat : k # l => OwnIds(k) \cap OwnIds(l) = {}
      BY <1>0, OwnIdsDiffer
    <3> QED BY <2>1, <3>1
  <2>7. ASSUME NEW i \in 1..n, NEW j \in 1..n, i # j, NEW x, x \in I[i], x \in I[j] PROVE FALSE
    <3>1. CASE x \in OwnIds(i - 1)
      <4>1. CASE x \in OwnIds(j - 1)
        BY <2>6, <2>7, <3>1, <4>1
      <4>2. CASE ops[j].type = "upsertPerson" /\ x = ops[j].id
        <5>1. x.n < fresh /\ x.n >= fresh /\ x.n \in Nat
          BY <2>2, <2>5, <3>1, <4>2
        <5> QED BY <1>0, <5>1
      <4> QED BY <2>4, <2>7, <4>1, <4>2
    <3>2. CASE ops[i].type = "upsertPerson" /\ x = ops[i].id /\ x \notin OwnIds(i - 1)
      <4>1. CASE x \in OwnIds(j - 1)
        BY <1>0, <2>2, <2>5, <3>2, <4>1 DEF AnchorId
      <4>2. CASE ops[j].type = "upsertPerson" /\ x = ops[j].id
        <5>1. i \in DOMAIN ops /\ j \in DOMAIN ops
          BY <2>1
        <5> HIDE DEF n, I, f, K, calls
        <5> QED BY <1>6, <2>7, <3>2, <4>2, <5>1 DEF Unused
      <4> QED BY <2>4, <2>7, <4>1, <4>2
    <3> QED BY <2>4, <2>7, <3>1, <3>2
  <2>8. Free(K, n)
    <3>1. \A i \in 1..n : Free(OwnIds(i - 1), n)
      <4>1. \A i \in 1..n : i - 1 \in Nat /\ i - 1 < n
        BY <2>1
      <4> HIDE DEF n
      <4> QED BY <1>0, <2>1, <4>1, NewIdsAreFree
    <3>2. \A i \in 1..n : ops[i].type = "upsertPerson" => ops[i].id.n < fresh + 3 * n
      <4>1. \A x \in AnchorId : x.n \in Nat
        BY DEF AnchorId
      <4> HIDE DEF n
      <4> QED BY <1>0, <2>1, <2>2, <4>1
    <3> HIDE DEF n, I
    <3> QED BY <2>2, <2>4, <3>1, <3>2 DEF Free
  <2>9. calls = Sq!FlattenSeq([i \in 1..n |-> f[i]])
    <3>1. [i \in DOMAIN ops |-> SeedCalls(d, ops[i], i - 1)] = [i \in 1..n |-> f[i]]
      BY <2>1
    <3> QED BY <3>1
  <2>10. Uses(calls, K)
    <3>1. \A i \in 1..n : I[i] \subseteq K
      OBVIOUS
    <3> HIDE DEF n, f, I, K, calls
    <3>2. \A i, j \in 1..n : i # j => I[i] \cap I[j] = {}
      BY <2>7
    <3>3. n \in Nat
      BY <2>1
    <3>4. Uses(Sq!FlattenSeq([i \in 1..n |-> f[i]]), K)
      BY <2>3, <3>1, <3>2, <3>3, UsesJoined
    <3> QED BY <2>9, <3>4
  <2>11. Start(d, n, calls, "none", {})
    BY <1>6 DEF seed
  <2> HIDE DEF calls, n, K
  <2>12. Began(d, n, calls)
    BY <2>8, <2>10, <2>11 DEF Began
  <2> QED BY <2>1, <2>12 DEF Asks
<1> QED BY <1>1, <1>2, <1>3, <1>4, <1>5, <1>6 DEF OnPeople

LEMMA FamiliesAsk ==
  ASSUME EditorInv, Spent, NEW d \in Devices, OnFamilies(d)
  PROVE  Asks(d)
<1>1. PICK fam \in view[d].unions :
        \/ \E child \in Someone(Form(PersonFields)) : addChild(d, fam, child)
        \/ removeMarriage(d, fam)
        \/ \E child \in fam.children : unlinkChild(d, fam, child)
        \/ \E spouse \in fam.parents : unlinkSpouse(d, fam, spouse)
        \/ \E spouse \in AnchorId : linkSpouse(d, fam, spouse)
        \/ \E facts \in Form(FactFields) : setFamilyFacts(d, fam, facts)
  BY DEF OnFamilies
<1>2. IsFiniteSet(fam.parents) /\ IsFiniteSet(fam.children)
  BY DEF EditorInv, DeviceOK, ViewOK
<1>3. \A x : IsFiniteSet({x})
  BY FS_Singleton
<1>4. \A children, parents : IsFiniteSet(children) /\ IsFiniteSet(parents)
         => Uses(CallParents(children, parents), {})
  BY UsesFamily
<1>5. \A s, t : Uses(s, {}) /\ Uses(t, {}) => Uses(s \o t, {})
  BY UsesThen
<1>6. \A calls : Uses(calls, {}) /\ Edit(d, calls) => Asks(d)
  BY Asking
<1>7. ASSUME NEW child, addChild(d, fam, child) PROVE Asks(d)
  <2>1. Uses(PersonCalls(view[d], child, 0), OwnIds(0))
    BY Asking
  <2>2. Uses(CallParents({PersonId(child, 0)}, fam.parents), {})
    BY <1>2, <1>3, <1>4
  <2>3. Uses(PersonCalls(view[d], child, 0) \o CallParents({PersonId(child, 0)}, fam.parents), OwnIds(0))
    BY <2>1, <2>2, UsesThen
  <2>4. OwnIds(0) \subseteq EditIds
    BY DEF EditIds
  <2> QED BY <1>7, <2>3, <2>4, Asking DEF addChild
<1>8. ASSUME removeMarriage(d, fam) PROVE Asks(d)
  <2> DEFINE last == IF fam.marriage = None THEN <<>> ELSE CallForget({fam.marriage})
  <2>1. Uses(last, {})
    BY UsesNone, UsesNothing
  <2>2. Edit(d, CallUnpair(fam.parents) \o CallUnparent(fam.children, fam.parents) \o last)
    BY <1>8 DEF removeMarriage
  <2>3. Uses(CallUnpair(fam.parents), {}) /\ Uses(CallUnparent(fam.children, fam.parents), {})
    BY UsesNothing
  <2> HIDE DEF last
  <2> QED BY <1>5, <1>6, <2>1, <2>2, <2>3
<1>9. ASSUME NEW child, unlinkChild(d, fam, child) PROVE Asks(d)
  <2>1. Uses(CallUnparent({child}, fam.parents), {})
    BY UsesNothing
  <2> QED BY <1>6, <1>9, <2>1 DEF unlinkChild
<1>10. ASSUME NEW spouse, unlinkSpouse(d, fam, spouse) PROVE Asks(d)
  <2>1. Uses(CallLeave(spouse), {}) /\ Uses(CallUnparent(fam.children, {spouse}), {})
    BY UsesNothing
  <2> QED BY <1>5, <1>6, <1>10, <2>1 DEF unlinkSpouse
<1>11. ASSUME NEW spouse, linkSpouse(d, fam, spouse) PROVE Asks(d)
  <2> DEFINE other == Least(fam.parents)
  <2>1. Uses(CallPartner(other, {other, spouse}), {})
    BY UsesNothing
  <2>2. Uses(CallParents(fam.children, {spouse}), {})
    BY <1>2, <1>3, <1>4
  <2>3. Edit(d, CallPartner(other, {other, spouse}) \o CallParents(fam.children, {spouse}))
    BY <1>11 DEF linkSpouse
  <2> HIDE DEF other
  <2> QED BY <1>5, <1>6, <2>1, <2>2, <2>3
<1>12. ASSUME NEW facts, setFamilyFacts(d, fam, facts) PROVE Asks(d)
  <2> DEFINE eid == IF fam.marriage = None THEN NewPerson(2) ELSE fam.marriage
             first == IF fam.marriage = None THEN CallMarriage(eid, fam.parents) ELSE <<>>
  <2>1. Uses(first, {NewPerson(2)})
    BY <1>2, UsesNone, UsesFamily
  <2>2. Uses(CallFacts(eid, facts), {})
    BY UsesFamily
  <2>3. Edit(d, first \o CallFacts(eid, facts))
    BY <1>12 DEF setFamilyFacts
  <2>4. {NewPerson(2)} \subseteq EditIds
    BY Asking DEF EditIds
  <2> HIDE DEF eid, first
  <2>5. Uses(first \o CallFacts(eid, facts), {NewPerson(2)})
    BY <2>1, <2>2, UsesThen
  <2> QED BY <2>3, <2>4, <2>5, Asking
<1> QED BY <1>1, <1>7, <1>8, <1>9, <1>10, <1>11, <1>12

LEMMA MediaAsk ==
  ASSUME EditorInv, Spent, NEW d \in Devices, OnMedia(d)
  PROVE  Asks(d)
<1>1. \A calls : Uses(calls, {}) /\ (Edit(d, calls) \/ Unframed(d, calls)) => Asks(d)
  BY Asking
<1>2. \A k : k.do # "anchor" => Uses(<<k>>, {})
  BY UsesOne
<1>3. ASSUME NEW subject, NEW hash, NEW role, attachMedia(d, subject, hash, role) PROVE Asks(d)
  <2>1. \A v : Uses(CallAssert(subject, "media_link", v), {})
    BY UsesNothing
  <2> QED BY <1>1, <1>3, <2>1 DEF attachMedia
<1>4. ASSUME NEW subject, NEW link, setPortrait(d, subject, link) PROVE Asks(d)
  <2> DEFINE k == [do |-> "portrait", target |-> subject, link |-> link]
  <2>1. k.do # "anchor" /\ Edit(d, <<k>>)
    BY <1>4 DEF setPortrait
  <2> HIDE DEF k
  <2> QED BY <1>1, <1>2, <2>1
<1>5. ASSUME NEW subject, NEW link, detachMedia(d, subject, link) PROVE Asks(d)
  <2> DEFINE k == [do |-> "drop", id |-> link]
  <2>1. k.do # "anchor" /\ Edit(d, <<k>>)
    BY <1>5 DEF detachMedia
  <2> HIDE DEF k
  <2> QED BY <1>1, <1>2, <2>1
<1>6. ASSUME NEW subject, NEW link, NEW crop, setCrop(d, subject, link, crop) PROVE Asks(d)
  <2> DEFINE k == [do |-> "edit", prior |-> link, target |-> subject,
                   predicate |-> "media_link", value |-> [link.value EXCEPT !.crop = crop]]
  <2>1. k.do = "edit"
    BY Zenon
  <2>2. Unframed(d, <<k>>)
    BY <1>6, Zenon DEF setCrop
  <2> HIDE DEF k
  <2> QED BY <1>1, <1>2, <2>1, <2>2
<1> QED BY <1>3, <1>4, <1>5, <1>6 DEF OnMedia

LEMMA UndoAsks ==
  ASSUME EditorInv, NEW d \in Devices, UndoEdit(d) \/ RedoEdit(d)
  PROVE  Asks(d)
<1>1. PICK frame, inverse, goal : Start(d, 0, CallFrame(frame), inverse, goal)
  BY DEF UndoEdit, RedoEdit
<1>2. Uses(CallFrame(frame), {}) /\ Free({}, 0)
  BY UsesNothing DEF Free
<1>3. Began(d, 0, CallFrame(frame))
  BY <1>1, <1>2 DEF Began
<1> QED BY <1>3 DEF Asks

LEMMA OperationAsks ==
  ASSUME EditorInv, Spent, NEW d \in Devices, Operation(d)
  PROVE  Asks(d)
  BY PeopleAsk, FamiliesAsk, MediaAsk, UndoAsks DEF Operation

-----------------------------------------------------------------------------
(* What a call adds.                                                       *)

\* u is t with the items N, minted by its author.
Adds(t, u, N) ==
  /\ Items(N) /\ u.moderators = t.moderators
  /\ u.items = t.items \cup N /\ u.pending = t.pending \cup N
  /\ u.committers = t.committers \cup Committed(N, t.author)
AnchorsAre(N, I) == \A i \in N : AnAnchor(i) => i.id \in I
Alone(N) == \A i, j \in N : AnAnchor(i) /\ AnAnchor(j) /\ i.id = j.id => i = j

\* Items without an anchor that is there already only come on top.
LEMMA InsertAdds ==
  ASSUME NEW S, Items(S), NEW new, Items(new),
         \A i \in S, n \in new : AnAnchor(i) /\ AnAnchor(n) /\ i.id = n.id => i = n
  PROVE  Insert(S, new) = S \cup new
<1> SUFFICES ASSUME NEW i \in S, NEW n \in new, IdOf(i) = IdOf(n) PROVE i = n
  BY DEF Insert
<1>1. AnItem(i) /\ AnItem(n)
  BY DEF Items
<1>2. CASE AnAnchor(i) /\ AnAnchor(n)
  BY <1>2, Kinds
<1>3. CASE ~AnAnchor(i) /\ ~AnAnchor(n)
  BY <1>1, <1>3, Kinds DEF AnItem, ARecord
<1>4. CASE AnAnchor(i) /\ ~AnAnchor(n)
  <2>1. n = i.id /\ n \in AnchorId
    BY <1>1, <1>4, Kinds DEF AnItem, ARecord, AnAnchor
  <2> QED BY <1>1, <2>1, ItemIsNoId
<1>5. CASE ~AnAnchor(i) /\ AnAnchor(n)
  <2>1. i = n.id /\ i \in AnchorId
    BY <1>1, <1>5, Kinds DEF AnItem, ARecord, AnAnchor
  <2> QED BY <1>1, <2>1, ItemIsNoId
<1> QED BY <1>2, <1>3, <1>4, <1>5

LEMMA MintedAdds ==
  ASSUME NEW author, NEW t, Engine(t, author), NEW m, MintOK(m, author),
         m.do = "anchor" => \A i \in t.items : AnAnchor(i) => i.id # m.id
  PROVE  \E N : /\ Adds(t, Minted(t, m), N) /\ Alone(N)
                /\ AnchorsAre(N, IF m.do = "anchor" THEN {m.id} ELSE {})
<1> DEFINE at == ClockNext(t.clock, now)
           I == IF m.do = "anchor" THEN {m.id} ELSE {}
           Good(N) == Items(N) /\ Alone(N) /\ AnchorsAre(N, I)
<1>1. \A i : AnItem(i) /\ ~AnAnchor(i) => Good({i})
  BY FS_Singleton DEF Items, Alone, AnchorsAre
<1>2. \E N : Good(N) /\ Minted(t, m) = Emit(t, N, at)
  <2>1. CASE m.do = "anchor"
    <3> DEFINE a == NewAnchor(m.id, m.type, t.author, at)
               c == NewClaim(m.id, "existence", [none |-> 0], t.author, at)
    <3>1. Minted(t, m) = Emit(t, {a, c}, at)
      BY <2>1 DEF Minted, AssertAnchor
    <3>2. AnItem(a) /\ AnItem(c) /\ AClaim(c)
      BY <2>1, NewItems, PlainValues DEF MintOK, Naming
    <3>3. a.id = m.id
      BY DEF NewAnchor
    <3>4. ~AnAnchor(c)
      BY <3>2, Kinds
    <3> HIDE DEF a, c
    <3>5. Items({a, c})
      BY <3>2, TwoAreFinite DEF Items
    <3>6. Good({a, c})
      BY <2>1, <3>3, <3>4, <3>5 DEF Alone, AnchorsAre
    <3> QED BY <3>1, <3>6
  <2>2. CASE m.do = "assert"
    <3>1. Minted(t, m) = AssertClaim(t, m.target, m.predicate, m.value, at)
      BY <2>2 DEF Minted
    <3>2. AClaim(NewClaim(m.target, m.predicate, m.value, t.author, at))
      BY <2>2, NewItems DEF MintOK
    <3> HIDE DEF Good, at
    <3> QED BY <1>1, <3>1, <3>2, Kinds DEF AssertClaim, AnItem, ARecord
  <2>3. CASE m.do = "revive"
    <3>1. Minted(t, m) = Revoke(t, m.op, at)
      BY <2>3 DEF Minted
    <3>2. AnItem(NewRevoke(m.op, t.author, at)) /\ ~AnAnchor(NewRevoke(m.op, t.author, at))
      BY NewItems, Kinds DEF NewRevoke
    <3> HIDE DEF Good, at
    <3> QED BY <1>1, <3>1, <3>2 DEF Revoke
  <2>4. CASE m.do = "edit"
    <3> DEFINE c == NewClaim(m.target, m.predicate, m.value, t.author, at)
               i == NewSupersede(m.prior, c, t.author, at)
    <3>1. Minted(t, m) = Emit(t, {i}, at)
      BY <2>4 DEF Minted, SupersedeClaim
    <3>2. AClaim(c)
      BY <2>4, NewItems DEF MintOK
    <3> HIDE DEF c
    <3>3. AnItem(i) /\ ~AnAnchor(i)
      BY <3>2, NewItems, Kinds DEF NewSupersede
    <3> HIDE DEF Good, at, i
    <3> QED BY <1>1, <3>1, <3>3
  <2>5. CASE m.do = "drop"
    <3>1. Minted(t, m) = Remove(t, m.id, at)
      BY <2>5 DEF Minted
    <3>2. AnItem(NewRemove(m.id, t.author, at)) /\ ~AnAnchor(NewRemove(m.id, t.author, at))
      BY NewItems, Kinds DEF NewRemove
    <3> HIDE DEF Good, at
    <3> QED BY <1>1, <3>1, <3>2 DEF Remove
  <2> HIDE DEF Good, at
  <2> QED BY <2>1, <2>2, <2>3, <2>4, <2>5 DEF MintOK
<1>3. PICK N : Good(N) /\ Minted(t, m) = Emit(t, N, at)
  BY <1>2
<1>4. Insert(t.items, N) = t.items \cup N
  <2>1. \A i \in t.items, n \in N : AnAnchor(i) /\ AnAnchor(n) /\ i.id = n.id => i = n
    BY <1>3 DEF AnchorsAre
  <2> QED BY <1>3, <2>1, InsertAdds DEF Engine
<1>5. Adds(t, Minted(t, m), N)
  <2> HIDE DEF at
  <2> QED BY <1>3, <1>4, EmitIs DEF Adds, Engine
<1> QED BY <1>3, <1>5

\* A call that asserts an anchor mints that anchor, and no other call mints one;
\* only a removal that is remembered is revoked.
LEMMA MintsOneAnchor ==
  ASSUME NEW author, NEW L, NEW k, CallOK(k, author), NEW removals
  PROVE  LET M == Mints(k, L, author, removals)
         IN  /\ k.do = "anchor" => M = {k}
             /\ k.do # "anchor" => \A m \in M : m.do # "anchor"
             /\ \A m \in M : m.do = "revive" => \E i \in DOMAIN removals : m.op = removals[i]
<1> DEFINE M == Mints(k, L, author, removals)
           Of(target, predicate) == LiveMine(L, author, target, predicate)
           Plain(S) == \A m \in S :
             /\ m.do # "anchor"
             /\ m.do = "revive" => \E i \in DOMAIN removals : m.op = removals[i]
<1>1. \A S : Plain(Drops(S))
  BY DEF Drops
<1>2. \A S, target, predicate, value : Plain(Replace(S, target, predicate, value))
  BY DEF Replace
<1>3. \A S, subject, link : Plain(Portrait(S, subject, link))
  <2> SUFFICES ASSUME NEW S, NEW subject, NEW link PROVE Plain(Portrait(S, subject, link))
    OBVIOUS
  <2> DEFINE f == [c \in S |->
        [do |-> "edit", prior |-> c, target |-> subject, predicate |-> "media_link",
         value |-> [c.value EXCEPT !.role = IF c = link THEN "portrait" ELSE "document"]]]
  <2>1. \A m \in Portrait(S, subject, link) : \E c \in S : m = f[c]
    BY Zenon DEF Portrait
  <2>2. \A c \in S : f[c].do = "edit"
    BY Zenon
  <2> HIDE DEF f
  <2> QED BY <2>1, <2>2
<1>4. ASSUME k.do \in {"anchor", "assert", "drop", "edit"} PROVE M = {k}
  BY <1>4 DEF Mints
<1>5. ASSUME k.do # "anchor" PROVE Plain(M)
  <2> HIDE DEF Of
  <2>1. CASE k.do \in {"set", "custom", "forget", "unparent", "unpair", "leave", "takeBack"}
    <3>1. \/ \E S : M = Drops(S)
          \/ \E S, target, predicate, value : M = Replace(S, target, predicate, value)
      <4>1. CASE k.do = "set"
        BY <4>1 DEF Mints
      <4>2. CASE k.do = "custom"
        BY <4>2 DEF Mints
      <4>3. CASE k.do = "forget"
        BY <4>3 DEF Mints
      <4>4. CASE k.do = "unparent"
        BY <4>4 DEF Mints
      <4>5. CASE k.do = "unpair"
        BY <4>5 DEF Mints
      <4>6. CASE k.do = "leave"
        BY <4>6 DEF Mints
      <4>7. CASE k.do = "takeBack"
        BY <4>7 DEF Mints
      <4> QED BY <2>1, <4>1, <4>2, <4>3, <4>4, <4>5, <4>6, <4>7
    <3> HIDE DEF Plain
    <3> QED BY <3>1, <1>1, <1>2
  <2>2. CASE k.do = "name"
    <3>1. \E S, value : M = Replace(S, k.target, "name", value)
      BY <2>2 DEF Mints
    <3> HIDE DEF Plain
    <3> QED BY <3>1, <1>2
  <2>3. CASE k.do = "place"
    <3>1. M = {} \/ \E S, target, value : M = Replace(S, target, "place_name", value)
      BY <2>3 DEF Mints
    <3> QED BY <3>1, <1>2
  <2>4. CASE k.do = "portrait"
    <3>1. \E S : M = Portrait(S, k.target, k.link)
      BY <2>4 DEF Mints
    <3> HIDE DEF Plain
    <3> QED BY <3>1, <1>3
  <2>5. CASE k.do = "bringBack"
    <3>1. \A m \in M : \E r \in k.records : m = Revive(r, removals)
      BY <2>5 DEF Mints
    <3>2. \A r : LET m == Revive(r, removals)
                IN  /\ m.do # "anchor"
                    /\ m.do = "revive" => \E i \in DOMAIN removals : m.op = removals[i]
      BY DEF Revive
    <3> QED BY <3>1, <3>2
  <2> QED BY <1>4, <1>5, <2>1, <2>2, <2>3, <2>4, <2>5 DEF CallOK
<1>6. /\ k.do = "anchor" => M = {k}
      /\ \A m \in M : m.do = "revive" => \E i \in DOMAIN removals : m.op = removals[i]
  <2> HIDE DEF M
  <2> QED BY <1>4, <1>5
<1>7. k.do # "anchor" => \A m \in M : m.do # "anchor"
  <2> HIDE DEF M
  <2> QED BY <1>5
<1> QED BY <1>6, <1>7

\* What two mints add, one after the other.
LEMMA AddsThen ==
  ASSUME NEW t, NEW u, NEW v, NEW N, Adds(t, u, N), NEW O, Adds(u, v, O), u.author = t.author
  PROVE  Adds(t, v, N \cup O)
<1>1. Items(N \cup O)
  BY FS_Union DEF Adds, Items
<1>2. Committed(N \cup O, t.author) = Committed(N, t.author) \cup Committed(O, t.author)
  BY DEF Committed
<1> QED BY <1>1, <1>2 DEF Adds

LEMMA AddsNothing ==
  ASSUME NEW t
  PROVE  Adds(t, t, {}) /\ Alone({}) /\ AnchorsAre({}, {})
  BY FS_EmptySet DEF Adds, Items, Committed, Alone, AnchorsAre

\* All the mints of a call add the anchor asked for, or none.
LEMMA AfterAdds ==
  ASSUME NEW author, NEW t, Engine(t, author), NEW k, CallOK(k, author), NEW removals,
         ~Throws(k, removals),
         k.do = "anchor" => \A i \in t.items : AnAnchor(i) => i.id # k.id
  PROVE  \E N : /\ Adds(t, After(t, Mints(k, Live(t), author, removals)), N) /\ Alone(N)
                /\ AnchorsAre(N, IF k.do = "anchor" THEN {k.id} ELSE {})
<1> DEFINE M == Mints(k, Live(t), author, removals)
<1>0. /\ k.do = "anchor" => M = {k}
      /\ k.do # "anchor" => \A m \in M : m.do # "anchor"
  <2> HIDE DEF M
  <2> QED BY MintsOneAnchor DEF M
<1>1. MintsOK(M, author)
  BY LiveItems, MintsOfCall
<1> HIDE DEF M
<1>2. PICK g : After(t, M) = g[M] /\ MintsAlong(g, t, M)
  BY <1>1, AfterUnfolds, Zenon DEF MintsOK
<1>3. CASE k.do = "anchor"
  <2>1. AnyOf(M) = k /\ M \ {k} = {}
    BY <1>0, <1>3, AnyIsIn
  <2>2. g[M] = Minted(t, k)
    BY <1>0, <1>2, <1>3, <2>1 DEF MintsAlong
  <2>3. MintOK(k, author)
    BY <1>0, <1>1, <1>3 DEF MintsOK
  <2> QED BY <1>2, <1>3, <2>2, <2>3, MintedAdds DEF M
<1>4. CASE k.do # "anchor"
  <2> DEFINE Good(u) == Engine(u, author) /\ \E N : Adds(t, u, N) /\ AnchorsAre(N, {})
             T == {s \in SUBSET M : Good(g[s])}
  <2>1. ASSUME NEW s \in SUBSET M, \A u \in SUBSET s : u # s => u \in T PROVE s \in T
    <3>1. CASE s = {}
      BY <1>2, <3>1, AddsNothing DEF MintsAlong
    <3>2. CASE s # {}
      <4> DEFINE u == s \ {AnyOf(s)}
      <4>1. u \in T /\ AnyOf(s) \in M
        BY <2>1, <3>2, AnyIsIn
      <4>2. g[s] = Minted(g[u], AnyOf(s))
        BY <1>2, <3>2 DEF MintsAlong
      <4>3. MintOK(AnyOf(s), author) /\ AnyOf(s).do # "anchor"
        BY <1>0, <1>1, <1>4, <4>1 DEF MintsOK
      <4>4. Good(g[u])
        BY <4>1
      <4> HIDE DEF u
      <4>5. PICK N : Adds(t, g[u], N) /\ AnchorsAre(N, {})
        BY <4>4
      <4>6. PICK O : Adds(g[u], g[s], O) /\ AnchorsAre(O, {})
        BY <4>2, <4>3, <4>4, MintedAdds
      <4>7. Adds(t, g[s], N \cup O)
        BY <4>4, <4>5, <4>6, AddsThen DEF Engine
      <4>8. AnchorsAre(N \cup O, {})
        BY <4>5, <4>6 DEF AnchorsAre
      <4>9. Engine(g[s], author)
        BY <4>2, <4>3, <4>4, MintedSpares
      <4> QED BY <4>7, <4>8, <4>9
    <3> QED BY <3>1, <3>2
  <2>2. M \in T
    <3> HIDE DEF T
    <3>1. \A s \in SUBSET M : (\A u \in SUBSET s : u # s => u \in T) => s \in T
      BY <2>1
    <3> QED BY <1>1, <3>1, FiniteInduction, Zenon DEF MintsOK
  <2>3. PICK N : Adds(t, g[M], N) /\ AnchorsAre(N, {})
    BY <2>2
  <2>4. Alone(N)
    BY <2>3 DEF AnchorsAre, Alone
  <2> QED BY <1>2, <1>4, <2>3, <2>4 DEF M
<1> QED BY <1>3, <1>4

-----------------------------------------------------------------------------
(* What folding adds.                                                      *)

ItemsOf(B) == UNION {b.items : b \in B}
SaidBy(B) == UNION {Committed(b.items, b.by) : b \in B}

\* A batch that agrees with what is there on every anchor only comes on top.
LEMMA MergeAdds ==
  ASSUME NEW author, NEW t, Engine(t, author), NEW batch, Items(batch), NEW by,
         Alone(t.items \cup batch)
  PROVE  LET u == Merge(t, batch, by)
         IN  /\ u.items = t.items \cup batch
             /\ u.committers = t.committers \cup Committed(batch, by)
             /\ u.pending = t.pending /\ u.moderators = t.moderators
<1>1. Insert(t.items, batch) = t.items \cup batch
  BY InsertAdds DEF Engine, Alone
<1> QED BY <1>1, MergeIs DEF Engine

\* So does folding batches, in whatever order.
LEMMA FoldAdds ==
  ASSUME NEW author, NEW t, Engine(t, author), NEW B, Batches(B), Alone(t.items \cup ItemsOf(B))
  PROVE  LET u == Fold(t, B)
         IN  /\ u.items = t.items \cup ItemsOf(B)
             /\ u.committers = t.committers \cup SaidBy(B)
             /\ u.pending = t.pending /\ u.moderators = t.moderators
<1>0. IsFiniteSet(B)
  BY DEF Batches
<1>1. PICK g : Fold(t, B) = g[B] /\ FoldsAlong(g, t, B)
  BY <1>0, FoldUnfolds, Zenon
<1> DEFINE Good(u, s) == /\ Engine(u, author)
                         /\ u.items = t.items \cup ItemsOf(s)
                         /\ u.committers = t.committers \cup SaidBy(s)
                         /\ u.pending = t.pending /\ u.moderators = t.moderators
           T == {s \in SUBSET B : Good(g[s], s)}
<1>2. ASSUME NEW s \in SUBSET B, \A u \in SUBSET s : u # s => u \in T PROVE s \in T
  <2>1. CASE s = {}
    <3>1. ItemsOf(s) = {} /\ SaidBy(s) = {}
      BY <2>1 DEF ItemsOf, SaidBy
    <3> QED BY <1>1, <2>1, <3>1 DEF FoldsAlong
  <2>2. CASE s # {}
    <3> DEFINE b == AnyOf(s)
               u == s \ {b}
    <3>1. u \in T /\ b \in B /\ b \in s
      BY <1>2, <2>2, AnyIsIn
    <3>2. g[s] = Merge(g[u], b.items, b.by)
      BY <1>1, <2>2 DEF FoldsAlong
    <3>3. s = u \cup {b}
      BY <3>1
    <3> HIDE DEF u, b
    <3>4. /\ ItemsOf(s) = ItemsOf(u) \cup b.items
          /\ SaidBy(s) = SaidBy(u) \cup Committed(b.items, b.by)
      BY <3>3 DEF ItemsOf, SaidBy
    <3>5. Good(g[u], u) /\ Items(b.items)
      BY <3>1 DEF Batches
    <3>6. Alone(g[u].items \cup b.items)
      <4>1. ItemsOf(s) \subseteq ItemsOf(B)
        BY DEF ItemsOf
      <4> QED BY <3>4, <3>5, <4>1 DEF Alone
    <3>7. Engine(g[s], author)
      BY <3>2, <3>5, MergeEngine
    <3> QED BY <3>2, <3>4, <3>5, <3>6, <3>7, MergeAdds
  <2> QED BY <2>1, <2>2
<1>3. B \in T
  <2> HIDE DEF T
  <2>1. \A s \in SUBSET B : (\A u \in SUBSET s : u # s => u \in T) => s \in T
    BY <1>2
  <2> QED BY <1>0, <2>1, FiniteInduction, Zenon
<1> QED BY <1>1, <1>3

\* A fresh engine over a snapshot holds what it keeps and the batches after it.
Since(s, B) == B \ s.covers
LEMMA OpenedFrom ==
  ASSUME NEW author, NEW dids, NEW s, Items(s.live), NEW B, Batches(B),
         Alone(s.live \cup ItemsOf(Since(s, B)))
  PROVE  LET u == Opened(author, dids, s, B)
         IN  /\ u.items = s.live \cup ItemsOf(Since(s, B)) /\ u.committers = SaidBy(Since(s, B))
             /\ u.pending = {} /\ u.moderators = dids
<1> DEFINE z == SetModerators(NewTree(author), dids)
           t == LoadSnapshot(z, s.live)
<1>1. Opened(author, dids, s, B) = Fold(t, Since(s, B))
  BY DEF Opened, Since
<1>2. /\ Engine(z, author) /\ z.items = {} /\ z.committers = {} /\ z.pending = {}
      /\ z.moderators = dids
  BY NewEngine, NewTreeIs, FlushIs
<1> HIDE DEF z
<1>3. Engine(t, author) /\ t.items = s.live /\ t.committers = {} /\ t.pending = {} /\ t.moderators = dids
  <2>1. DOMAIN z = Fields
    BY <1>2 DEF Engine
  <2>2. Engine(t, author) /\ t.items = Insert({}, s.live) /\ t.pending = z.pending
        /\ t.committers = z.committers /\ t.moderators = z.moderators
    BY <1>2, <2>1, LoadIs, MergeEngine
  <2>3. Insert({}, s.live) = s.live
    BY DEF Insert
  <2> QED BY <1>2, <2>2, <2>3
<1>4. Batches(Since(s, B))
  BY FS_Difference DEF Batches, Since
<1> HIDE DEF t
<1>5. /\ Fold(t, Since(s, B)).items = t.items \cup ItemsOf(Since(s, B))
      /\ Fold(t, Since(s, B)).committers = t.committers \cup SaidBy(Since(s, B))
      /\ Fold(t, Since(s, B)).pending = t.pending /\ Fold(t, Since(s, B)).moderators = t.moderators
  BY <1>3, <1>4, FoldAdds
<1> QED BY <1>1, <1>3, <1>5

\* Without a snapshot it holds the batches, and nothing else.
LEMMA OpenedIs ==
  ASSUME NEW author, NEW dids, NEW B, Batches(B), Alone(ItemsOf(B))
  PROVE  LET u == Opened(author, dids, NoSnapshot, B)
         IN  /\ u.items = ItemsOf(B) /\ u.committers = SaidBy(B)
             /\ u.pending = {} /\ u.moderators = dids
<1>1. NoSnapshot.live = {} /\ Since(NoSnapshot, B) = B
  BY DEF NoSnapshot, Since
<1>2. Items(NoSnapshot.live) /\ Alone(NoSnapshot.live \cup ItemsOf(Since(NoSnapshot, B)))
  BY <1>1, FS_EmptySet DEF Items
<1> DEFINE u == Opened(author, dids, NoSnapshot, B)
<1>3. /\ u.items = NoSnapshot.live \cup ItemsOf(Since(NoSnapshot, B))
      /\ u.committers = SaidBy(Since(NoSnapshot, B))
      /\ u.pending = {} /\ u.moderators = dids
  BY <1>2, OpenedFrom
<1> HIDE DEF u
<1> QED BY <1>1, <1>3 DEF u

-----------------------------------------------------------------------------
(* The invariant of agreement.                                             *)

\* What has been minted and not lost, and what one device has of it.
AllItems == ItemsOf(log) \cup UNION {tree[d].pending : d \in Devices}
Folded(d) ==
  /\ tree[d].items = ItemsOf(got[d]) \cup tree[d].pending
  /\ tree[d].committers = SaidBy(got[d]) \cup Committed(tree[d].pending, AuthorOf[d])

\* The ids that wait in a device's calls wait nowhere else and are not there yet.
AheadOK(d) ==
  /\ task[d].stage = "calling" => \E I : Uses(task[d].calls, I)
  /\ AnchorsAhead(d) \cap AnchorsOf(AllItems) = {}
  /\ \A e \in Devices \ {d} : AnchorsAhead(d) \cap AnchorsAhead(e) = {}
\* No anchor of a device's is somebody else's lost one.
Held(d) == \A i \in tree[d].items : AnAnchor(i) => i \in ItemsOf(log) \cup tree[d].pending
IdsOK == Alone(AllItems) /\ Spent /\ \A d \in Devices : AheadOK(d)

Agreed == IdsOK /\ snapshot = NoSnapshot /\ \A d \in Devices : Folded(d)
AgreeInv == checkpoints \in Nat /\ (checkpoints = 0 => Agreed)

LEMMA TakenIs ==
  /\ Taken = AnchorsOf(AllItems) \cup UNION {AnchorsAhead(d) : d \in Devices}
  /\ Taken' = AnchorsOf(AllItems') \cup UNION {AnchorsAhead(d)' : d \in Devices}
<1> DEFINE Ids(B, f, g) == (UNION {AnchorsOf(b.items) : b \in B})
                             \cup UNION {AnchorsOf(f[d].pending) \cup g[d] : d \in Devices}
           All(B, f) == ItemsOf(B) \cup UNION {f[d].pending : d \in Devices}
<1>1. \A B, f, g : Ids(B, f, g) = AnchorsOf(All(B, f)) \cup UNION {g[d] : d \in Devices}
  <2> SUFFICES ASSUME NEW B, NEW f, NEW g
               PROVE  Ids(B, f, g) = AnchorsOf(All(B, f)) \cup UNION {g[d] : d \in Devices}
    OBVIOUS
  <2> DEFINE logged == UNION {AnchorsOf(b.items) : b \in B}
             pending == UNION {f[d].pending : d \in Devices}
             minted == UNION {AnchorsOf(f[d].pending) : d \in Devices}
             ahead == UNION {g[d] : d \in Devices}
             both == UNION {AnchorsOf(f[d].pending) \cup g[d] : d \in Devices}
  <2>1. \A S, x : x \in AnchorsOf(S) <=> \E i \in S : i.kind = "anchor" /\ i.id = x
    BY DEF AnchorsOf
  <2>2. logged = AnchorsOf(ItemsOf(B)) /\ minted = AnchorsOf(pending)
    BY <2>1 DEF ItemsOf
  <2>3. both = minted \cup ahead
    OBVIOUS
  <2>4. \A S, T : AnchorsOf(S \cup T) = AnchorsOf(S) \cup AnchorsOf(T)
    BY <2>1
  <2>5. Ids(B, f, g) = logged \cup both /\ All(B, f) = ItemsOf(B) \cup pending
    OBVIOUS
  <2> HIDE DEF Ids, All, logged, pending, minted, ahead, both
  <2>6. Ids(B, f, g) = AnchorsOf(All(B, f)) \cup ahead
    BY <2>2, <2>3, <2>4, <2>5
  <2> QED BY <2>6 DEF ahead
<1> DEFINE g == [d \in Devices |-> AnchorsAhead(d)]
           h == [d \in Devices |-> AnchorsAhead(d)']
<1>2. /\ Taken = Ids(log, tree, g) /\ All(log, tree) = AllItems
      /\ Taken' = Ids(log', tree', h) /\ All(log', tree') = AllItems'
  BY DEF Taken, AllItems
<1>3. /\ UNION {g[d] : d \in Devices} = UNION {AnchorsAhead(d) : d \in Devices}
      /\ UNION {h[d] : d \in Devices} = UNION {AnchorsAhead(d)' : d \in Devices}
  OBVIOUS
<1> HIDE DEF Ids, All, g, h
<1> QED BY <1>1, <1>2, <1>3

LEMMA AllAreItems ==
  ASSUME EditorInv
  PROVE  /\ \A i \in AllItems : AnItem(i)
         /\ \A i \in AllItems : i.kind = "anchor" <=> AnAnchor(i)
<1>1. \A i \in AllItems : AnItem(i)
  BY DEF AllItems, ItemsOf, EditorInv, Batches, Items, DeviceOK, Engine
<1> QED BY <1>1, Kinds DEF AnItem, ARecord

\* Nothing comes to have an id, and no call waits that did not.
LEMMA NoNewIds ==
  ASSUME IdsOK, AllItems' \subseteq AllItems, fresh' = fresh,
         \A d \in Devices : task'[d] = task[d] \/ task'[d].stage # "calling"
  PROVE  IdsOK'
<1>1. \A d \in Devices : AnchorsAhead(d)' \subseteq AnchorsAhead(d)
  BY DEF AnchorsAhead
<1>2. AnchorsOf(AllItems') \subseteq AnchorsOf(AllItems)
  BY DEF AnchorsOf
<1>3. Taken' \subseteq Taken
  BY <1>1, <1>2, TakenIs
<1>4. Spent'
  BY <1>3 DEF IdsOK, Spent
<1>5. Alone(AllItems')
  BY DEF IdsOK, Alone
<1>6. ASSUME NEW d \in Devices PROVE AheadOK(d)'
  <2>1. AheadOK(d)
    BY DEF IdsOK
  <2>2. task'[d].stage = "calling" => \E I : Uses(task'[d].calls, I)
    BY <2>1 DEF AheadOK
  <2>3. AnchorsAhead(d)' \cap AnchorsOf(AllItems') = {}
    BY <1>1, <1>2, <2>1 DEF AheadOK
  <2>4. \A e \in Devices \ {d} : AnchorsAhead(d)' \cap AnchorsAhead(e)' = {}
    BY <1>1, <2>1 DEF AheadOK
  <2> QED BY <2>2, <2>3, <2>4 DEF AheadOK
<1> QED BY <1>4, <1>5, <1>6 DEF IdsOK

\* An operation starts with ids that nobody has.
LEMMA AsksIds ==
  ASSUME EditorInv, IdsOK, NEW d \in Devices, Asks(d)
  PROVE  IdsOK' /\ UNCHANGED <<tree, log, got, snapshot>>
<1>1. PICK n \in Nat : \E calls : Began(d, n, calls)
  BY DEF Asks
<1>2. PICK calls : Began(d, n, calls)
  BY <1>1
<1>3. PICK inverse, goal : Start(d, n, calls, inverse, goal)
  BY <1>2 DEF Began
<1>4. PICK I : Uses(calls, I) /\ Free(I, n)
  BY <1>2 DEF Began
<1>5. /\ task'[d].stage = "calling" /\ task'[d].calls = calls
      /\ \A e \in Devices \ {d} : task'[e] = task[e]
      /\ fresh' = fresh + 3 * n
      /\ tree' = tree /\ log' = log /\ got' = got /\ snapshot' = snapshot
  BY <1>3 DEF Start, EditorInv, OnDevices, engine, shared
<1>6. AllItems' = AllItems
  BY <1>5 DEF AllItems
<1>7. AnchorsAhead(d)' \subseteq I /\ \A e \in Devices \ {d} : AnchorsAhead(e)' = AnchorsAhead(e)
  BY <1>4, <1>5 DEF AnchorsAhead, AnchorsIn, Uses
<1>8. \A x \in I : x \in AnchorId /\ x \notin Taken /\ x.n < fresh + 3 * n
  BY <1>4 DEF Free
<1>9. \A x \in Taken' : x \in Taken \/ x \in I
  BY <1>6, <1>7, TakenIs
<1>10. Spent'
  <2>1. fresh \in Nat /\ FirstFresh <= fresh /\ \A x \in Taken : x \in AnchorId /\ x.n < fresh
    BY DEF EditorInv, IdsOK, Spent
  <2>2. \A x \in AnchorId : x.n \in Nat
    BY DEF AnchorId
  <2>3. 3 * n \in Nat
    OBVIOUS
  <2>4. \A x \in Taken' : x \in AnchorId /\ x.n < fresh + 3 * n
    BY <1>8, <1>9, <2>1, <2>2, <2>3
  <2>5. FirstFresh <= fresh + 3 * n
    BY <2>1, <2>3 DEF FirstFresh
  <2> QED BY <1>5, <2>4, <2>5 DEF Spent
<1>11. ASSUME NEW e \in Devices PROVE AheadOK(e)'
  <2>1. AheadOK(e)
    BY DEF IdsOK
  <2>2. task'[e].stage = "calling" => \E J : Uses(task'[e].calls, J)
    BY <1>4, <1>5, <2>1 DEF AheadOK
  <2>3. AnchorsAhead(e)' \cap AnchorsOf(AllItems') = {}
    BY <1>6, <1>7, <1>8, <2>1, TakenIs DEF AheadOK
  <2>4. \A f \in Devices \ {e} : AnchorsAhead(e)' \cap AnchorsAhead(f)' = {}
    BY <1>7, <1>8, <2>1, TakenIs DEF AheadOK
  <2> QED BY <2>2, <2>3, <2>4 DEF AheadOK
<1>12. Alone(AllItems')
  BY <1>6 DEF IdsOK
<1> QED BY <1>5, <1>10, <1>11, <1>12 DEF IdsOK

\* A call turns the id that it asserts, if any, from one ahead into one that is there.
LEMMA CallIds ==
  ASSUME EditorInv, IdsOK, NEW d \in Devices, Held(d), Call(d)
  PROVE  /\ IdsOK' /\ \E N : Adds(tree[d], tree'[d], N)
         /\ \A e \in Devices \ {d} : tree'[e] = tree[e]
         /\ UNCHANGED <<log, got, snapshot>>
<1> DEFINE t == tree[d]
           k == Head(task[d].calls)
           u == After(t, Mints(k, Live(t), AuthorOf[d], removeOpId[d]))
           I == IF k.do = "anchor" THEN {k.id} ELSE {}
<1>1. Engine(t, AuthorOf[d]) /\ Author(d) = AuthorOf[d] /\ TaskOK(task[d], AuthorOf[d])
  BY DEF EditorInv, DeviceOK, Engine, Author
<1>2. /\ task[d].stage = "calling" /\ task[d].calls # <<>>
      /\ task' = [task EXCEPT ![d].calls = Tail(@)] /\ tree' = [tree EXCEPT ![d] = u]
      /\ UNCHANGED <<shared, fresh>>
  BY <1>1 DEF Call
<1> HIDE DEF u
<1>3. /\ tree'[d] = u /\ \A e \in Devices \ {d} : tree'[e] = tree[e]
      /\ \A e \in Devices \ {d} : task'[e] = task[e]
      /\ log' = log /\ got' = got /\ snapshot' = snapshot /\ fresh' = fresh
  BY <1>2 DEF EditorInv, OnDevices, shared
<1>4. task'[d].calls = Tail(task[d].calls) /\ task'[d].stage = "calling"
  <2>1. DOMAIN task[d] = TaskFields
    BY <1>1, <1>2, NotIdle DEF TaskOK
  <2>2. task'[d] = [task[d] EXCEPT !.calls = Tail(task[d].calls)]
    BY <1>2 DEF EditorInv, OnDevices
  <2> QED BY <1>2, <2>1, <2>2 DEF TaskFields
<1>5. AheadOK(d) /\ \E J : Uses(task[d].calls, J)
  BY <1>2 DEF IdsOK, AheadOK
<1>6. PICK J : Uses(task[d].calls, J)
  BY <1>5
<1>7. /\ Uses(Tail(task[d].calls), J)
      /\ AnchorsIn(Tail(task[d].calls)) \subseteq AnchorsIn(task[d].calls)
      /\ k.do = "anchor" => k.id \in AnchorsIn(task[d].calls) \ AnchorsIn(Tail(task[d].calls))
  BY <1>2, <1>6, UsesTail
<1>8. /\ AnchorsAhead(d) = AnchorsIn(task[d].calls)
      /\ AnchorsAhead(d)' = AnchorsIn(Tail(task[d].calls))
      /\ \A e \in Devices \ {d} : AnchorsAhead(e)' = AnchorsAhead(e)
  BY <1>2, <1>3, <1>4 DEF AnchorsAhead
<1>9. CallOK(k, AuthorOf[d])
  BY <1>1, <1>2, CallsHead, NotIdle DEF TaskOK
<1>10. ~Throws(k, removeOpId[d])
  BY DEF Call
<1>11. \A i \in t.items : AnAnchor(i) => i \in AllItems
  BY DEF Held, AllItems
<1> HIDE DEF k
<1>12. I \subseteq AnchorsAhead(d) \ AnchorsAhead(d)'
  BY <1>7, <1>8
<1>13. \A i \in AllItems : AnAnchor(i) => i.id \notin AnchorsAhead(d)
  BY <1>5, AllAreItems DEF AheadOK, AnchorsOf
<1>14. k.do = "anchor" => \A i \in t.items : AnAnchor(i) => i.id # k.id
  BY <1>11, <1>12, <1>13
<1> HIDE DEF t
<1>15. PICK N : Adds(t, u, N) /\ Alone(N) /\ AnchorsAre(N, I)
  BY <1>1, <1>9, <1>10, <1>14, AfterAdds DEF u
<1> HIDE DEF I
<1>16. AllItems' = AllItems \cup N
  <2>1. u.pending = tree[d].pending \cup N
    BY <1>15 DEF Adds, t
  <2>2. \A x : x \in UNION {tree'[e].pending : e \in Devices}
                 <=> x \in (UNION {tree[e].pending : e \in Devices}) \cup N
    BY <1>3, <2>1
  <2> QED BY <1>3, <2>2 DEF AllItems
<1>17. \A x \in AnchorsOf(AllItems') : x \in AnchorsOf(AllItems) \/ x \in I
  <2>1. \A i \in N : i.kind = "anchor" => i.id \in I
    <3>1. \A i \in N : AnItem(i)
      BY <1>15 DEF Adds, Items
    <3> QED BY <1>15, <3>1, Kinds DEF AnItem, ARecord, AnchorsAre
  <2> QED BY <1>16, <2>1 DEF AnchorsOf
<1>18. Alone(AllItems')
  <2>1. Alone(AllItems)
    BY DEF IdsOK
  <2> QED BY <1>12, <1>13, <1>15, <1>16, <2>1 DEF Alone, AnchorsAre
<1>19. Spent'
  <2>1. Taken' \subseteq Taken
    BY <1>7, <1>8, <1>12, <1>17, TakenIs
  <2> QED BY <1>3, <2>1 DEF IdsOK, Spent
<1>20. ASSUME NEW e \in Devices PROVE AheadOK(e)'
  <2>1. AheadOK(e)
    BY DEF IdsOK
  <2>2. task'[e].stage = "calling" => \E K : Uses(task'[e].calls, K)
    BY <1>3, <1>4, <1>7, <2>1 DEF AheadOK
  <2>3. \A f \in Devices : AnchorsAhead(f)' \subseteq AnchorsAhead(f)
    BY <1>7, <1>8
  <2>4. AnchorsAhead(e)' \cap AnchorsOf(AllItems') = {}
    BY <1>5, <1>12, <1>17, <2>1, <2>3 DEF AheadOK
  <2>5. \A f \in Devices \ {e} : AnchorsAhead(e)' \cap AnchorsAhead(f)' = {}
    BY <2>1, <2>3 DEF AheadOK
  <2> QED BY <2>2, <2>4, <2>5 DEF AheadOK
<1>21. Adds(tree[d], tree'[d], N)
  BY <1>3, <1>15 DEF t
<1> QED BY <1>3, <1>18, <1>19, <1>20, <1>21 DEF IdsOK

LEMMA FoldedHolds ==
  ASSUME EditorInv, NEW d \in Devices, Folded(d)
  PROVE  Held(d)
<1>1. ItemsOf(got[d]) \subseteq ItemsOf(log)
  BY DEF EditorInv, ItemsOf
<1> QED BY <1>1 DEF Folded, Held

LEMMA AsksAgreed ==
  ASSUME EditorInv, Agreed, NEW d \in Devices, Asks(d)
  PROVE  Agreed'
  BY AsksIds DEF Agreed, Folded

LEMMA CallAgreed ==
  ASSUME EditorInv, Agreed, NEW d \in Devices, Call(d)
  PROVE  Agreed'
<1>1. /\ IdsOK' /\ \E N : Adds(tree[d], tree'[d], N)
      /\ \A e \in Devices \ {d} : tree'[e] = tree[e]
      /\ UNCHANGED <<log, got, snapshot>>
  BY FoldedHolds, CallIds DEF Agreed
<1>2. PICK N : Adds(tree[d], tree'[d], N)
  BY <1>1
<1>3. tree[d].author = AuthorOf[d] /\ Folded(d)
  BY DEF EditorInv, DeviceOK, Engine, Agreed
<1>4. Committed(tree[d].pending \cup N, AuthorOf[d])
        = Committed(tree[d].pending, AuthorOf[d]) \cup Committed(N, AuthorOf[d])
  BY DEF Committed
<1>5. Folded(d)'
  BY <1>1, <1>2, <1>3, <1>4 DEF Folded, Adds
<1>6. \A e \in Devices \ {d} : Folded(e)'
  BY <1>1 DEF Agreed, Folded
<1> QED BY <1>1, <1>5, <1>6 DEF Agreed

\* What is pending goes into the log as it is.
LEMMA CommitIds ==
  ASSUME EditorInv, NEW d \in Devices, Commit(d)
  PROVE  /\ IdsOK => IdsOK'
         /\ \E new : /\ log' = log \cup new /\ got'[d] = got[d] \cup new
                     /\ ItemsOf(new) = tree[d].pending
                     /\ SaidBy(new) = Committed(tree[d].pending, AuthorOf[d])
         /\ tree'[d].items = tree[d].items /\ tree'[d].pending = {}
         /\ tree'[d].committers = tree[d].committers
         /\ \A e \in Devices \ {d} : tree'[e] = tree[e] /\ got'[e] = got[e]
         /\ snapshot' = snapshot
<1> DEFINE batch == [from |-> d, n |-> Cardinality(BatchesOf(d)) + 1,
                     items |-> tree[d].pending, by |-> Author(d)]
           new == IF tree[d].pending = {} THEN {} ELSE {batch}
<1>1. /\ log' = log \cup new /\ got' = [got EXCEPT ![d] = @ \cup new]
      /\ tree' = [tree EXCEPT ![d] = Flushed(@)] /\ task' = [task EXCEPT ![d].stage = "committed"]
      /\ snapshot' = snapshot /\ fresh' = fresh
  BY DEF Commit
<1>2. Engine(tree[d], AuthorOf[d]) /\ Author(d) = AuthorOf[d] /\ TaskOK(task[d], AuthorOf[d])
  BY DEF EditorInv, DeviceOK, Engine, Author
<1>3. /\ ItemsOf(new) = tree[d].pending
      /\ SaidBy(new) = Committed(tree[d].pending, AuthorOf[d])
  <2>1. batch.items = tree[d].pending /\ batch.by = AuthorOf[d]
    BY <1>2
  <2> HIDE DEF batch
  <2> QED BY <2>1 DEF ItemsOf, SaidBy, Committed
<1> HIDE DEF new
<1>4. /\ tree'[d] = Flushed(tree[d]) /\ \A e \in Devices \ {d} : tree'[e] = tree[e]
      /\ got'[d] = got[d] \cup new /\ \A e \in Devices \ {d} : got'[e] = got[e]
      /\ \A e \in Devices \ {d} : task'[e] = task[e]
  BY <1>1 DEF EditorInv, OnDevices
<1>5. task'[d].stage = "committed"
  <2>1. DOMAIN task[d] = TaskFields
    BY <1>2, NotIdle DEF TaskOK, Commit
  <2>2. task'[d] = [task[d] EXCEPT !.stage = "committed"]
    BY <1>1 DEF EditorInv, OnDevices
  <2> QED BY <2>1, <2>2 DEF TaskFields
<1>6. /\ tree'[d].items = tree[d].items /\ tree'[d].pending = {}
      /\ tree'[d].committers = tree[d].committers
  BY <1>2, <1>4, FlushIs DEF Engine
<1>7. \A S, T : ItemsOf(S \cup T) = ItemsOf(S) \cup ItemsOf(T) /\ SaidBy(S \cup T) = SaidBy(S) \cup SaidBy(T)
  BY DEF ItemsOf, SaidBy
<1>8. AllItems' \subseteq AllItems
  BY <1>1, <1>3, <1>4, <1>6, <1>7 DEF AllItems
<1>9. IdsOK => IdsOK'
  BY <1>1, <1>4, <1>5, <1>8, NoNewIds
<1> QED BY <1>1, <1>3, <1>4, <1>6, <1>9

LEMMA CommitAgreed ==
  ASSUME EditorInv, Agreed, NEW d \in Devices, Commit(d)
  PROVE  Agreed'
<1>1. PICK new : /\ log' = log \cup new /\ got'[d] = got[d] \cup new
                 /\ ItemsOf(new) = tree[d].pending
                 /\ SaidBy(new) = Committed(tree[d].pending, AuthorOf[d])
  BY CommitIds
<1>2. /\ IdsOK' /\ snapshot' = NoSnapshot
      /\ tree'[d].items = tree[d].items /\ tree'[d].pending = {}
      /\ tree'[d].committers = tree[d].committers
      /\ \A e \in Devices \ {d} : tree'[e] = tree[e] /\ got'[e] = got[e]
  BY CommitIds DEF Agreed
<1>3. ASSUME NEW e \in Devices PROVE Folded(e)'
  <2>1. Folded(e)
    BY DEF Agreed
  <2>2. CASE e = d
    <3>1. Committed({}, AuthorOf[d]) = {}
      BY DEF Committed
    <3>2. ItemsOf(got'[d]) = ItemsOf(got[d]) \cup tree[d].pending
      <4>1. ItemsOf(got[d] \cup new) = ItemsOf(got[d]) \cup ItemsOf(new)
        BY DEF ItemsOf
      <4> QED BY <1>1, <4>1
    <3>3. SaidBy(got'[d]) = SaidBy(got[d]) \cup Committed(tree[d].pending, AuthorOf[d])
      <4>1. SaidBy(got[d] \cup new) = SaidBy(got[d]) \cup SaidBy(new)
        BY DEF SaidBy
      <4> QED BY <1>1, <4>1
    <3>4. tree'[d].items = ItemsOf(got'[d]) \cup tree'[d].pending
      BY <1>2, <2>1, <2>2, <3>2 DEF Folded
    <3>5. tree'[d].committers = SaidBy(got'[d]) \cup Committed(tree'[d].pending, AuthorOf[d])
      BY <1>2, <2>1, <2>2, <3>1, <3>3 DEF Folded
    <3> QED BY <2>2, <3>4, <3>5 DEF Folded
  <2>3. CASE e # d
    BY <1>2, <2>1, <2>3 DEF Folded
  <2> QED BY <2>2, <2>3
<1> QED BY <1>2, <1>3 DEF Agreed

\* A batch of a peer comes on top of what a device holds.
LEMMA ReceiveAgreed ==
  ASSUME EditorInv, Agreed, NEW d \in Devices, NEW b \in log, Receive(d, b)
  PROVE  Agreed'
<1>1. Engine(tree[d], AuthorOf[d]) /\ Items(b.items)
  BY DEF EditorInv, DeviceOK, Batches
<1>2. /\ tree'[d] = Merge(tree[d], b.items, b.by) /\ \A e \in Devices \ {d} : tree'[e] = tree[e]
      /\ got'[d] = got[d] \cup {b} /\ \A e \in Devices \ {d} : got'[e] = got[e]
      /\ log' = log /\ snapshot' = snapshot /\ task' = task /\ fresh' = fresh
  BY DEF Receive, EditorInv, OnDevices
<1>3. tree[d].items \cup b.items \subseteq AllItems
  <2>1. ItemsOf(got[d]) \subseteq ItemsOf(log) /\ b.items \subseteq ItemsOf(log)
    BY DEF EditorInv, ItemsOf
  <2> QED BY <2>1 DEF Agreed, Folded, AllItems
<1>4. Alone(tree[d].items \cup b.items)
  BY <1>3 DEF Agreed, IdsOK, Alone
<1>5. /\ tree'[d].items = tree[d].items \cup b.items /\ tree'[d].pending = tree[d].pending
      /\ tree'[d].committers = tree[d].committers \cup Committed(b.items, b.by)
  BY <1>1, <1>2, <1>4, MergeAdds
<1>6. AllItems' \subseteq AllItems
  BY <1>2, <1>5 DEF AllItems
<1>7. IdsOK'
  BY <1>2, <1>6, NoNewIds DEF Agreed
<1>8. ASSUME NEW e \in Devices PROVE Folded(e)'
  <2>1. Folded(e)
    BY DEF Agreed
  <2>2. CASE e = d
    <3>1. /\ ItemsOf(got'[d]) = ItemsOf(got[d]) \cup b.items
          /\ SaidBy(got'[d]) = SaidBy(got[d]) \cup Committed(b.items, b.by)
      BY <1>2 DEF ItemsOf, SaidBy
    <3> QED BY <1>5, <2>1, <2>2, <3>1 DEF Folded
  <2>3. CASE e # d
    BY <1>2, <2>1, <2>3 DEF Folded
  <2> QED BY <2>2, <2>3
<1> QED BY <1>2, <1>7, <1>8 DEF Agreed

\* A page that opens again folds what it had folded; what was pending is lost.
LEMMA ReopenAgreed ==
  ASSUME EditorInv, Agreed, NEW d \in Devices, Reopen(d)
  PROVE  Agreed'
<1> DEFINE t == Opened(AuthorOf[d], tree[d].moderators, NoSnapshot, got[d])
<1>1. Author(d) = AuthorOf[d] /\ snapshot = NoSnapshot
  BY DEF EditorInv, DeviceOK, Engine, Author, Agreed
<1>2. /\ tree'[d] = t /\ \A e \in Devices \ {d} : tree'[e] = tree[e]
  BY <1>1 DEF Reopen, EditorInv, OnDevices
<1> HIDE DEF t
<1>3. got' = got
  <2>1. got' = [got EXCEPT ![d] = @ \cup {}]
    BY <1>1 DEF Reopen, NoSnapshot
  <2>2. got[d] \cup {} = got[d]
    OBVIOUS
  <2> QED BY <2>1, <2>2 DEF EditorInv, OnDevices
<1>4. /\ log' = log /\ snapshot' = snapshot /\ fresh' = fresh
      /\ task'[d] = Idle /\ \A e \in Devices \ {d} : task'[e] = task[e]
  BY DEF Reopen, EditorInv, OnDevices
<1>5. Batches(got[d]) /\ ItemsOf(got[d]) \subseteq AllItems
  BY FS_Subset DEF EditorInv, Batches, ItemsOf, AllItems
<1>6. Alone(ItemsOf(got[d]))
  BY <1>5 DEF Agreed, IdsOK, Alone
<1>7. t.items = ItemsOf(got[d]) /\ t.committers = SaidBy(got[d]) /\ t.pending = {}
  BY <1>5, <1>6, OpenedIs DEF t
<1>8. AllItems' \subseteq AllItems
  BY <1>2, <1>4, <1>7 DEF AllItems
<1>9. IdsOK'
  BY <1>4, <1>8, NoNewIds, NotIdle DEF Agreed
<1>10. ASSUME NEW e \in Devices PROVE Folded(e)'
  <2>1. CASE e = d
    <3>1. Committed({}, AuthorOf[d]) = {}
      BY DEF Committed
    <3> QED BY <1>2, <1>3, <1>7, <2>1, <3>1 DEF Folded
  <2>2. CASE e # d
    BY <1>2, <1>3, <2>2 DEF Agreed, Folded
  <2> QED BY <2>1, <2>2
<1> QED BY <1>1, <1>4, <1>9, <1>10 DEF Agreed

\* Steps that neither mint nor fold.
LEMMA QuietIds ==
  ASSUME EditorInv, NEW d \in Devices,
         \/ CallThrows(d) \/ Record(d) \/ Hydrate(d)
         \/ \E dids : setModerators(d, dids)
  PROVE  /\ IdsOK => IdsOK'
         /\ \A e \in Devices : /\ tree'[e].items = tree[e].items /\ tree'[e].pending = tree[e].pending
                                /\ tree'[e].committers = tree[e].committers
         /\ UNCHANGED <<log, got, snapshot>>
<1>1. /\ log' = log /\ got' = got /\ snapshot' = snapshot /\ fresh' = fresh
      /\ task' = task \/ task' = [task EXCEPT ![d] = Idle]
  BY DEF CallThrows, Record, Hydrate, setModerators, shared
<1>2. \A e \in Devices : task'[e] = task[e] \/ task'[e].stage # "calling"
  BY <1>1, NotIdle DEF EditorInv, OnDevices
<1>3. \A e \in Devices : /\ tree'[e].items = tree[e].items /\ tree'[e].pending = tree[e].pending
                         /\ tree'[e].committers = tree[e].committers
  <2>1. CASE CallThrows(d) \/ Record(d) \/ Hydrate(d)
    BY <2>1 DEF CallThrows, Record, Hydrate, engine
  <2>2. ASSUME NEW dids, setModerators(d, dids)
        PROVE  \A e \in Devices : /\ tree'[e].items = tree[e].items
                                  /\ tree'[e].pending = tree[e].pending
                                  /\ tree'[e].committers = tree[e].committers
    <3>1. /\ tree'[d] = SetModerators(tree[d], dids)
          /\ \A e \in Devices \ {d} : tree'[e] = tree[e]
      BY <2>2 DEF setModerators, EditorInv, OnDevices
    <3>2. DOMAIN tree[d] = Fields
      BY DEF EditorInv, DeviceOK, Engine
    <3> QED BY <3>1, <3>2, FlushIs
  <2> QED BY <2>1, <2>2
<1>4. AllItems' \subseteq AllItems
  BY <1>1, <1>3 DEF AllItems
<1>5. IdsOK => IdsOK'
  BY <1>1, <1>2, <1>4, NoNewIds
<1> QED BY <1>1, <1>3, <1>5

LEMMA QuietAgreed ==
  ASSUME EditorInv, Agreed, NEW d \in Devices,
         \/ CallThrows(d) \/ Record(d) \/ Hydrate(d)
         \/ \E dids : setModerators(d, dids)
  PROVE  Agreed'
<1>1. /\ IdsOK' /\ UNCHANGED <<log, got, snapshot>>
      /\ \A e \in Devices : /\ tree'[e].items = tree[e].items /\ tree'[e].pending = tree[e].pending
                             /\ tree'[e].committers = tree[e].committers
  BY QuietIds DEF Agreed
<1>2. \A e \in Devices : Folded(e)'
  BY <1>1 DEF Agreed, Folded
<1> QED BY <1>1, <1>2 DEF Agreed

-----------------------------------------------------------------------------
(* Replicas that have folded the same show the same.                       *)

\* Records that an engine may have imported: an id names one anchor, whose id is
\* none of those that this session's operations will give out.
OwnAnchors(items) ==
  /\ Importable(items) /\ Alone(items)
  /\ \A i \in items : AnAnchor(i) => i.id.n < FirstFresh

LEMMA InitAgreed ==
  ASSUME NEW items, OwnAnchors(items), NEW author, NEW moderators, Init(items, author, moderators)
  PROVE  AgreeInv
<1>0. EditorInv
  BY InitOK DEF OwnAnchors
<1> DEFINE b == Imported(items, author)
<1>1. /\ log = {b} /\ \A d \in Devices : got[d] = log /\ task[d] = Idle
      /\ snapshot = NoSnapshot /\ checkpoints = 0 /\ fresh = FirstFresh
      /\ \A d \in Devices : tree[d] = Merge(SetModerators(NewTree(AuthorOf[d]), moderators), items, author)
  BY DEF Init
<1>2. b.items = items /\ b.by = author
  BY DEF Imported
<1> HIDE DEF b
<1>3. ItemsOf(log) = items /\ SaidBy(log) = Committed(items, author)
  BY <1>1, <1>2 DEF ItemsOf, SaidBy
<1>4. ASSUME NEW d \in Devices PROVE tree[d].pending = {} /\ Folded(d)
  <2> DEFINE t == SetModerators(NewTree(AuthorOf[d]), moderators)
  <2>1. /\ Engine(t, AuthorOf[d]) /\ t.items = {} /\ t.committers = {} /\ t.pending = {}
    BY NewEngine, NewTreeIs, FlushIs
  <2>2. tree[d] = Merge(t, items, author)
    BY <1>1
  <2> HIDE DEF t
  <2>3. Items(items)
    BY DEF OwnAnchors, Importable, Items, AnItem
  <2>4. Alone(t.items \cup items)
    BY <2>1 DEF OwnAnchors, Alone
  <2>5. /\ tree[d].items = t.items \cup items /\ tree[d].pending = t.pending
        /\ tree[d].committers = t.committers \cup Committed(items, author)
    <3>1. Insert(t.items, items) = t.items \cup items
      BY <2>1, <2>3, <2>4, InsertAdds DEF Engine, Alone
    <3>2. DOMAIN t = Fields
      BY <2>1 DEF Engine
    <3> QED BY <2>2, <3>1, <3>2, MergeIs
  <2>6. Committed({}, AuthorOf[d]) = {}
    BY DEF Committed
  <2> QED BY <1>1, <1>3, <2>1, <2>5, <2>6 DEF Folded
<1>5. AllItems = items
  BY <1>3, <1>4 DEF AllItems
<1>6. \A d \in Devices : AnchorsAhead(d) = {}
  BY <1>1, NotIdle DEF AnchorsAhead
<1>7. Spent
  <2>1. \A x \in Taken : \E i \in items : AnAnchor(i) /\ i.id = x
    BY <1>0, <1>5, <1>6, TakenIs, AllAreItems DEF AnchorsOf
  <2> QED BY <1>1, <2>1 DEF Spent, OwnAnchors, AnAnchor, FirstFresh
<1>8. \A d \in Devices : AheadOK(d)
  BY <1>1, <1>6, NotIdle DEF AheadOK
<1> QED BY <1>1, <1>4, <1>5, <1>7, <1>8 DEF AgreeInv, Agreed, IdsOK, OwnAnchors

\* No step makes two replicas disagree before there is a checkpoint.
LEMMA NextAgreed ==
  ASSUME EditorInv, AgreeInv, [Next]_vars
  PROVE  AgreeInv'
<1>1. CASE UNCHANGED vars
  <2>1. checkpoints' = checkpoints /\ tree' = tree /\ log' = log /\ got' = got
        /\ snapshot' = snapshot /\ task' = task /\ fresh' = fresh
    BY <1>1 DEF vars, engine, shared
  <2>2. AllItems' = AllItems
    BY <2>1 DEF AllItems
  <2>3. Agreed => Agreed'
    BY <2>1, <2>2, NoNewIds DEF Agreed, Folded
  <2> QED BY <2>1, <2>3 DEF AgreeInv
<1>2. ASSUME NEW d \in Devices, Checkpoint(d) PROVE AgreeInv'
  BY <1>2 DEF Checkpoint, AgreeInv
<1>3. ASSUME NEW d \in Devices, Operation(d) PROVE AgreeInv'
  <2>1. ASSUME checkpoints = 0 PROVE Agreed'
    BY <1>3, <2>1, OperationAsks, AsksAgreed DEF AgreeInv, Agreed, IdsOK
  <2>2. checkpoints' = checkpoints
    <3>1. \A n, calls, inverse, goal : Start(d, n, calls, inverse, goal) => checkpoints' = checkpoints
      BY DEF Start, shared
    <3>2. \A calls : Edit(d, calls) \/ Unframed(d, calls) => checkpoints' = checkpoints
      BY <3>1 DEF Edit, Unframed
    <3>3. OnPeople(d) => checkpoints' = checkpoints
      BY <3>1, <3>2 DEF OnPeople, createPerson, updatePerson, deletePerson, addMarriage, addParents, seed
    <3>4. OnFamilies(d) => checkpoints' = checkpoints
      BY <3>2 DEF OnFamilies, addChild, removeMarriage, unlinkChild, unlinkSpouse, linkSpouse,
                  setFamilyFacts
    <3>5. OnMedia(d) => checkpoints' = checkpoints
      BY <3>2 DEF OnMedia, attachMedia, setPortrait, detachMedia, setCrop
    <3>6. UndoEdit(d) \/ RedoEdit(d) => checkpoints' = checkpoints
      BY <3>1 DEF UndoEdit, RedoEdit
    <3> QED BY <1>3, <3>3, <3>4, <3>5, <3>6 DEF Operation
  <2> QED BY <2>1, <2>2 DEF AgreeInv
<1>4. ASSUME NEW d \in Devices,
             \/ Mechanics(d) \/ Reopen(d)
             \/ \E dids : setModerators(d, dids)
      PROVE  AgreeInv'
  <2>1. checkpoints' = checkpoints
    BY <1>4 DEF Mechanics, Call, CallThrows, Commit, Record, Receive, Hydrate, Reopen, setModerators,
                shared
  <2>2. Agreed => Agreed'
    BY <1>4, CallAgreed, CommitAgreed, ReceiveAgreed, ReopenAgreed, QuietAgreed DEF Mechanics
  <2> QED BY <2>1, <2>2 DEF AgreeInv
<1> QED BY <1>1, <1>2, <1>3, <1>4 DEF Next, Upkeep

LEMMA AgreeingReplicas ==
  ASSUME EditorInv, AgreeInv
  PROVE  ReplicasAgree
<1> SUFFICES ASSUME NEW d \in Devices, NEW e \in Devices, got[d] = got[e],
                    tree[d].moderators = tree[e].moderators,
                    tree[d].pending = {}, tree[e].pending = {}, checkpoints = 0
             PROVE  Live(tree[d]) = Live(tree[e])
  BY DEF ReplicasAgree
<1>1. Folded(d) /\ Folded(e)
  BY DEF AgreeInv, Agreed
<1>2. Committed({}, AuthorOf[d]) = {} /\ Committed({}, AuthorOf[e]) = {}
  BY DEF Committed
<1> QED BY <1>1, <1>2 DEF Folded, Live

\* Over any records imported, replicas that have folded the same batches under
\* the same moderators show the same records, whatever the order they came in and
\* whatever was edited, undone, closed or opened again since: an id names one
\* anchor for good, so a merge only adds (emit, merge, materialize).
THEOREM ReplicasStayAgreed ==
  ASSUME NEW CONSTANT items, OwnAnchors(items), NEW CONSTANT author, NEW CONSTANT moderators
  PROVE  Spec(items, author, moderators) => []ReplicasAgree
<1>1. Init(items, author, moderators) => EditorInv /\ AgreeInv
  BY InitOK, InitAgreed DEF OwnAnchors
<1>2. EditorInv /\ AgreeInv /\ [Next]_vars => EditorInv' /\ AgreeInv'
  BY NextOK, NextAgreed
<1>3. EditorInv /\ AgreeInv => ReplicasAgree
  BY AgreeingReplicas
<1> QED BY <1>1, <1>2, <1>3, PTL DEF Spec

-----------------------------------------------------------------------------
(* Where what is revoked comes from.                                       *)

\* What a call mints is pending, and what it revokes was remembered.
LEMMA MintedSources ==
  ASSUME NEW author, NEW t, Engine(t, author), NEW m, MintOK(m, author)
  PROVE  LET u == Minted(t, m)
         IN  /\ t.pending \subseteq u.pending
             /\ u.items \subseteq t.items \cup u.pending
             /\ \A v \in u.pending \ t.pending : v.kind = "revoke" => m.do = "revive" /\ v.removal = m.op
<1> DEFINE at == ClockNext(t.clock, now)
           u == Minted(t, m)
           Sourced(new) == \A v \in new : v.kind = "revoke" => m.do = "revive" /\ v.removal = m.op
<1>1. ASSUME NEW new, u = Emit(t, new, at), Sourced(new)
      PROVE  /\ t.pending \subseteq u.pending
             /\ u.items \subseteq t.items \cup u.pending
             /\ \A v \in u.pending \ t.pending : v.kind = "revoke" => m.do = "revive" /\ v.removal = m.op
  <2>1. u.items = Insert(t.items, new) /\ u.pending = t.pending \cup new
    BY <1>1, EmitIs DEF Engine
  <2>2. Insert(t.items, new) \subseteq t.items \cup new
    BY DEF Insert
  <2> HIDE DEF u
  <2> QED BY <1>1, <2>1, <2>2
<1>2. CASE m.do = "anchor"
  <2> DEFINE new == {NewAnchor(m.id, m.type, t.author, at),
                     NewClaim(m.id, "existence", [none |-> 0], t.author, at)}
  <2>1. u = Emit(t, new, at)
    BY <1>2 DEF Minted, AssertAnchor
  <2>2. Sourced(new)
    BY DEF NewAnchor, NewClaim
  <2> HIDE DEF u, new, Sourced
  <2> QED BY <1>1, <2>1, <2>2 DEF u
<1>3. CASE m.do = "assert"
  <2> DEFINE new == {NewClaim(m.target, m.predicate, m.value, t.author, at)}
  <2>1. u = Emit(t, new, at)
    BY <1>3 DEF Minted, AssertClaim
  <2>2. Sourced(new)
    BY DEF NewClaim
  <2> HIDE DEF u, new, Sourced
  <2> QED BY <1>1, <2>1, <2>2 DEF u
<1>4. CASE m.do = "revive"
  <2> DEFINE new == {NewRevoke(m.op, t.author, at)}
  <2>1. u = Emit(t, new, at)
    BY <1>4 DEF Minted, Revoke
  <2>2. Sourced(new)
    BY <1>4 DEF NewRevoke
  <2> HIDE DEF u, new, Sourced
  <2> QED BY <1>1, <2>1, <2>2 DEF u
<1>5. CASE m.do = "edit"
  <2> DEFINE new == {NewSupersede(m.prior, NewClaim(m.target, m.predicate, m.value, t.author, at),
                                  t.author, at)}
  <2>1. u = Emit(t, new, at)
    BY <1>5 DEF Minted, SupersedeClaim
  <2>2. Sourced(new)
    BY DEF NewSupersede
  <2> HIDE DEF u, new, Sourced
  <2> QED BY <1>1, <2>1, <2>2 DEF u
<1>6. CASE m.do = "drop"
  <2> DEFINE new == {NewRemove(m.id, t.author, at)}
  <2>1. u = Emit(t, new, at)
    BY <1>6 DEF Minted, Remove
  <2>2. Sourced(new)
    BY DEF NewRemove
  <2> HIDE DEF u, new, Sourced
  <2> QED BY <1>1, <2>1, <2>2 DEF u
<1> QED BY <1>2, <1>3, <1>4, <1>5, <1>6 DEF MintOK

LEMMA AfterSources ==
  ASSUME NEW author, NEW t, Engine(t, author), NEW k, CallOK(k, author), NEW removals,
         ~Throws(k, removals)
  PROVE  LET u == After(t, Mints(k, Live(t), author, removals))
         IN  /\ t.pending \subseteq u.pending
             /\ u.items \subseteq t.items \cup u.pending
             /\ \A v \in u.pending \ t.pending :
                   v.kind = "revoke" => \E i \in DOMAIN removals : v.removal = removals[i]
<1> DEFINE M == Mints(k, Live(t), author, removals)
<1>1. \A m \in M : m.do = "revive" => \E i \in DOMAIN removals : m.op = removals[i]
  <2> HIDE DEF M
  <2> QED BY MintsOneAnchor DEF M
<1>2. MintsOK(M, author)
  BY LiveItems, MintsOfCall
<1> HIDE DEF M
<1>3. PICK g : After(t, M) = g[M] /\ MintsAlong(g, t, M)
  BY <1>2, AfterUnfolds, Zenon DEF MintsOK
<1> DEFINE Good(u) == /\ Engine(u, author) /\ t.pending \subseteq u.pending
                      /\ u.items \subseteq t.items \cup u.pending
                      /\ \A v \in u.pending \ t.pending :
                            v.kind = "revoke" => \E i \in DOMAIN removals : v.removal = removals[i]
           T == {s \in SUBSET M : Good(g[s])}
<1>4. ASSUME NEW s \in SUBSET M, \A u \in SUBSET s : u # s => u \in T PROVE s \in T
  <2>1. CASE s = {}
    BY <1>3, <2>1 DEF MintsAlong
  <2>2. CASE s # {}
    <3> DEFINE u == s \ {AnyOf(s)}
               m == AnyOf(s)
    <3>1. u \in T /\ m \in M
      BY <1>4, <2>2, AnyIsIn
    <3>2. g[s] = Minted(g[u], m)
      BY <1>3, <2>2 DEF MintsAlong
    <3>3. MintOK(m, author)
      BY <1>2, <3>1 DEF MintsOK
    <3>4. Good(g[u])
      BY <3>1
    <3> HIDE DEF u, m
    <3>5. /\ Engine(g[s], author) /\ g[u].pending \subseteq g[s].pending
          /\ g[s].items \subseteq g[u].items \cup g[s].pending
          /\ \A v \in g[s].pending \ g[u].pending :
                v.kind = "revoke" => m.do = "revive" /\ v.removal = m.op
      BY <3>2, <3>3, <3>4, MintedSources, MintedSpares
    <3>6. Good(g[s])
      BY <1>1, <3>1, <3>4, <3>5
    <3> QED BY <3>6
  <2> QED BY <2>1, <2>2
<1>5. M \in T
  <2> HIDE DEF T
  <2>1. \A s \in SUBSET M : (\A u \in SUBSET s : u # s => u \in T) => s \in T
    BY <1>4
  <2> QED BY <1>2, <2>1, FiniteInduction, Zenon DEF MintsOK
<1> QED BY <1>3, <1>5 DEF M

\* Where an operation is, before and after it: nothing that is kept changes.
LEMMA OperationKeeps ==
  ASSUME NEW d \in Devices, Operation(d)
  PROVE  UNCHANGED <<tree, removeOpId, log, got, snapshot, checkpoints>>
<1>1. \A n, calls, inverse, goal : Start(d, n, calls, inverse, goal)
        => UNCHANGED <<tree, removeOpId, log, got, snapshot, checkpoints>>
  BY DEF Start, engine, shared
<1>2. \A calls : Edit(d, calls) \/ Unframed(d, calls)
        => UNCHANGED <<tree, removeOpId, log, got, snapshot, checkpoints>>
  BY <1>1 DEF Edit, Unframed
<1>3. OnPeople(d) => UNCHANGED <<tree, removeOpId, log, got, snapshot, checkpoints>>
  BY <1>1, <1>2 DEF OnPeople, createPerson, updatePerson, deletePerson, addMarriage, addParents, seed
<1>4. OnFamilies(d) => UNCHANGED <<tree, removeOpId, log, got, snapshot, checkpoints>>
  BY <1>2 DEF OnFamilies, addChild, removeMarriage, unlinkChild, unlinkSpouse, linkSpouse,
              setFamilyFacts
<1>5. OnMedia(d) => UNCHANGED <<tree, removeOpId, log, got, snapshot, checkpoints>>
  BY <1>2 DEF OnMedia, attachMedia, setPortrait, detachMedia, setCrop
<1>6. UndoEdit(d) \/ RedoEdit(d) => UNCHANGED <<tree, removeOpId, log, got, snapshot, checkpoints>>
  BY <1>1 DEF UndoEdit, RedoEdit
<1> QED BY <1>3, <1>4, <1>5, <1>6 DEF Operation

-----------------------------------------------------------------------------
(* What is revoked was removed before, by the same device.                 *)

\* A device's batches come in order, each with all before it.
Complete(B) == \A b \in B, c \in log : c.from = b.from /\ c.n < b.n => c \in B
Uttered(d) == tree[d].pending \cup ItemsOf(BatchesOf(d))
Sourced(d) ==
  /\ BatchesOf(d) \subseteq got[d]
  /\ \A b \in BatchesOf(d) : b.n \in 1..Cardinality(BatchesOf(d))
  /\ Complete(got[d])
  /\ \A i \in DOMAIN removeOpId[d] : removeOpId[d][i] \in Uttered(d)
  /\ \A v \in tree[d].pending : v.kind = "revoke" => v.removal \in Uttered(d)
Backed ==
  \A b \in log : \A v \in b.items : v.kind = "revoke" =>
     \E c \in log : v.removal \in c.items /\ (c = b \/ (c.from = b.from /\ c.n < b.n))
SourceInv ==
  /\ Backed /\ Complete(snapshot.covers) /\ OnDevices(removeOpId)
  /\ \A d \in Devices : Sourced(d)

LEMMA InitSourced ==
  ASSUME NEW items, Importable(items), NEW author, NEW moderators, Init(items, author, moderators)
  PROVE  SourceInv
<1> DEFINE b == Imported(items, author)
<1>1. /\ log = {b} /\ \A d \in Devices : got[d] = log
      /\ snapshot = NoSnapshot /\ removeOpId = [d \in Devices |-> << >>]
      /\ \A d \in Devices : tree[d] = Merge(SetModerators(NewTree(AuthorOf[d]), moderators), items, author)
  BY DEF Init
<1>2. b.items = items /\ b.n = 1
  BY DEF Imported
<1> HIDE DEF b
<1>3. Backed
  BY <1>1, <1>2, Kinds DEF Backed, Importable, ARecord
<1>4. Complete(snapshot.covers)
  BY <1>1 DEF Complete, NoSnapshot
<1>5. ASSUME NEW d \in Devices PROVE Sourced(d)
  <2>1. tree[d].pending = {}
    <3> DEFINE t == SetModerators(NewTree(AuthorOf[d]), moderators)
    <3>1. DOMAIN t = Fields /\ t.pending = {}
      BY NewTreeIs, FlushIs
    <3> HIDE DEF t
    <3> QED BY <1>1, <3>1, MergeIs DEF t
  <2>2. \A c \in BatchesOf(d) : c.n \in 1..Cardinality(BatchesOf(d))
    <3>1. \A c \in BatchesOf(d) : c = b /\ BatchesOf(d) = {b}
      BY <1>1 DEF BatchesOf
    <3>2. Cardinality({b}) = 1
      BY FS_Singleton
    <3> QED BY <1>2, <3>1, <3>2
  <2>3. Complete(got[d]) /\ BatchesOf(d) \subseteq got[d]
    BY <1>1 DEF Complete, BatchesOf
  <2>4. DOMAIN removeOpId[d] = {}
    BY <1>1
  <2> QED BY <2>1, <2>2, <2>3, <2>4 DEF Sourced
<1>6. OnDevices(removeOpId)
  BY <1>1 DEF OnDevices
<1> QED BY <1>3, <1>4, <1>5, <1>6 DEF SourceInv

\* A step that leaves the log alone, and of a device at most takes in more of it.
LEMMA StillSourced ==
  ASSUME SourceInv, log' = log, OnDevices(removeOpId)', Complete(snapshot.covers)',
         \A d \in Devices : Sourced(d)' \/ (/\ got'[d] = got[d] /\ removeOpId'[d] = removeOpId[d]
                                            /\ tree'[d].pending = tree[d].pending)
  PROVE  SourceInv'
<1>1. Backed'
  BY DEF SourceInv, Backed
<1>2. ASSUME NEW d \in Devices, got'[d] = got[d], removeOpId'[d] = removeOpId[d],
             tree'[d].pending = tree[d].pending
      PROVE  Sourced(d)'
  <2>1. Sourced(d) /\ BatchesOf(d)' = BatchesOf(d) /\ Uttered(d)' = Uttered(d)
    BY <1>2 DEF SourceInv, BatchesOf, Uttered
  <2> QED BY <1>2, <2>1 DEF Sourced, Complete
<1> QED BY <1>1, <1>2 DEF SourceInv

LEMMA CallSourced ==
  ASSUME EditorInv, SourceInv, NEW d \in Devices, Call(d)
  PROVE  SourceInv'
<1> DEFINE t == tree[d]
           k == Head(task[d].calls)
           u == After(t, Mints(k, Live(t), AuthorOf[d], removeOpId[d]))
           new == Removals(u.items \ t.items)
<1>1. Engine(t, AuthorOf[d]) /\ Author(d) = AuthorOf[d] /\ TaskOK(task[d], AuthorOf[d])
  BY DEF EditorInv, DeviceOK, Engine, Author
<1>2. /\ tree' = [tree EXCEPT ![d] = u]
      /\ removeOpId' = [removeOpId EXCEPT ![d] = Remembered(@, new)]
      /\ log' = log /\ got' = got /\ snapshot' = snapshot
  BY <1>1 DEF Call, shared
<1>3. CallOK(k, AuthorOf[d])
  BY <1>1, CallsHead, NotIdle DEF TaskOK, Call
<1>4. /\ t.pending \subseteq u.pending /\ u.items \subseteq t.items \cup u.pending
      /\ \A v \in u.pending \ t.pending :
            v.kind = "revoke" => \E i \in DOMAIN removeOpId[d] : v.removal = removeOpId[d][i]
  <2> HIDE DEF k, t
  <2>1. ~Throws(k, removeOpId[d])
    BY DEF Call, k
  <2> QED BY <1>1, <1>3, <2>1, AfterSources
<1> HIDE DEF u
<1>5. /\ tree'[d] = u /\ \A e \in Devices \ {d} : tree'[e] = tree[e]
      /\ removeOpId'[d] = Remembered(removeOpId[d], new)
      /\ \A e \in Devices \ {d} : removeOpId'[e] = removeOpId[e]
      /\ OnDevices(removeOpId)'
  BY <1>2 DEF EditorInv, SourceInv, OnDevices
<1>6. new \subseteq u.pending
  BY <1>4 DEF Removals
<1> HIDE DEF new
<1>7. \A i \in DOMAIN removeOpId'[d] :
         removeOpId'[d][i] \in new \/ \E j \in DOMAIN removeOpId[d] : removeOpId'[d][i] = removeOpId[d][j]
  <2> SUFFICES ASSUME NEW i \in DOMAIN removeOpId'[d]
               PROVE  \/ removeOpId'[d][i] \in new
                      \/ \E j \in DOMAIN removeOpId[d] : removeOpId'[d][i] = removeOpId[d][j]
    OBVIOUS
  <2>1. CASE \E r \in new : r.target = i
    <3>1. removeOpId'[d][i] = CHOOSE r \in new : r.target = i
      BY <1>5, <2>1 DEF Remembered
    <3> QED BY <2>1, <3>1
  <2>2. CASE ~\E r \in new : r.target = i
    <3>1. i \in DOMAIN removeOpId[d] /\ removeOpId'[d][i] = removeOpId[d][i]
      BY <1>5, <2>2 DEF Remembered
    <3> QED BY <3>1
  <2> QED BY <2>1, <2>2
<1>8. Sourced(d)'
  <2>1. Sourced(d) /\ BatchesOf(d)' = BatchesOf(d)
    BY <1>2 DEF SourceInv, BatchesOf
  <2>2. Uttered(d) \subseteq Uttered(d)' /\ new \subseteq Uttered(d)'
    BY <1>4, <1>5, <1>6, <2>1 DEF Uttered, t
  <2>3. \A i \in DOMAIN removeOpId'[d] : removeOpId'[d][i] \in Uttered(d)'
    BY <1>7, <2>1, <2>2 DEF Sourced
  <2>4. \A v \in tree'[d].pending : v.kind = "revoke" => v.removal \in Uttered(d)'
    BY <1>4, <1>5, <2>1, <2>2 DEF Sourced, t
  <2>5. Complete(got[d])' /\ BatchesOf(d)' \subseteq got'[d]
    BY <1>2, <2>1 DEF Sourced, Complete
  <2> QED BY <2>1, <2>3, <2>4, <2>5 DEF Sourced
<1>9. Complete(snapshot.covers)'
  BY <1>2 DEF SourceInv, Complete
<1> QED BY <1>2, <1>5, <1>8, <1>9, StillSourced

LEMMA CommitSourced ==
  ASSUME EditorInv, SourceInv, NEW d \in Devices, Commit(d)
  PROVE  SourceInv'
<1> DEFINE m == Cardinality(BatchesOf(d))
           batch == [from |-> d, n |-> m + 1, items |-> tree[d].pending, by |-> Author(d)]
           new == IF tree[d].pending = {} THEN {} ELSE {batch}
<1>1. /\ log' = log \cup new /\ got' = [got EXCEPT ![d] = @ \cup new]
      /\ tree' = [tree EXCEPT ![d] = Flushed(@)]
      /\ removeOpId' = removeOpId /\ snapshot' = snapshot
  BY DEF Commit
<1>2. Engine(tree[d], AuthorOf[d]) /\ Sourced(d)
  BY DEF EditorInv, DeviceOK, SourceInv
<1>3. /\ tree'[d].pending = {} /\ \A e \in Devices \ {d} : tree'[e] = tree[e]
      /\ got'[d] = got[d] \cup new /\ \A e \in Devices \ {d} : got'[e] = got[e]
  BY <1>1, <1>2, FlushIs DEF EditorInv, OnDevices, Engine
<1>4. IsFiniteSet(BatchesOf(d)) /\ m \in Nat
  <2>1. BatchesOf(d) \subseteq log
    BY DEF BatchesOf
  <2>2. IsFiniteSet(BatchesOf(d))
    BY <2>1, FS_Subset DEF EditorInv, Batches
  <2> QED BY <2>2, FS_CardinalityType
<1>5. \A b \in BatchesOf(d) : b.n \in Nat /\ b.n < m + 1
  BY <1>2, <1>4 DEF Sourced
<1>6. /\ batch.from = d /\ batch.n = m + 1 /\ batch.items = tree[d].pending
  OBVIOUS
<1> HIDE DEF batch
<1>7. /\ BatchesOf(d)' = BatchesOf(d) \cup new
      /\ \A e \in Devices \ {d} : BatchesOf(e)' = BatchesOf(e)
  BY <1>1, <1>6 DEF BatchesOf
<1>8. \A b \in log : ~(\E c \in new : c.from = b.from /\ c.n < b.n)
  BY <1>4, <1>5, <1>6 DEF BatchesOf
<1>9. \A B \in SUBSET log : Complete(B) => Complete(B)'
  BY <1>1, <1>8 DEF Complete
<1>10. Complete(snapshot.covers)'
  BY <1>1, <1>8 DEF SourceInv, EditorInv, Complete
<1>11. Complete(got[d])'
  <2> SUFFICES ASSUME NEW b \in got'[d], NEW c \in log', c.from = b.from, c.n < b.n
               PROVE  c \in got'[d]
    BY DEF Complete
  <2>1. CASE b \in got[d]
    BY <1>1, <1>2, <1>3, <1>8, <2>1 DEF Sourced, Complete, EditorInv
  <2>2. CASE b \in new
    <3>1. c \in BatchesOf(d)'
      BY <1>6, <2>2 DEF BatchesOf
    <3> QED BY <1>2, <1>3, <1>7, <3>1 DEF Sourced
  <2> QED BY <1>3, <2>1, <2>2
<1>12. \A b \in BatchesOf(d)' : b.n \in 1..Cardinality(BatchesOf(d)')
  <2>1. CASE new = {}
    BY <1>2, <1>7, <2>1 DEF Sourced
  <2>2. CASE new = {batch}
    <3>1. batch \notin BatchesOf(d)
      BY <1>4, <1>5, <1>6
    <3>2. Cardinality(BatchesOf(d) \cup {batch}) = m + 1
      BY <1>4, <3>1, FS_AddElement
    <3> QED BY <1>2, <1>4, <1>6, <1>7, <2>2, <3>2 DEF Sourced
  <2> QED BY <2>1, <2>2
<1>13. Uttered(d)' = Uttered(d)
  <2>1. ItemsOf(new) = tree[d].pending
    BY <1>6 DEF ItemsOf
  <2>2. ItemsOf(BatchesOf(d) \cup new) = ItemsOf(BatchesOf(d)) \cup ItemsOf(new)
    BY DEF ItemsOf
  <2> HIDE DEF new
  <2> QED BY <1>3, <1>7, <2>1, <2>2 DEF Uttered
<1>14. Sourced(d)'
  BY <1>1, <1>2, <1>3, <1>7, <1>11, <1>12, <1>13 DEF Sourced
<1>15. ASSUME NEW e \in Devices \ {d} PROVE Sourced(e)'
  <2>1. Sourced(e) /\ Uttered(e)' = Uttered(e) /\ got[e] \subseteq log
    BY <1>3, <1>7 DEF SourceInv, Uttered, EditorInv
  <2>2. Complete(got[e])'
    BY <1>1, <1>3, <1>8, <2>1 DEF Sourced, Complete
  <2> QED BY <1>1, <1>3, <1>7, <2>1, <2>2 DEF Sourced
<1>16. Backed'
  <2> SUFFICES ASSUME NEW b \in log', NEW v \in b.items, v.kind = "revoke"
               PROVE  \E c \in log' : v.removal \in c.items /\ (c = b \/ (c.from = b.from /\ c.n < b.n))
    BY DEF Backed
  <2>1. CASE b \in log
    BY <1>1, <2>1 DEF SourceInv, Backed
  <2>2. CASE b \in new
    <3>1. b = batch /\ batch \in log' /\ v \in tree[d].pending
      BY <1>1, <1>6, <2>2
    <3>2. v.removal \in tree[d].pending \/ v.removal \in ItemsOf(BatchesOf(d))
      BY <1>2, <3>1 DEF Sourced, Uttered
    <3>3. CASE v.removal \in ItemsOf(BatchesOf(d))
      <4>1. PICK c \in BatchesOf(d) : v.removal \in c.items
        BY <3>3 DEF ItemsOf
      <4>2. c \in log' /\ c.from = b.from /\ c.n < b.n
        BY <1>1, <1>5, <1>6, <3>1 DEF BatchesOf
      <4> QED BY <4>1, <4>2
    <3> QED BY <1>6, <3>1, <3>2, <3>3
  <2> QED BY <1>1, <2>1, <2>2
<1>17. OnDevices(removeOpId)'
  BY <1>1 DEF SourceInv, OnDevices
<1> QED BY <1>10, <1>14, <1>15, <1>16, <1>17 DEF SourceInv

LEMMA ReceiveSourced ==
  ASSUME EditorInv, SourceInv, NEW d \in Devices, NEW b \in log, Receive(d, b)
  PROVE  SourceInv'
<1>1. /\ tree'[d] = Merge(tree[d], b.items, b.by) /\ \A e \in Devices \ {d} : tree'[e] = tree[e]
      /\ got'[d] = got[d] \cup {b} /\ \A e \in Devices \ {d} : got'[e] = got[e]
      /\ log' = log /\ snapshot' = snapshot /\ removeOpId' = removeOpId
  BY DEF Receive, EditorInv, OnDevices
<1>2. tree'[d].pending = tree[d].pending
  BY <1>1, MergeIs DEF EditorInv, DeviceOK, Engine
<1>3. Sourced(d) /\ BatchesOf(d)' = BatchesOf(d) /\ Uttered(d)' = Uttered(d)
  BY <1>1, <1>2 DEF SourceInv, BatchesOf, Uttered
<1>4. Complete(got[d])'
  BY <1>1, <1>3 DEF Receive, Sourced, Complete
<1>5. Sourced(d)'
  BY <1>1, <1>2, <1>3, <1>4 DEF Sourced
<1>6. OnDevices(removeOpId)' /\ Complete(snapshot.covers)'
  BY <1>1 DEF SourceInv, OnDevices, Complete
<1> QED BY <1>1, <1>5, <1>6, StillSourced

LEMMA ReopenSourced ==
  ASSUME EditorInv, SourceInv, NEW d \in Devices, Reopen(d)
  PROVE  SourceInv'
<1>1. /\ tree'[d] = Opened(AuthorOf[d], tree[d].moderators, snapshot, got[d])
      /\ \A e \in Devices \ {d} : tree'[e] = tree[e]
      /\ got'[d] = got[d] \cup snapshot.covers /\ \A e \in Devices \ {d} : got'[e] = got[e]
      /\ removeOpId'[d] = << >> /\ \A e \in Devices \ {d} : removeOpId'[e] = removeOpId[e]
      /\ log' = log /\ snapshot' = snapshot /\ OnDevices(removeOpId)'
  BY DEF Reopen, EditorInv, SourceInv, DeviceOK, Engine, Author, OnDevices
<1>2. tree'[d].pending = {}
  <2>1. Batches(got[d]) /\ Items(snapshot.live)
    BY FS_Subset DEF EditorInv, Batches
  <2> QED BY <1>1, <2>1, OpenedEngine
<1>3. Sourced(d) /\ BatchesOf(d)' = BatchesOf(d)
  BY <1>1 DEF SourceInv, BatchesOf
<1>4. Complete(got[d])' /\ Complete(snapshot.covers)'
  BY <1>1, <1>3 DEF SourceInv, Sourced, Complete
<1>5. DOMAIN removeOpId'[d] = {}
  BY <1>1
<1>6. Sourced(d)'
  BY <1>1, <1>2, <1>3, <1>4, <1>5 DEF Sourced
<1> QED BY <1>1, <1>4, <1>6, StillSourced

LEMMA NextSourced ==
  ASSUME EditorInv, SourceInv, [Next]_vars
  PROVE  SourceInv'
<1>1. ASSUME log' = log, got' = got, snapshot' = snapshot, removeOpId' = removeOpId,
             \A d \in Devices : tree'[d].pending = tree[d].pending
      PROVE  SourceInv'
  BY <1>1, StillSourced DEF SourceInv, Complete, OnDevices
<1>2. CASE UNCHANGED vars
  BY <1>1, <1>2 DEF vars, engine, shared
<1>3. ASSUME NEW d \in Devices, Operation(d) PROVE SourceInv'
  BY <1>1, <1>3, OperationKeeps
<1>4. ASSUME NEW d \in Devices, CallThrows(d) \/ Record(d) \/ Hydrate(d) PROVE SourceInv'
  BY <1>1, <1>4 DEF CallThrows, Record, Hydrate, engine, shared
<1>5. ASSUME NEW d \in Devices, NEW dids, setModerators(d, dids) PROVE SourceInv'
  <2>1. /\ tree'[d] = SetModerators(tree[d], dids) /\ \A e \in Devices \ {d} : tree'[e] = tree[e]
        /\ log' = log /\ got' = got /\ snapshot' = snapshot /\ removeOpId' = removeOpId
    BY <1>5 DEF setModerators, EditorInv, OnDevices, shared
  <2>2. tree'[d].pending = tree[d].pending
    BY <2>1, FlushIs DEF EditorInv, DeviceOK, Engine
  <2> QED BY <1>1, <2>1, <2>2
<1>6. ASSUME NEW d \in Devices, Checkpoint(d) PROVE SourceInv'
  <2>1. log' = log /\ got' = got /\ tree' = tree /\ removeOpId' = removeOpId /\ snapshot'.covers = got[d]
    BY <1>6 DEF Checkpoint, engine
  <2>2. Complete(snapshot.covers)' /\ OnDevices(removeOpId)'
    BY <2>1 DEF SourceInv, Sourced, Complete, OnDevices
  <2> QED BY <2>1, <2>2, StillSourced
<1> QED BY <1>2, <1>3, <1>4, <1>5, <1>6, CallSourced, CommitSourced, ReceiveSourced, ReopenSourced
        DEF Next, Mechanics, Upkeep

-----------------------------------------------------------------------------
(* The first checkpoint keeps what it stands for.                          *)

\* Ids are one anchor each, and what is kept is what its batches say.
Kept ==
  /\ IdsOK /\ \A d \in Devices : Held(d)
  /\ snapshot.live = Materialize(ItemsOf(snapshot.covers), SaidBy(snapshot.covers), snapshot.moderators)
CheckInv == checkpoints = 1 /\ snapshot.clean => Kept /\ Devices # {}

\* An anchor that the checkpoint keeps is in the log.
LEMMA KeptAnchors ==
  ASSUME EditorInv, Kept
  PROVE  \A i \in snapshot.live : ~IsOp(i) /\ (AnAnchor(i) => i \in ItemsOf(log))
<1> SUFFICES ASSUME NEW i \in snapshot.live
             PROVE  ~IsOp(i) /\ (AnAnchor(i) => i \in ItemsOf(log))
  OBVIOUS
<1>1. i \in Asserted(ItemsOf(snapshot.covers))
  BY DEF Kept, Materialize
<1>2. ItemsOf(snapshot.covers) \subseteq ItemsOf(log) /\ \A x \in ItemsOf(log) : AnItem(x)
  BY DEF EditorInv, ItemsOf, Batches, Items
<1>3. CASE i \in ItemsOf(snapshot.covers) /\ ~IsOp(i)
  BY <1>2, <1>3
<1>4. CASE \E x \in ItemsOf(snapshot.covers) : x.kind = "supersede" /\ i = x.replacement
  <2>1. PICK x \in ItemsOf(snapshot.covers) : x.kind = "supersede" /\ i = x.replacement
    BY <1>4
  <2>2. AnOp(x)
    BY <1>2, <2>1, Kinds DEF AnItem, ARecord
  <2>3. AClaim(i)
    BY <2>1, <2>2 DEF AnOp, NewRemove, NewRevoke
  <2> QED BY <2>3, Kinds
<1> QED BY <1>1, <1>3, <1>4 DEF Asserted

\* So a device that opens from it holds anchors of the log only, each of one id.
LEMMA KeptOpens ==
  ASSUME EditorInv, Kept, NEW B, B \subseteq log, NEW author, NEW dids
  PROVE  LET u == Opened(author, dids, snapshot, B)
         IN  /\ u.items = snapshot.live \cup ItemsOf(Since(snapshot, B))
             /\ u.committers = SaidBy(Since(snapshot, B))
             /\ u.pending = {} /\ u.moderators = dids
             /\ \A i \in u.items : AnAnchor(i) => i \in ItemsOf(log)
<1>1. Batches(B) /\ Items(snapshot.live)
  BY FS_Subset DEF EditorInv, Batches
<1>2. ItemsOf(Since(snapshot, B)) \subseteq ItemsOf(log)
  BY DEF ItemsOf, Since
<1>3. \A i \in snapshot.live \cup ItemsOf(Since(snapshot, B)) : AnAnchor(i) => i \in ItemsOf(log)
  BY <1>2, KeptAnchors
<1>4. Alone(snapshot.live \cup ItemsOf(Since(snapshot, B)))
  BY <1>3 DEF Alone, Kept, IdsOK, AllItems
<1> DEFINE u == Opened(author, dids, snapshot, B)
<1>5. /\ u.items = snapshot.live \cup ItemsOf(Since(snapshot, B))
      /\ u.committers = SaidBy(Since(snapshot, B))
      /\ u.pending = {} /\ u.moderators = dids
  BY <1>1, <1>4, OpenedFrom
<1> HIDE DEF u
<1> QED BY <1>3, <1>5 DEF u

\* What a step adds to a device is pending or in the log.
LEMMA StillKept ==
  ASSUME Kept, IdsOK', snapshot' = snapshot, log \subseteq log',
         \A d \in Devices : Held(d) => Held(d)'
  PROVE  Kept'
  BY DEF Kept

\* What each step does to a kept checkpoint.
LEMMA CallKept ==
  ASSUME EditorInv, Kept, NEW d \in Devices, Call(d)
  PROVE  Kept'
<1>1. /\ IdsOK' /\ \E N : Adds(tree[d], tree'[d], N)
      /\ \A e \in Devices \ {d} : tree'[e] = tree[e]
      /\ log' = log /\ snapshot' = snapshot
  BY CallIds DEF Kept
<1>2. PICK N : Adds(tree[d], tree'[d], N)
  BY <1>1
<1>3. Held(d)'
  BY <1>1, <1>2 DEF Kept, Held, Adds
<1>4. \A e \in Devices \ {d} : Held(e) => Held(e)'
  BY <1>1 DEF Held
<1> QED BY <1>1, <1>3, <1>4, StillKept

LEMMA CommitKept ==
  ASSUME EditorInv, Kept, NEW d \in Devices, Commit(d)
  PROVE  Kept'
<1>1. PICK new : log' = log \cup new /\ ItemsOf(new) = tree[d].pending
  BY CommitIds
<1>2. /\ IdsOK' /\ snapshot' = snapshot
      /\ tree'[d].items = tree[d].items /\ tree'[d].pending = {}
      /\ \A e \in Devices \ {d} : tree'[e] = tree[e]
  BY CommitIds DEF Kept
<1>3. ItemsOf(log') = ItemsOf(log) \cup tree[d].pending
  <2>1. ItemsOf(log \cup new) = ItemsOf(log) \cup ItemsOf(new)
    BY DEF ItemsOf
  <2> QED BY <1>1, <2>1
<1>4. \A e \in Devices : Held(e) => Held(e)'
  BY <1>2, <1>3 DEF Held
<1> QED BY <1>1, <1>2, <1>4, StillKept

LEMMA ReceiveKept ==
  ASSUME EditorInv, Kept, NEW d \in Devices, NEW b \in log, Receive(d, b)
  PROVE  Kept'
<1>1. Engine(tree[d], AuthorOf[d]) /\ Items(b.items)
  BY DEF EditorInv, DeviceOK, Batches
<1>2. /\ tree'[d] = Merge(tree[d], b.items, b.by) /\ \A e \in Devices \ {d} : tree'[e] = tree[e]
      /\ log' = log /\ snapshot' = snapshot /\ task' = task /\ fresh' = fresh
  BY DEF Receive, EditorInv, OnDevices
<1>3. tree'[d].items \subseteq tree[d].items \cup b.items /\ tree'[d].pending = tree[d].pending
  BY <1>1, <1>2, MergeIs, InsertItems DEF Engine
<1>4. AllItems' = AllItems
  BY <1>2, <1>3 DEF AllItems
<1>5. IdsOK'
  BY <1>2, <1>4, NoNewIds DEF Kept
<1>6. Held(d)'
  <2>1. b.items \subseteq ItemsOf(log)
    BY DEF ItemsOf
  <2> QED BY <1>2, <1>3, <2>1 DEF Kept, Held
<1>7. \A e \in Devices \ {d} : Held(e) => Held(e)'
  BY <1>2 DEF Held
<1> QED BY <1>2, <1>5, <1>6, <1>7, StillKept

LEMMA ReopenKept ==
  ASSUME EditorInv, Kept, NEW d \in Devices, Reopen(d)
  PROVE  Kept'
<1> DEFINE u == Opened(AuthorOf[d], tree[d].moderators, snapshot, got[d])
<1>1. /\ tree'[d] = u /\ \A e \in Devices \ {d} : tree'[e] = tree[e]
      /\ log' = log /\ snapshot' = snapshot /\ fresh' = fresh
      /\ task'[d] = Idle /\ \A e \in Devices \ {d} : task'[e] = task[e]
  BY DEF Reopen, EditorInv, DeviceOK, Engine, Author, OnDevices
<1>2. got[d] \subseteq log
  BY DEF EditorInv
<1>3. u.pending = {} /\ \A i \in u.items : AnAnchor(i) => i \in ItemsOf(log)
  BY <1>2, KeptOpens
<1> HIDE DEF u
<1>4. AllItems' \subseteq AllItems
  BY <1>1, <1>3 DEF AllItems
<1>5. IdsOK'
  BY <1>1, <1>4, NoNewIds, NotIdle DEF Kept
<1>6. Held(d)'
  BY <1>1, <1>3 DEF Held
<1>7. \A e \in Devices \ {d} : Held(e) => Held(e)'
  BY <1>1 DEF Held
<1> QED BY <1>1, <1>5, <1>6, <1>7, StillKept

\* A checkpoint with nothing pending keeps what its batches say.
LEMMA CheckpointKept ==
  ASSUME EditorInv, Agreed, NEW d \in Devices, Checkpoint(d), snapshot'.clean
  PROVE  Kept'
<1>1. /\ snapshot' = [live |-> Snapshot(tree[d]), covers |-> got[d],
                      moderators |-> tree[d].moderators, clean |-> tree[d].pending = {}]
      /\ UNCHANGED <<tree, log, got, task, fresh>>
  BY DEF Checkpoint, engine
<1>2. tree[d].pending = {}
  BY <1>1
<1>3. tree[d].items = ItemsOf(got[d]) /\ tree[d].committers = SaidBy(got[d])
  <2>1. Committed({}, AuthorOf[d]) = {}
    BY DEF Committed
  <2> QED BY <1>2, <2>1 DEF Agreed, Folded
<1>4. /\ snapshot'.covers = got[d] /\ snapshot'.moderators = tree[d].moderators
      /\ snapshot'.live = Materialize(ItemsOf(got[d]), SaidBy(got[d]), tree[d].moderators)
  BY <1>1, <1>3 DEF Snapshot, Live
<1>5. IdsOK'
  <2>1. AllItems' = AllItems
    BY <1>1 DEF AllItems
  <2> QED BY <1>1, <2>1, NoNewIds DEF Agreed
<1>6. \A e \in Devices : Held(e)'
  <2>1. \A e \in Devices : Held(e)
    BY FoldedHolds DEF Agreed
  <2> QED BY <1>1, <2>1 DEF Held
<1> QED BY <1>4, <1>5, <1>6 DEF Kept

\* Every step keeps the first checkpoint true to its batches.
LEMMA NextKept ==
  ASSUME EditorInv, AgreeInv, CheckInv, [Next]_vars
  PROVE  CheckInv'
<1>1. ASSUME checkpoints' = checkpoints, snapshot' = snapshot, Kept => Kept' PROVE CheckInv'
  BY <1>1 DEF CheckInv
<1>2. CASE UNCHANGED vars
  <2>1. /\ checkpoints' = checkpoints /\ tree' = tree /\ log' = log /\ snapshot' = snapshot
        /\ task' = task /\ fresh' = fresh
    BY <1>2 DEF vars, engine, shared
  <2>2. AllItems' = AllItems
    BY <2>1 DEF AllItems
  <2>3. Kept => IdsOK'
    BY <2>1, <2>2, NoNewIds DEF Kept
  <2>4. Kept => Kept'
    BY <2>1, <2>3, StillKept DEF Held
  <2> QED BY <1>1, <2>1, <2>4
<1>3. ASSUME NEW d \in Devices, Operation(d) PROVE CheckInv'
  <2>1. UNCHANGED <<tree, log, snapshot, checkpoints>>
    BY <1>3, OperationKeeps
  <2>2. Kept => IdsOK'
    BY <1>3, OperationAsks, AsksIds DEF Kept, IdsOK
  <2>3. Kept => Kept'
    BY <2>1, <2>2, StillKept DEF Held
  <2> QED BY <1>1, <2>1, <2>3
<1>4. ASSUME NEW d \in Devices,
             CallThrows(d) \/ Record(d) \/ Hydrate(d) \/ \E dids : setModerators(d, dids)
      PROVE  CheckInv'
  <2>1. checkpoints' = checkpoints
    BY <1>4 DEF CallThrows, Record, Hydrate, setModerators, shared
  <2>2. /\ IdsOK => IdsOK'
        /\ \A e \in Devices : tree'[e].items = tree[e].items /\ tree'[e].pending = tree[e].pending
        /\ log' = log /\ snapshot' = snapshot
    BY <1>4, QuietIds
  <2>3. Kept => Kept'
    <3>1. \A e \in Devices : Held(e) => Held(e)'
      BY <2>2 DEF Held
    <3>2. Kept => IdsOK'
      BY <2>2 DEF Kept
    <3> QED BY <2>2, <3>1, <3>2, StillKept
  <2> QED BY <1>1, <2>1, <2>2, <2>3
<1>5. ASSUME NEW d \in Devices,
             Call(d) \/ Commit(d) \/ (\E b \in log : Receive(d, b)) \/ Reopen(d)
      PROVE  CheckInv'
  <2>1. checkpoints' = checkpoints /\ snapshot' = snapshot
    BY <1>5 DEF Call, Commit, Receive, Reopen, shared
  <2>2. Kept => Kept'
    BY <1>5, CallKept, CommitKept, ReceiveKept, ReopenKept
  <2> QED BY <1>1, <2>1, <2>2
<1>6. ASSUME NEW d \in Devices, Checkpoint(d) PROVE CheckInv'
  <2> SUFFICES ASSUME checkpoints' = 1, snapshot'.clean PROVE Kept' /\ Devices # {}
    BY DEF CheckInv
  <2>1. Agreed
    BY <1>6 DEF Checkpoint, AgreeInv
  <2> QED BY <1>6, <2>1, CheckpointKept
<1> QED BY <1>2, <1>3, <1>4, <1>5, <1>6 DEF Next, Mechanics, Upkeep

\* No two batches carry one removal: whoever removes something twice, or on two
\* devices, does not do it at one time of the clock.
RemovalsOnce == \A b, c \in log : \A x \in b.items \cap c.items : x.kind = "remove" => b = c

\* What acts of the batches B, when dids moderate.
ActingOf(B, dids) == {i \in ItemsOf(B) : IsOp(i) /\ Authorized(i, SaidBy(B), dids)}
LEMMA ActingMore ==
  ASSUME NEW B, NEW C, B \subseteq C, NEW dids
  PROVE  ActingOf(B, dids) \subseteq ActingOf(C, dids)
<1>1. ItemsOf(B) \subseteq ItemsOf(C) /\ SaidBy(B) \subseteq SaidBy(C)
  BY DEF ItemsOf, SaidBy
<1> QED BY <1>1 DEF ActingOf, Authorized

\* With no revocation after the checkpoint, nothing that was dead comes alive, and
\* what is dead for a device that starts from it is dead for all.
LEMMA DeadBefore ==
  ASSUME EditorInv, SourceInv, RemovalsOnce,
         RevokedIn(Since(snapshot, log)) = {}, NEW dids
  PROVE  /\ Dead(ActingOf(snapshot.covers, dids)) \subseteq Dead(ActingOf(log, dids))
         /\ Dead(ActingOf(Since(snapshot, log), dids)) \subseteq Dead(ActingOf(log, dids))
<1> DEFINE C == snapshot.covers
           D == Since(snapshot, log)
           all == ActingOf(log, dids)
<1>1. log = C \cup D /\ C \subseteq log /\ D \subseteq log /\ \A b \in D : b \notin C
  BY DEF EditorInv, Since
<1>2. \A b \in D : \A v \in b.items : v.kind # "revoke"
  <2> HIDE DEF D
  <2> QED BY DEF RevokedIn, D
<1> HIDE DEF D
<1>3. \A v \in all : v.kind = "revoke" => v \in ActingOf(C, dids)
  <2> SUFFICES ASSUME NEW v \in all, v.kind = "revoke" PROVE v \in ActingOf(C, dids)
    OBVIOUS
  <2>1. IsOp(v) /\ \E m \in dids : <<v, m>> \in SaidBy(log)
    BY DEF ActingOf, Authorized
  <2>2. PICK m \in dids : <<v, m>> \in SaidBy(log)
    BY <2>1
  <2>3. PICK b \in log : <<v, m>> \in Committed(b.items, b.by)
    BY <2>2 DEF SaidBy
  <2>4. v \in b.items
    BY <2>3 DEF Committed
  <2>5. b \in C
    BY <1>1, <1>2, <2>4
  <2> QED BY <2>1, <2>3, <2>4, <2>5 DEF ActingOf, Authorized, ItemsOf, SaidBy
<1>4. ActingOf(C, dids) \subseteq all /\ ActingOf(D, dids) \subseteq all
  BY <1>1, ActingMore
<1>5. Revoked(all) \subseteq Revoked(ActingOf(C, dids))
  BY <1>3 DEF Revoked
<1>6. ASSUME NEW x \in ActingOf(D, dids), x.kind = "remove", x \in Revoked(all) PROVE FALSE
  <2>1. PICK v \in ActingOf(C, dids) : v.kind = "revoke" /\ v.removal = x
    BY <1>5, <1>6 DEF Revoked
  <2>2. PICK b \in C : v \in b.items
    BY <2>1 DEF ActingOf, ItemsOf
  <2>3. PICK c \in log : x \in c.items /\ (c = b \/ (c.from = b.from /\ c.n < b.n))
    BY <1>1, <2>1, <2>2 DEF SourceInv, Backed
  <2>4. c \in C
    BY <2>2, <2>3 DEF SourceInv, Complete
  <2>5. PICK e \in D : x \in e.items
    BY <1>6 DEF ActingOf, ItemsOf
  <2>6. c = e
    BY <1>1, <1>6, <2>3, <2>5 DEF RemovalsOnce
  <2> QED BY <1>1, <2>4, <2>5, <2>6
<1> HIDE DEF all, C
<1>7. Dead(ActingOf(C, dids)) \subseteq Dead(all)
  BY <1>4, <1>5 DEF Dead
<1>8. Dead(ActingOf(D, dids)) \subseteq Dead(all)
  BY <1>4, <1>6 DEF Dead
<1> QED BY <1>7, <1>8 DEF all, C, D

\* With the first checkpoint alone: what is live in the whole log is in the
\* checkpoint, or was asserted since, and nothing since takes it away.
LEMMA FirstCheckpoint ==
  ASSUME EditorInv, SourceInv, CheckInv, checkpoints \in Nat, checkpoints <= 1,
         checkpoints = 0 => snapshot = NoSnapshot, RemovalsOnce
  PROVE  CheckpointLosesNothing
<1> SUFFICES ASSUME snapshot # NoSnapshot, snapshot.clean, RevokedIn(log \ snapshot.covers) = {}
             PROVE  \E d \in Devices :
                       Live(Opened(Author(d), snapshot.moderators, NoSnapshot, log))
                          \subseteq Live(Opened(Author(d), snapshot.moderators, snapshot, log))
  BY DEF CheckpointLosesNothing
<1>1. Kept /\ Devices # {}
  BY DEF CheckInv
<1>2. PICK d \in Devices : TRUE
  BY <1>1
<1> DEFINE C == snapshot.covers
           D == Since(snapshot, log)
           M == snapshot.moderators
           full == Opened(Author(d), M, NoSnapshot, log)
           part == Opened(Author(d), M, snapshot, log)
<1>3. full.items = ItemsOf(log) /\ full.committers = SaidBy(log) /\ full.moderators = M
  <2>1. Batches(log) /\ Alone(ItemsOf(log))
    BY <1>1 DEF EditorInv, Kept, IdsOK, Alone, AllItems
  <2> QED BY <2>1, OpenedIs
<1>4. /\ part.items = snapshot.live \cup ItemsOf(D) /\ part.committers = SaidBy(D)
      /\ part.moderators = M
  BY <1>1, KeptOpens
<1> HIDE DEF full, part
<1>5. \A i \in snapshot.live : ~IsOp(i)
  BY <1>1, KeptAnchors
<1>6. /\ Live(full) = {r \in Asserted(ItemsOf(log)) : IdOf(r) \notin Dead(ActingOf(log, M))}
      /\ snapshot.live = {r \in Asserted(ItemsOf(C)) : IdOf(r) \notin Dead(ActingOf(C, M))}
  BY <1>1, <1>3 DEF Kept, Live, Materialize, ActingOf
<1>7. Acting(part) = ActingOf(D, M)
  BY <1>4, <1>5 DEF Acting, ActingOf
<1>8. Live(part) = {r \in Asserted(part.items) : IdOf(r) \notin Dead(ActingOf(D, M))}
  BY <1>7 DEF Live, Materialize, Acting
<1>9. /\ Dead(ActingOf(C, M)) \subseteq Dead(ActingOf(log, M))
      /\ Dead(ActingOf(D, M)) \subseteq Dead(ActingOf(log, M))
  <2>1. RevokedIn(Since(snapshot, log)) = {}
    BY DEF Since
  <2> QED BY <2>1, DeadBefore
<1>10. ASSUME NEW r \in Live(full) PROVE r \in Live(part)
  <2>1. r \in Asserted(ItemsOf(C)) \/ r \in Asserted(ItemsOf(D))
    <3>1. ItemsOf(log) = ItemsOf(C) \cup ItemsOf(D)
      BY DEF EditorInv, Since, ItemsOf
    <3>2. r \in Asserted(ItemsOf(C) \cup ItemsOf(D))
      BY <1>6, <1>10, <3>1
    <3> QED BY <3>2 DEF Asserted
  <2>2. IdOf(r) \notin Dead(ActingOf(log, M))
    BY <1>6, <1>10
  <2>3. CASE r \in Asserted(ItemsOf(C))
    <3>1. r \in snapshot.live
      BY <1>6, <1>9, <2>2, <2>3
    <3>2. r \in Asserted(part.items)
      BY <1>4, <1>5, <3>1 DEF Asserted
    <3> QED BY <1>8, <1>9, <2>2, <3>2
  <2>4. CASE r \in Asserted(ItemsOf(D))
    <3>1. r \in Asserted(part.items)
      BY <1>4, <2>4 DEF Asserted
    <3> QED BY <1>8, <1>9, <2>2, <3>1
  <2> QED BY <2>1, <2>3, <2>4
<1> QED BY <1>2, <1>10 DEF full, part

\* Over any records imported, a device that opens from the first checkpoint has
\* every record that one opening from the whole log has, if no revocation came
\* after it and no removal is in two batches (snapshot, open, materialize).
THEOREM FirstCheckpointLosesNothing ==
  ASSUME NEW CONSTANT items, OwnAnchors(items), NEW CONSTANT author, NEW CONSTANT moderators
  PROVE  Spec(items, author, moderators) =>
            [](checkpoints <= 1 /\ RemovalsOnce => CheckpointLosesNothing)
<1> DEFINE Inv == EditorInv /\ AgreeInv /\ SourceInv /\ CheckInv
<1>1. Init(items, author, moderators) => Inv
  <2>1. Init(items, author, moderators) => EditorInv /\ AgreeInv /\ SourceInv
    BY InitOK, InitAgreed, InitSourced DEF OwnAnchors
  <2>2. Init(items, author, moderators) => CheckInv
    BY DEF Init, CheckInv
  <2> QED BY <2>1, <2>2
<1>2. Inv /\ [Next]_vars => Inv'
  BY NextOK, NextAgreed, NextSourced, NextKept
<1>3. Inv => (checkpoints <= 1 /\ RemovalsOnce => CheckpointLosesNothing)
  BY FirstCheckpoint DEF AgreeInv, Agreed
<1> QED BY <1>1, <1>2, <1>3, PTL DEF Spec

-----------------------------------------------------------------------------
(* The union-find of the projection.                                       *)

\* An id is its number.
LEMMA AnchorIds ==
  /\ \A x \in AnchorId : x.n \in Nat
  /\ \A x, y \in AnchorId : x.n = y.n => x = y
  BY DEF AnchorId

\* root[y] is where the chain of parents from y ends; parents have smaller ids.
Forest(parent, nodes, root) ==
  /\ parent \in [nodes -> nodes] /\ root \in [nodes -> nodes]
  /\ \A y \in nodes : parent[y] = y \/ (/\ y \in AnchorId /\ parent[y] \in AnchorId
                                        /\ parent[y].n < y.n)
  /\ \A y \in nodes : root[y] = IF parent[y] = y THEN y ELSE root[parent[y]]
  /\ \A y \in nodes : parent[root[y]] = root[y]
  /\ \A y \in nodes : y \in AnchorId => root[y] \in AnchorId

Climbs(f, parent) == f = [y \in DOMAIN parent |-> IF parent[y] = y THEN y ELSE f[parent[y]]]

\* Find ends at the root.
LEMMA FindIsRoot ==
  ASSUME NEW parent, NEW nodes, NEW root, Forest(parent, nodes, root), NEW x \in nodes
  PROVE  Find(parent, x) = root[x]
<1> DEFINE f == CHOOSE g : Climbs(g, parent)
<1>1. Find(parent, x) = f[x]
  BY Zenon DEF Find, Climbs
<1>2. Climbs(root, parent)
  BY DEF Forest, Climbs
<1>3. Climbs(f, parent)
  BY <1>2, Zenon
<1> HIDE DEF f
<1>4. \A y \in nodes : f[y] = IF parent[y] = y THEN y ELSE f[parent[y]]
  BY <1>3 DEF Climbs, Forest
<1> DEFINE Bad == {y \in nodes : f[y] # root[y]}
<1>5. Bad \subseteq AnchorId
  BY <1>4 DEF Forest
<1>6. ASSUME Bad # {} PROVE FALSE
  <2>1. Least(Bad) \in Bad /\ \A y \in Bad : Least(Bad).n <= y.n
    BY <1>5, <1>6, LeastIsIn
  <2> DEFINE y == Least(Bad)
  <2>2. parent[y] # y /\ parent[y] \in nodes /\ parent[y].n < y.n /\ parent[y] \in AnchorId
    BY <1>4, <2>1 DEF Forest
  <2>3. parent[y] \notin Bad
    BY <1>5, <2>1, <2>2, AnchorIds
  <2>4. f[y] = root[y]
    BY <1>4, <2>1, <2>2, <2>3 DEF Forest
  <2> QED BY <2>1, <2>4
<1> QED BY <1>1, <1>6

\* Joining two trees changes the root of both to the smaller one's.
LEMMA UnionIs ==
  ASSUME NEW parent, NEW nodes, NEW root, Forest(parent, nodes, root),
         NEW a \in nodes \cap AnchorId, NEW b \in nodes \cap AnchorId, root[a] # root[b]
  PROVE  LET lo == Least({root[a], root[b]})
         IN  /\ lo \in {root[a], root[b]}
             /\ Forest(Union(parent, a, b), nodes,
                    [y \in nodes |-> IF root[y] \in {root[a], root[b]} THEN lo ELSE root[y]])
<1> DEFINE ra == root[a]
           rb == root[b]
           lo == Least({ra, rb})
           r == [y \in nodes |-> IF root[y] \in {ra, rb} THEN lo ELSE root[y]]
           p == [parent EXCEPT ![ra] = lo, ![rb] = lo]
<1>1. /\ ra \in nodes /\ rb \in nodes /\ ra \in AnchorId /\ rb \in AnchorId
      /\ parent[ra] = ra /\ parent[rb] = rb
  BY DEF Forest
<1>2. lo \in {ra, rb} /\ lo.n <= ra.n /\ lo.n <= rb.n
  <2>1. {ra, rb} \subseteq AnchorId /\ {ra, rb} # {}
    BY <1>1
  <2> QED BY <2>1, LeastIsIn
<1>3. Union(parent, a, b) = p
  <2>1. Find(parent, a) = ra /\ Find(parent, b) = rb
    BY FindIsRoot
  <2> HIDE DEF ra, rb
  <2> QED BY <2>1 DEF Union
<1> HIDE DEF lo
<1>4. PICK hi \in {ra, rb} : {ra, rb} = {lo, hi} /\ hi # lo
  BY <1>2
<1>5. lo.n < hi.n /\ lo \in AnchorId /\ hi \in AnchorId /\ lo \in nodes /\ hi \in nodes
  <2>1. lo.n # hi.n /\ lo.n <= hi.n /\ lo.n \in Nat /\ hi.n \in Nat
    BY <1>1, <1>2, <1>4, AnchorIds
  <2> QED BY <1>1, <1>2, <1>4, <2>1
<1>6. /\ p \in [nodes -> nodes] /\ p[lo] = lo /\ p[hi] = lo
      /\ \A y \in nodes : y # lo /\ y # hi => p[y] = parent[y]
  BY <1>1, <1>2, <1>4, <1>5 DEF Forest
<1>7. /\ r \in [nodes -> nodes]
      /\ \A y \in nodes : r[y] = IF root[y] \in {lo, hi} THEN lo ELSE root[y]
  BY <1>4, <1>5 DEF Forest
<1>8. root[lo] = lo /\ root[hi] = hi /\ parent[lo] = lo /\ parent[hi] = hi
  BY <1>1, <1>2, <1>4 DEF Forest
<1> HIDE DEF p, r
<1>9. ASSUME NEW y \in nodes
      PROVE  /\ p[y] = y \/ (y \in AnchorId /\ p[y] \in AnchorId /\ p[y].n < y.n)
             /\ r[y] = IF p[y] = y THEN y ELSE r[p[y]]
             /\ p[r[y]] = r[y]
             /\ y \in AnchorId => r[y] \in AnchorId
  <2>1. CASE y = lo
    BY <1>5, <1>6, <1>7, <1>8, <2>1
  <2>2. CASE y = hi
    BY <1>5, <1>6, <1>7, <1>8, <2>2
  <2>3. CASE y # lo /\ y # hi
    <3>1. p[y] = parent[y] /\ parent[y] \in nodes
      BY <1>6, <2>3 DEF Forest
    <3>2. parent[y] = y => root[y] = y
      BY DEF Forest
    <3>3. parent[y] # y => root[y] = root[parent[y]]
      BY DEF Forest
    <3>4. r[y] = IF p[y] = y THEN y ELSE r[p[y]]
      BY <1>7, <2>3, <3>1, <3>2, <3>3
    <3>5. p[r[y]] = r[y]
      BY <1>6, <1>7 DEF Forest
    <3> QED BY <1>5, <1>7, <3>1, <3>4, <3>5 DEF Forest
  <2> QED BY <2>1, <2>2, <2>3
<1>10. Forest(p, nodes, r)
  BY <1>6, <1>7, <1>9 DEF Forest
<1> QED BY <1>2, <1>3, <1>10 DEF p, r, lo

-----------------------------------------------------------------------------
(* What edges connect.                                                     *)

NoEdgeLeaves(edges, S) == \A e \in edges : e.pair \cap S # {} => e.pair \subseteq S
IdsFrom(edges, x) == {x} \cup UNION {e.pair : e \in edges}

\* Connected, with its parts named.
LEMMA ConnectedIs ==
  ASSUME NEW edges, NEW x
  PROVE  Connected(edges, x) =
            {y \in IdsFrom(edges, x) :
               \A S \in SUBSET IdsFrom(edges, x) : x \in S /\ NoEdgeLeaves(edges, S) => y \in S}
  BY DEF Connected, NoEdgeLeaves, IdsFrom

\* It is x itself, with every edge that meets it, and it is the least such set.
LEMMA ConnectedClosed ==
  ASSUME NEW edges, NEW x
  PROVE  /\ x \in Connected(edges, x) /\ NoEdgeLeaves(edges, Connected(edges, x))
         /\ \A K : x \in K /\ NoEdgeLeaves(edges, K) => Connected(edges, x) \subseteq K
<1> DEFINE I == IdsFrom(edges, x)
           C == Connected(edges, x)
<1>0. \A y : y \in C <=> y \in I /\ \A S \in SUBSET I : x \in S /\ NoEdgeLeaves(edges, S) => y \in S
  BY ConnectedIs
<1>1. x \in I /\ \A e \in edges : e.pair \subseteq I
  BY DEF IdsFrom
<1> HIDE DEF C, I
<1>2. x \in C
  BY <1>0, <1>1
<1>3. ASSUME NEW e \in edges, NEW z \in e.pair, z \in C, NEW w \in e.pair PROVE w \in C
  <2>1. ASSUME NEW S \in SUBSET I, x \in S, NoEdgeLeaves(edges, S) PROVE w \in S
    <3>1. z \in S
      BY <1>0, <1>3, <2>1
    <3> QED BY <1>3, <2>1, <3>1 DEF NoEdgeLeaves
  <2> QED BY <1>0, <1>1, <2>1
<1>4. NoEdgeLeaves(edges, C)
  BY <1>3 DEF NoEdgeLeaves
<1>5. ASSUME NEW K, x \in K, NoEdgeLeaves(edges, K) PROVE C \subseteq K
  <2>1. K \cap I \in SUBSET I /\ x \in K \cap I
    BY <1>1, <1>5
  <2>2. NoEdgeLeaves(edges, K \cap I)
    BY <1>1, <1>5 DEF NoEdgeLeaves
  <2> QED BY <1>0, <2>1, <2>2
<1> QED BY <1>2, <1>4, <1>5 DEF C

\* More edges connect more,
LEMMA ConnectedMore ==
  ASSUME NEW edges, NEW more, edges \subseteq more, NEW x
  PROVE  Connected(edges, x) \subseteq Connected(more, x)
<1>1. NoEdgeLeaves(edges, Connected(more, x)) /\ x \in Connected(more, x)
  BY ConnectedClosed DEF NoEdgeLeaves
<1> QED BY <1>1, ConnectedClosed

\* and what is reached from there is reached from here,
LEMMA ConnectedThrough ==
  ASSUME NEW edges, NEW x, NEW y \in Connected(edges, x)
  PROVE  Connected(edges, y) \subseteq Connected(edges, x)
  BY ConnectedClosed

\* and back.
LEMMA ConnectedBack ==
  ASSUME NEW edges, NEW x, NEW y \in Connected(edges, x)
  PROVE  x \in Connected(edges, y)
<1> DEFINE K == {z \in Connected(edges, x) : x \in Connected(edges, z)}
<1>1. x \in K
  BY ConnectedClosed
<1>2. ASSUME NEW e \in edges, NEW z \in e.pair, z \in K, NEW w \in e.pair PROVE w \in K
  <2>1. w \in Connected(edges, x)
    BY <1>2, ConnectedClosed DEF NoEdgeLeaves
  <2>2. z \in Connected(edges, w)
    BY <1>2, ConnectedClosed DEF NoEdgeLeaves
  <2>3. x \in Connected(edges, w)
    BY <1>2, <2>2, ConnectedThrough
  <2> QED BY <2>1, <2>3
<1>3. NoEdgeLeaves(edges, K)
  <2> HIDE DEF K
  <2> QED BY <1>2 DEF NoEdgeLeaves
<1>4. Connected(edges, x) \subseteq K
  <2> HIDE DEF K
  <2> QED BY <1>1, <1>3, ConnectedClosed
<1> QED BY <1>4

\* So more edges join more cuts.
LEMMA JoinsMore ==
  ASSUME NEW edges, NEW more, edges \subseteq more, NEW cuts, JoinsACut(edges, cuts)
  PROVE  JoinsACut(more, cuts)
<1>1. PICK c \in cuts : \E x \in c : c \subseteq Connected(edges, x)
  BY DEF JoinsACut
<1>2. PICK x \in c : c \subseteq Connected(edges, x)
  BY <1>1
<1>3. c \subseteq Connected(more, x)
  BY <1>2, ConnectedMore
<1> QED BY <1>3 DEF JoinsACut

-----------------------------------------------------------------------------
(* The order in which edges are admitted.                                  *)

APair(p) == \E a, b \in AnchorId : a # b /\ p = {a, b}
AnEdge(e) == e = [pair |-> e.pair, score |-> e.score] /\ APair(e.pair) /\ e.score \in Int

\* Two ids, the smaller first.
LEMMA PairIs ==
  ASSUME NEW p, APair(p)
  PROVE  /\ Least(p) \in p /\ Greatest(p) \in p /\ Least(p).n < Greatest(p).n
         /\ p = {Least(p), Greatest(p)} /\ p \subseteq AnchorId
<1>1. PICK a \in AnchorId, b \in AnchorId : a # b /\ p = {a, b}
  BY DEF APair
<1>2. a.n \in Nat /\ b.n \in Nat /\ a.n # b.n
  BY <1>1, AnchorIds
<1>3. Least(p) \in p /\ \A y \in p : Least(p).n <= y.n
  BY <1>1, LeastIsIn
<1>4. \E x \in p : \A y \in p : y.n <= x.n
  <2>1. CASE a.n <= b.n
    BY <1>1, <1>2, <2>1
  <2>2. CASE b.n <= a.n
    BY <1>1, <1>2, <2>2
  <2> QED BY <1>2, <2>1, <2>2
<1>5. Greatest(p) \in p /\ \A y \in p : y.n <= Greatest(p).n
  BY <1>4 DEF Greatest
<1> QED BY <1>1, <1>2, <1>3, <1>5

\* Of two edges of different pairs one comes first, and the order is transitive.
LEMMA EarlierOrders ==
  /\ \A e, f : AnEdge(e) /\ AnEdge(f) /\ e # f => Earlier(e, f) \/ Earlier(f, e)
  /\ \A e, f, g : AnEdge(e) /\ AnEdge(f) /\ AnEdge(g) /\ Earlier(e, f) /\ Earlier(f, g) => Earlier(e, g)
<1> DEFINE Lo(e) == Least(e.pair).n
           Hi(e) == Greatest(e.pair).n
           Before(e, f) == \/ e.score > f.score
                           \/ e.score = f.score /\ (Lo(e) < Lo(f) \/ (Lo(e) = Lo(f) /\ Hi(e) < Hi(f)))
<1>1. \A e, f : Earlier(e, f) <=> Before(e, f)
  BY DEF Earlier, EarlierPair
<1>2. \A e : AnEdge(e) => Lo(e) \in Nat /\ Hi(e) \in Nat /\ e.score \in Int
  BY PairIs, AnchorIds DEF AnEdge
<1>3. ASSUME NEW e, NEW f, AnEdge(e), AnEdge(f), e.score = f.score, Lo(e) = Lo(f), Hi(e) = Hi(f)
      PROVE  e = f
  <2>1. Least(e.pair) = Least(f.pair) /\ Greatest(e.pair) = Greatest(f.pair)
    BY <1>3, PairIs, AnchorIds DEF AnEdge
  <2>2. e.pair = f.pair
    BY <1>3, <2>1, PairIs DEF AnEdge
  <2> QED BY <1>3, <2>2 DEF AnEdge
<1> HIDE DEF Lo, Hi
<1>4. ASSUME NEW e, NEW f, AnEdge(e), AnEdge(f), e # f PROVE Before(e, f) \/ Before(f, e)
  BY <1>2, <1>3, <1>4
<1>5. ASSUME NEW e, NEW f, NEW g, AnEdge(e), AnEdge(f), AnEdge(g), Before(e, f), Before(f, g)
      PROVE  Before(e, g)
  BY <1>2, <1>5
<1> QED BY <1>1, <1>4, <1>5

\* Of finitely many edges one comes last.
LEMMA LastIs ==
  ASSUME NEW E, IsFiniteSet(E), \A e \in E : AnEdge(e), E # {}
  PROVE  LastOf(E) \in E /\ \A f \in E \ {LastOf(E)} : Earlier(f, LastOf(E))
<1> DEFINE Ends(s) == \E e \in s : \A f \in s \ {e} : Earlier(f, e)
           T == {s \in SUBSET E : s # {} => Ends(s)}
<1>1. ASSUME NEW s \in SUBSET E, \A u \in SUBSET s : u # s => u \in T PROVE s \in T
  <2> SUFFICES ASSUME s # {} PROVE Ends(s)
    OBVIOUS
  <2>1. PICK x \in s : TRUE
    OBVIOUS
  <2> DEFINE u == s \ {x}
  <2>2. CASE u = {}
    BY <2>2
  <2>3. CASE u # {}
    <3>1. Ends(u)
      <4>1. u \in SUBSET s /\ u # s
        BY <2>1
      <4>2. u \in T
        BY <1>1, <4>1
      <4> HIDE DEF u, Ends
      <4> QED BY <2>3, <4>2
    <3>2. PICK e \in u : \A f \in u \ {e} : Earlier(f, e)
      BY <3>1
    <3>3. e # x /\ e \in E /\ x \in E /\ s \ {x} = u
      BY <3>2
    <3>4. CASE Earlier(x, e)
      <4>1. \A f \in s \ {e} : Earlier(f, e)
        BY <3>2, <3>4
      <4> QED BY <3>2, <4>1
    <3>5. CASE Earlier(e, x)
      <4>1. \A f \in s \ {x} : Earlier(f, x)
        BY <3>2, <3>3, <3>5, EarlierOrders
      <4> QED BY <4>1
    <3> QED BY <3>3, <3>4, <3>5, EarlierOrders
  <2> QED BY <2>2, <2>3
<1>2. E \in T
  <2> HIDE DEF T
  <2>1. \A s \in SUBSET E : (\A u \in SUBSET s : u # s => u \in T) => s \in T
    BY <1>1
  <2> QED BY <2>1, FiniteInduction, Zenon
<1> QED BY <1>2 DEF LastOf

-----------------------------------------------------------------------------
(* Admitting edges one at a time.  The function of the recursion exists, level *)
(* by level.                                                                   *)

Apart(nodes) == [parent |-> [x \in nodes |-> x], skipped |-> {}]
Admits1By1(g, nodes, edges, cuts) ==
  g = [E \in SUBSET edges |-> IF E = {} THEN Apart(nodes)
                              ELSE AdmitEdge(cuts, LastOf(E), g[E \ {LastOf(E)}])]

\* The recursion has its function.
LEMMA AdmittingFunctionExists ==
  ASSUME NEW edges, IsFiniteSet(edges), \A e \in edges : AnEdge(e), NEW nodes, NEW cuts
  PROVE  \E g : Admits1By1(g, nodes, edges, cuts)
<1> DEFINE Is(h, n) == h = [E \in Level(edges, n) |->
                              IF E = {} THEN Apart(nodes) ELSE AdmitEdge(cuts, LastOf(E), h[E \ {LastOf(E)}])]
           T == {n \in Nat : \E h : Is(h, n)}
<1>0. \A n \in Nat : \A E \in Level(edges, n + 1) : E # {} => E \ {LastOf(E)} \in Level(edges, n)
  <2> SUFFICES ASSUME NEW n \in Nat, NEW E \in Level(edges, n + 1), E # {}
               PROVE  E \ {LastOf(E)} \in Level(edges, n)
    OBVIOUS
  <2>1. IsFiniteSet(E) /\ E \in SUBSET edges /\ Cardinality(E) <= n + 1
    BY FS_Subset DEF Level
  <2>2. LastOf(E) \in E
    BY <2>1, LastIs
  <2>3. Cardinality(E \ {LastOf(E)}) = Cardinality(E) - 1 /\ Cardinality(E) \in Nat
    BY <2>1, <2>2, FS_RemoveElement, FS_CardinalityType
  <2> QED BY <2>1, <2>3 DEF Level
<1>1. 0 \in T
  <2> DEFINE h == [E \in Level(edges, 0) |-> Apart(nodes)]
  <2>1. Is(h, 0)
    BY Levels
  <2> QED BY <2>1
<1>2. ASSUME NEW n \in Nat, n \in T PROVE n + 1 \in T
  <2>1. PICK h : Is(h, n)
    BY <1>2
  <2> DEFINE u == [E \in Level(edges, n + 1) |->
                     IF E = {} THEN Apart(nodes) ELSE AdmitEdge(cuts, LastOf(E), h[E \ {LastOf(E)}])]
  <2>2. \A E \in Level(edges, n) : E \in Level(edges, n + 1)
    <3>1. \A E \in SUBSET edges : Cardinality(E) \in Nat
      BY FS_Subset, FS_CardinalityType
    <3> QED BY <3>1 DEF Level
  <2>3. \A E \in Level(edges, n) : u[E] = h[E]
    BY <2>1, <2>2
  <2>4. \A E \in Level(edges, n + 1) : E # {} => u[E \ {LastOf(E)}] = h[E \ {LastOf(E)}]
    BY <1>0, <2>3
  <2>5. Is(u, n + 1)
    BY <2>4
  <2> HIDE DEF Is
  <2> QED BY <2>5
<1>3. Cardinality(edges) \in T
  <2> HIDE DEF T
  <2> QED BY <1>1, <1>2, NumberInduction, FS_CardinalityType
<1>4. PICK h : Is(h, Cardinality(edges))
  BY <1>3
<1>5. Level(edges, Cardinality(edges)) = SUBSET edges
  BY Levels
<1> QED BY <1>4, <1>5, Zenon DEF Admits1By1

AdmitsAlong(g, nodes, edges, cuts) ==
  /\ g[{}] = Apart(nodes)
  /\ \A E \in SUBSET edges : E # {} => g[E] = AdmitEdge(cuts, LastOf(E), g[E \ {LastOf(E)}])

\* Cluster is what it makes of all the edges.
LEMMA ClusterUnfolds ==
  ASSUME NEW edges, IsFiniteSet(edges), \A e \in edges : AnEdge(e), NEW nodes, NEW cuts
  PROVE  \E g : /\ AdmitsAlong(g, nodes, edges, cuts)
                /\ Cluster(nodes, edges, cuts) =
                      [rep |-> [x \in nodes |-> Find(g[edges].parent, x)], skipped |-> g[edges].skipped]
<1> DEFINE f == CHOOSE g : Admits1By1(g, nodes, edges, cuts)
<1>1. Cluster(nodes, edges, cuts) =
         [rep |-> [x \in nodes |-> Find(f[edges].parent, x)], skipped |-> f[edges].skipped]
  BY Zenon DEF Cluster, Admits1By1, Apart
<1>2. Admits1By1(f, nodes, edges, cuts)
  BY AdmittingFunctionExists, Zenon
<1> HIDE DEF f
<1>3. AdmitsAlong(f, nodes, edges, cuts)
  BY <1>2 DEF Admits1By1, AdmitsAlong
<1> QED BY <1>1, <1>3, Zenon

-----------------------------------------------------------------------------
(* What has been clustered after some of the edges.                        *)

Within(edges, root) == {e \in edges : \A x, y \in e.pair : root[x] = root[y]}
\* root says the classes of parent: what the admitted edges connect, no cut within
\* one, and every edge refused for a cut.
Clustered(parent, nodes, E, cuts, root) ==
  /\ Forest(parent, nodes, root)
  /\ \A x, y \in nodes : root[x] = root[y] => y \in Connected(Within(E, root), x)
  /\ \A c \in cuts : \E x, y \in c : root[x] # root[y]
  /\ \A e \in E \ Within(E, root) :
        JoinsACut({f \in Within(E, root) : Earlier(f, e)} \cup {e}, cuts)

\* With no edges every id is a class of its own.
LEMMA NoneClustered ==
  ASSUME NEW nodes, NEW cuts, \A c \in cuts : APair(c) /\ c \subseteq nodes
  PROVE  Clustered(Apart(nodes).parent, nodes, {}, cuts, [x \in nodes |-> x])
<1> DEFINE r == [x \in nodes |-> x]
<1>1. Forest(r, nodes, r)
  BY DEF Forest
<1>2. \A c \in cuts : \E x, y \in c : r[x] # r[y]
  BY DEF APair
<1>3. \A x, y \in nodes : r[x] = r[y] => y \in Connected(Within({}, r), x)
  BY ConnectedClosed
<1> QED BY <1>1, <1>2, <1>3 DEF Clustered, Apart

\* A class holds what its edges connect.
LEMMA WithinClass ==
  ASSUME NEW E, NEW root, NEW nodes, \A e \in E : e.pair \subseteq nodes, NEW x \in nodes
  PROVE  Connected(Within(E, root), x) \subseteq {y \in nodes : root[y] = root[x]}
<1>1. NoEdgeLeaves(Within(E, root), {y \in nodes : root[y] = root[x]})
  BY DEF NoEdgeLeaves, Within
<1> QED BY <1>1, ConnectedClosed

\* Roots of an edge that is refused are those of a cut, and conversely.
SameRoots(root, p, q) == {root[x] : x \in p} = {root[x] : x \in q}
LEMMA ViolatesIs ==
  ASSUME NEW parent, NEW nodes, NEW root, Forest(parent, nodes, root), NEW cuts,
         \A c \in cuts : c \subseteq nodes, NEW p, p \subseteq nodes
  PROVE  Violates(parent, p, cuts) <=> \E c \in cuts : SameRoots(root, c, p)
<1>1. \A x \in nodes : Find(parent, x) = root[x]
  BY FindIsRoot
<1>2. \A q : q \subseteq nodes => {Find(parent, x) : x \in q} = {root[x] : x \in q}
  BY <1>1
<1>3. Violates(parent, p, cuts)
        <=> \E c \in cuts : {Find(parent, x) : x \in c} = {Find(parent, x) : x \in p}
  BY DEF Violates
<1> QED BY <1>2, <1>3 DEF SameRoots

\* Nodes, cuts and edges of a clustering.
WellGiven(nodes, E, cuts) ==
  /\ \A e \in E : AnEdge(e) /\ e.pair \subseteq nodes
  /\ \A c \in cuts : APair(c) /\ c \subseteq nodes

\* Two ids have one root if their roots are equal.
LEMMA OneOfTwo == \A x, y : Cardinality({x, y}) = 1 <=> x = y
<1> SUFFICES ASSUME NEW x, NEW y PROVE Cardinality({x, y}) = 1 <=> x = y
  OBVIOUS
<1>1. Cardinality({x}) = 1 /\ IsFiniteSet({x})
  BY FS_Singleton
<1>2. CASE x = y
  <2>1. {x, y} = {x}
    BY <1>2
  <2> QED BY <1>1, <1>2, <2>1
<1>3. CASE x # y
  <2>1. {x, y} = {x} \cup {y} /\ y \notin {x}
    BY <1>3
  <2>2. Cardinality({x} \cup {y}) = Cardinality({x}) + 1
    BY <1>1, <2>1, FS_AddElement
  <2> QED BY <1>1, <1>3, <2>1, <2>2
<1> QED BY <1>2, <1>3

\* The last of the edges keeps what holds of those before it: it is inside a class,
\* or refused for a cut, or joins two classes that no cut parts.
LEMMA AdmitClustered ==
  ASSUME NEW nodes, NEW E, NEW cuts, WellGiven(nodes, E, cuts),
         NEW l \in E, \A f \in E \ {l} : Earlier(f, l),
         NEW st, st = [parent |-> st.parent, skipped |-> st.skipped],
         NEW root, Clustered(st.parent, nodes, E \ {l}, cuts, root),
         NEW u, u = AdmitEdge(cuts, l, st)
  PROVE  /\ u = [parent |-> u.parent, skipped |-> u.skipped]
         /\ \E r : Clustered(u.parent, nodes, E, cuts, r)
<1> DEFINE F == E \ {l}
           a == Least(l.pair)
           b == Greatest(l.pair)
           W == Within(F, root)
<1>1. /\ a \in nodes \cap AnchorId /\ b \in nodes \cap AnchorId /\ l.pair = {a, b} /\ a # b
      /\ AnEdge(l) /\ l.pair \subseteq nodes
  BY PairIs, AnchorIds DEF WellGiven, AnEdge
<1>2. Forest(st.parent, nodes, root) /\ \A x, y \in nodes : root[x] = root[y] => y \in Connected(W, x)
  BY DEF Clustered
<1>3. {Find(st.parent, x) : x \in l.pair} = {root[a], root[b]}
  BY <1>1, <1>2, FindIsRoot
<1>4. Cardinality({root[a], root[b]}) = 1 <=> root[a] = root[b]
  BY OneOfTwo, Zenon
<1> HIDE DEF a, b
<1>5. u = IF root[a] = root[b] THEN st
          ELSE IF Violates(st.parent, l.pair, cuts)
               THEN [st EXCEPT !.skipped = @ \cup {l.pair}]
               ELSE [st EXCEPT !.parent = Union(@, a, b)]
  BY <1>3, <1>4 DEF AdmitEdge, a, b
<1>6. \A r : Within(F, r) \subseteq Within(E, r)
  BY DEF Within
<1>7. Violates(st.parent, l.pair, cuts) <=> \E c \in cuts : {root[x] : x \in c} = {root[a], root[b]}
  <2>1. {root[x] : x \in l.pair} = {root[a], root[b]}
    BY <1>1
  <2>2. Violates(st.parent, l.pair, cuts) <=> \E c \in cuts : SameRoots(root, c, l.pair)
    <3>1. \A c \in cuts : c \subseteq nodes
      BY DEF WellGiven
    <3> QED BY <1>1, <1>2, <3>1, ViolatesIs
  <2> QED BY <2>1, <2>2 DEF SameRoots
<1>8. ASSUME NEW r, W \subseteq Within(E, r), NEW e \in F, e \notin Within(E, r)
      PROVE  JoinsACut({f \in Within(E, r) : Earlier(f, e)} \cup {e}, cuts)
  <2>1. e \notin W
    BY <1>8
  <2>2. JoinsACut({f \in W : Earlier(f, e)} \cup {e}, cuts)
    BY <1>8, <2>1 DEF Clustered
  <2>3. {f \in W : Earlier(f, e)} \cup {e} \subseteq {f \in Within(E, r) : Earlier(f, e)} \cup {e}
    BY <1>8
  <2> HIDE DEF W
  <2> QED BY <2>2, <2>3, JoinsMore
<1>9. ASSUME NEW V, W \subseteq V, NEW x \in nodes, NEW y \in nodes, root[x] = root[y]
      PROVE  y \in Connected(V, x)
  BY <1>2, <1>9, ConnectedMore
<1> HIDE DEF W
<1>13. ASSUME NEW V, W \subseteq V, l \in V, NEW x \in nodes, NEW y \in nodes,
             root[x] = root[a], root[y] = root[b]
      PROVE  y \in Connected(V, x) /\ x \in Connected(V, y)
  <2>1. a \in l.pair /\ b \in l.pair /\ a \in nodes /\ b \in nodes
    BY <1>1
  <2>2. a \in Connected(W, x) /\ y \in Connected(W, b)
    BY <1>2, <1>13, <2>1
  <2>3. a \in Connected(V, x) /\ y \in Connected(V, b)
    BY <1>13, <2>2, ConnectedMore
  <2>4. b \in Connected(V, x)
    BY <1>13, <2>1, <2>3, ConnectedClosed DEF NoEdgeLeaves
  <2>5. y \in Connected(V, x)
    BY <2>3, <2>4, ConnectedThrough
  <2> QED BY <2>5, ConnectedBack
<1> USE DEF W
<1>10. CASE root[a] = root[b]
  <2>1. u = st
    BY <1>5, <1>10
  <2>2. W \subseteq Within(E, root) /\ l \in Within(E, root)
    BY <1>1, <1>6, <1>10 DEF Within
  <2>3. Clustered(st.parent, nodes, E, cuts, root)
    BY <1>2, <1>8, <1>9, <2>2 DEF Clustered
  <2> QED BY <2>1, <2>3
<1>11. CASE root[a] # root[b] /\ Violates(st.parent, l.pair, cuts)
  <2>1. u = [st EXCEPT !.skipped = @ \cup {l.pair}]
    BY <1>5, <1>11
  <2>2. u.parent = st.parent /\ u = [parent |-> u.parent, skipped |-> u.skipped]
    BY <2>1
  <2>3. Within(E, root) = W
    BY <1>1, <1>11 DEF Within
  <2>4. JoinsACut({f \in Within(E, root) : Earlier(f, l)} \cup {l}, cuts)
    <3>1. PICK c \in cuts : {root[x] : x \in c} = {root[a], root[b]}
      BY <1>7, <1>11
    <3>2. PICK x \in c, y \in c : root[x] = root[a] /\ root[y] = root[b]
      BY <3>1
    <3>3. c = {x, y} /\ x \in nodes /\ y \in nodes
      BY <1>11, <3>2 DEF WellGiven, APair
    <3>4. {f \in Within(E, root) : Earlier(f, l)} = W
      BY <2>3 DEF Within
    <3>5. y \in Connected(W \cup {l}, x)
      <4> HIDE DEF W
      <4> QED BY <1>13, <3>2, <3>3
    <3>6. c \subseteq Connected(W \cup {l}, x)
      BY <3>3, <3>5, ConnectedClosed
    <3> HIDE DEF W
    <3> QED BY <3>2, <3>4, <3>6 DEF JoinsACut
  <2>5. Clustered(st.parent, nodes, E, cuts, root)
    BY <1>2, <1>8, <1>9, <2>3, <2>4 DEF Clustered
  <2> QED BY <2>2, <2>5
<1>12. CASE root[a] # root[b] /\ ~Violates(st.parent, l.pair, cuts)
  <2> DEFINE lo == Least({root[a], root[b]})
             r == [y \in nodes |-> IF root[y] \in {root[a], root[b]} THEN lo ELSE root[y]]
  <2>1. u = [st EXCEPT !.parent = Union(@, a, b)]
    BY <1>5, <1>12
  <2>2. u.parent = Union(st.parent, a, b) /\ u = [parent |-> u.parent, skipped |-> u.skipped]
    BY <2>1
  <2>3. Forest(u.parent, nodes, r) /\ lo \in {root[a], root[b]}
    BY <1>1, <1>2, <1>12, <2>2, UnionIs
  <2>4. /\ \A x \in nodes : r[x] = IF root[x] \in {root[a], root[b]} THEN lo ELSE root[x]
    OBVIOUS
  <2> HIDE DEF lo, r
  <2>5. W \subseteq Within(E, r) /\ l \in Within(E, r)
    BY <1>1, <2>4 DEF Within, WellGiven
  <2>6. \A x, y \in nodes : r[x] = r[y] /\ root[x] # root[y] =>
           (root[x] = root[a] /\ root[y] = root[b]) \/ (root[x] = root[b] /\ root[y] = root[a])
    BY <2>3, <2>4
  <2>7. ASSUME NEW x \in nodes, NEW y \in nodes, r[x] = r[y]
        PROVE  y \in Connected(Within(E, r), x)
    <3>1. CASE root[x] = root[y]
      BY <1>9, <2>5, <3>1
    <3>2. CASE root[x] # root[y]
      <4> HIDE DEF W
      <4> DEFINE V == Within(E, r)
      <4>1. W \subseteq V /\ l \in V
        BY <2>5
      <4> HIDE DEF V
      <4>2. y \in Connected(V, x)
        BY <1>13, <2>6, <2>7, <3>2, <4>1
      <4> QED BY <4>2 DEF V
    <3> QED BY <3>1, <3>2
  <2>8. ASSUME NEW c \in cuts PROVE \E x, y \in c : r[x] # r[y]
    <3>1. PICK x \in c, y \in c : root[x] # root[y]
      BY DEF Clustered
    <3>2. c = {x, y} /\ x \in nodes /\ y \in nodes
      BY <3>1 DEF WellGiven, APair
    <3>3. {root[z] : z \in c} = {root[x], root[y]}
      BY <3>2
    <3>4. {root[x], root[y]} # {root[a], root[b]}
      BY <1>7, <1>12, <3>3
    <3> QED BY <2>6, <3>1, <3>2, <3>4
  <2>9. Clustered(u.parent, nodes, E, cuts, r)
    BY <1>8, <2>3, <2>5, <2>7, <2>8 DEF Clustered
  <2> QED BY <2>2, <2>9
<1> QED BY <1>10, <1>11, <1>12

\* What has been admitted is clustered, whatever has been admitted.
LEMMA AllClustered ==
  ASSUME NEW nodes, NEW edges, IsFiniteSet(edges), NEW cuts, WellGiven(nodes, edges, cuts),
         NEW g, AdmitsAlong(g, nodes, edges, cuts)
  PROVE  \E root : Clustered(g[edges].parent, nodes, edges, cuts, root)
<1> DEFINE Good(E) == /\ g[E] = [parent |-> g[E].parent, skipped |-> g[E].skipped]
                      /\ \E root : Clustered(g[E].parent, nodes, E, cuts, root)
           T == {E \in SUBSET edges : Good(E)}
<1>1. ASSUME NEW E \in SUBSET edges, \A u \in SUBSET E : u # E => u \in T PROVE E \in T
  <2>1. CASE E = {}
    <3>1. g[E] = Apart(nodes) /\ Apart(nodes) = [parent |-> Apart(nodes).parent,
                                                 skipped |-> Apart(nodes).skipped]
      BY <2>1 DEF AdmitsAlong, Apart
    <3>2. Clustered(Apart(nodes).parent, nodes, {}, cuts, [x \in nodes |-> x])
      BY NoneClustered DEF WellGiven
    <3> QED BY <2>1, <3>1, <3>2
  <2>2. CASE E # {}
    <3> DEFINE l == LastOf(E)
               F == E \ {l}
    <3>1. IsFiniteSet(E) /\ \A e \in E : AnEdge(e)
      BY FS_Subset DEF WellGiven
    <3>2. l \in E /\ \A f \in F : Earlier(f, l)
      BY <2>2, <3>1, LastIs
    <3> HIDE DEF l
    <3>3. F \in SUBSET E /\ F # E
      BY <3>2
    <3>4. F \in T
      <4> HIDE DEF F, T
      <4> QED BY <1>1, <3>3
    <3>5. PICK root : Clustered(g[F].parent, nodes, F, cuts, root)
      BY <3>4
    <3>6. g[E] = AdmitEdge(cuts, l, g[F])
      BY <2>2 DEF AdmitsAlong, l
    <3>7. WellGiven(nodes, E, cuts)
      BY DEF WellGiven
    <3>8. g[F] = [parent |-> g[F].parent, skipped |-> g[F].skipped]
      BY <3>4
    <3>9. Good(E)
      <4> DEFINE st == g[F]
                 u == g[E]
      <4>1. u = AdmitEdge(cuts, l, st) /\ st = [parent |-> st.parent, skipped |-> st.skipped]
            /\ Clustered(st.parent, nodes, E \ {l}, cuts, root)
        BY <3>5, <3>6, <3>8
      <4> HIDE DEF st, u
      <4>2. /\ u = [parent |-> u.parent, skipped |-> u.skipped]
            /\ \E r : Clustered(u.parent, nodes, E, cuts, r)
        BY <3>2, <3>7, <4>1, AdmitClustered
      <4> QED BY <4>2 DEF u
    <3> QED BY <3>9
  <2> QED BY <2>1, <2>2
<1>2. edges \in T
  <2> HIDE DEF T
  <2>1. \A E \in SUBSET edges : (\A u \in SUBSET E : u # E => u \in T) => E \in T
    BY <1>1
  <2> QED BY <2>1, FiniteInduction, Zenon
<1> QED BY <1>2

\* Whatever the nodes, the edges and the cuts, clustering them is greedy.
LEMMA ClusterIsGreedy ==
  ASSUME NEW nodes, NEW edges, IsFiniteSet(edges), NEW cuts, WellGiven(nodes, edges, cuts),
         NEW R, R.rep = Cluster(nodes, edges, cuts).rep
  PROVE  /\ ClusteringIsGreedy(R, edges, cuts)
         /\ DOMAIN R.rep = nodes
<1>1. \A e \in edges : AnEdge(e) /\ e.pair \subseteq nodes
  BY DEF WellGiven
<1>2. PICK g : /\ AdmitsAlong(g, nodes, edges, cuts)
               /\ Cluster(nodes, edges, cuts) =
                    [rep |-> [x \in nodes |-> Find(g[edges].parent, x)], skipped |-> g[edges].skipped]
  BY <1>1, ClusterUnfolds
<1>3. PICK root : Clustered(g[edges].parent, nodes, edges, cuts, root)
  BY <1>2, AllClustered
<1>4. \A x \in nodes : Find(g[edges].parent, x) = root[x]
  <2> DEFINE parent == g[edges].parent
  <2>1. Forest(parent, nodes, root)
    BY <1>3 DEF Clustered
  <2> HIDE DEF parent
  <2>2. \A x \in nodes : Find(parent, x) = root[x]
    BY <2>1, FindIsRoot
  <2> QED BY <2>2 DEF parent
<1>5. R.rep = [x \in nodes |-> root[x]]
  BY <1>2, <1>4
<1>6. DOMAIN R.rep = nodes /\ \A x \in nodes : R.rep[x] = root[x]
  BY <1>5
<1> DEFINE admitted == {e \in edges : \A x, y \in e.pair : R.rep[x] = R.rep[y]}
<1>7. admitted = Within(edges, root)
  BY <1>1, <1>6 DEF Within
<1> HIDE DEF admitted
<1>8. ASSUME NEW x \in nodes PROVE Members(R, x) = Connected(admitted, x)
  <2>1. Members(R, x) = {y \in nodes : root[y] = root[x]}
    BY <1>6 DEF Members
  <2>2. Connected(admitted, x) \subseteq {y \in nodes : root[y] = root[x]}
    BY <1>1, <1>7, WithinClass
  <2>3. \A y \in nodes : root[y] = root[x] => y \in Connected(admitted, x)
    BY <1>3, <1>7 DEF Clustered
  <2> QED BY <2>1, <2>2, <2>3
<1>9. ~JoinsACut(admitted, cuts)
  <2> SUFFICES ASSUME NEW c \in cuts, NEW x \in c, c \subseteq Connected(admitted, x) PROVE FALSE
    BY DEF JoinsACut
  <2>1. x \in nodes
    BY DEF WellGiven
  <2>2. \A y \in c : root[y] = root[x]
    BY <1>1, <1>7, <2>1, WithinClass
  <2> QED BY <1>3, <2>2 DEF Clustered
<1>10. \A e \in edges \ admitted : JoinsACut({f \in admitted : Earlier(f, e)} \cup {e}, cuts)
  BY <1>3, <1>7 DEF Clustered
<1> QED BY <1>6, <1>8, <1>9, <1>10, Zenon DEF ClusteringIsGreedy, admitted

-----------------------------------------------------------------------------
(* The edges and the cuts of a set of records.                             *)

\* What is read off the claims of a kind.
LEMMA HavingOK ==
  ASSUME NEW L, Records(L), NEW predicate, NEW field
  PROVE  /\ IsFiniteSet(Having(L, predicate, field))
         /\ \A c \in Having(L, predicate, field) :
               /\ c \in L /\ AClaim(c) /\ c.predicate = predicate /\ field \in DOMAIN c.value
               /\ ValueOK(c.predicate, c.value)
<1>1. Having(L, predicate, field) \subseteq L
  BY DEF Having
<1>2. \A c \in Having(L, predicate, field) : AClaim(c)
  BY <1>1, Kinds DEF Having, Records, ARecord
<1> QED BY <1>1, <1>2, FS_Subset DEF Having, Records, AClaim

\* A score is a number.
LEMMA ScoreIsInt ==
  ASSUME NEW L, IsFiniteSet(L), NEW F, F \subseteq L
  PROVE  Score(F, L) \in Int
<1>1. ASSUME NEW C, C \subseteq L PROVE IsFiniteSet(Authors(C))
  <2> DEFINE f == [c \in C |-> c.by]
  <2>1. IsFiniteSet(C)
    BY <1>1, FS_Subset
  <2>2. \A y \in Authors(C) : \E c \in C : y = f[c]
    BY DEF Authors
  <2> HIDE DEF f
  <2> QED BY <2>1, <2>2, ImageIsFinite, Zenon
<1>2. ASSUME NEW verdict PROVE IsFiniteSet(Voters(F, L, verdict))
  <2> DEFINE C == {x \in Having(L, "attest", "verdict") :
                      /\ x.value.verdict = verdict
                      /\ \/ x.target \in F
                         \/ x.target = FactOf(CHOOSE c \in F : TRUE)}
  <2>1. Voters(F, L, verdict) = Authors(C)
    BY Zenon DEF Voters, Authors
  <2>2. C \subseteq L
    BY DEF Having
  <2> HIDE DEF C
  <2> QED BY <1>1, <2>1, <2>2
<1>3. IsFiniteSet(Authors(F)) /\ IsFiniteSet(Voters(F, L, "support") \ Authors(F))
      /\ IsFiniteSet(Voters(F, L, "reject"))
  BY <1>1, <1>2, FS_Subset
<1> DEFINE a == Cardinality(Authors(F))
           s == Cardinality(Voters(F, L, "support") \ Authors(F))
           j == Cardinality(Voters(F, L, "reject"))
<1>4. a \in Nat /\ s \in Nat /\ j \in Nat
  BY <1>3, FS_CardinalityType
<1>5. Score(F, L) = a + s - j
  BY Zenon DEF Score
<1> HIDE DEF a, s, j
<1> QED BY <1>4, <1>5

\* A pair that is paired is of two ids.
LEMMA PairedOK ==
  ASSUME NEW L, Records(L), NEW predicate, predicate \in {"same_as", "different_from"}
  PROVE  /\ IsFiniteSet(Paired(L, predicate)) /\ Paired(L, predicate) \subseteq L
         /\ \A c \in Paired(L, predicate) : APair(PairOf(c)) /\ PairOf(c) \subseteq Nodes(L)
<1>1. Paired(L, predicate) \subseteq Having(L, predicate, "pair")
  BY DEF Paired
<1>2. IsFiniteSet(Paired(L, predicate)) /\ Paired(L, predicate) \subseteq L
  BY <1>1, HavingOK, FS_Subset
<1>3. ASSUME NEW c \in Paired(L, predicate) PROVE APair(PairOf(c))
  <2>1. ValueOK(c.predicate, c.value) /\ c.predicate = predicate /\ "pair" \in DOMAIN c.value
    BY <1>1, HavingOK
  <2>2. c.value.pair[1] \in AnchorId /\ c.value.pair[2] \in AnchorId
    BY <2>1 DEF ValueOK
  <2>3. c.value.pair[1] # c.value.pair[2]
    <3>1. Cardinality(PairOf(c)) = 2
      BY DEF Paired
    <3>2. Cardinality({c.value.pair[1], c.value.pair[2]}) = 1 <=> c.value.pair[1] = c.value.pair[2]
      BY OneOfTwo, Zenon
    <3> QED BY <3>1, <3>2 DEF PairOf
  <2> QED BY <2>2, <2>3 DEF APair, PairOf
<1>4. \A c \in Paired(L, predicate) : PairOf(c) \subseteq Nodes(L)
  BY DEF Nodes
<1> QED BY <1>2, <1>3, <1>4

\* Scored pairs are edges between nodes, and finitely many.
LEMMA ScoredOK ==
  ASSUME NEW L, Records(L), NEW predicate, predicate \in {"same_as", "different_from"}
  PROVE  /\ IsFiniteSet(Scored(L, predicate))
         /\ \A e \in Scored(L, predicate) : AnEdge(e) /\ e.pair \subseteq Nodes(L)
<1> DEFINE P == Paired(L, predicate)
           Of(p) == [pair |-> p, score |-> Score({c \in P : PairOf(c) = p}, L)]
           f == [c \in P |-> Of(PairOf(c))]
<1>1. IsFiniteSet(P) /\ P \subseteq L /\ \A c \in P : APair(PairOf(c)) /\ PairOf(c) \subseteq Nodes(L)
  BY PairedOK
<1>2. Scored(L, predicate) = {Of(p) : p \in {PairOf(c) : c \in P}}
  BY Zenon DEF Scored
<1> HIDE DEF P
<1>3. \A e \in Scored(L, predicate) : \E c \in P : e = Of(PairOf(c))
  <2> HIDE DEF Of
  <2> QED BY <1>2
<1>4. IsFiniteSet(Scored(L, predicate))
  <2>1. \A e \in Scored(L, predicate) : \E c \in P : e = f[c]
    <3> HIDE DEF Of
    <3> QED BY <1>3
  <2> HIDE DEF f
  <2> QED BY <1>1, <2>1, ImageIsFinite, Zenon
<1>5. ASSUME NEW e \in Scored(L, predicate) PROVE AnEdge(e) /\ e.pair \subseteq Nodes(L)
  <2>1. PICK c \in P : e = Of(PairOf(c))
    BY <1>3
  <2> DEFINE F == {x \in P : PairOf(x) = PairOf(c)}
  <2>2. Score(F, L) \in Int
    <3>1. F \subseteq L /\ IsFiniteSet(L)
      BY <1>1 DEF Records
    <3> HIDE DEF F
    <3> QED BY <3>1, ScoreIsInt
  <2>3. e = [pair |-> PairOf(c), score |-> Score(F, L)]
    BY <2>1
  <2> HIDE DEF F
  <2> QED BY <1>1, <2>2, <2>3 DEF AnEdge
<1> QED BY <1>4, <1>5

\* So are those that stand,
LEMMA EdgesAreGiven ==
  ASSUME NEW L, Records(L)
  PROVE  IsFiniteSet(Edges(L)) /\ WellGiven(Nodes(L), Edges(L), Cuts(L))
<1>1. Edges(L) \subseteq Scored(L, "same_as")
  BY DEF Edges
<1>2. \A c \in Cuts(L) : \E e \in Scored(L, "different_from") : c = e.pair
  BY DEF Cuts
<1>3. /\ IsFiniteSet(Scored(L, "same_as"))
      /\ \A e \in Scored(L, "same_as") : AnEdge(e) /\ e.pair \subseteq Nodes(L)
      /\ \A e \in Scored(L, "different_from") : AnEdge(e) /\ e.pair \subseteq Nodes(L)
  BY ScoredOK
<1> QED BY <1>1, <1>2, <1>3, FS_Subset DEF WellGiven, AnEdge

\* and the clusters of the records are as greedy.
LEMMA ClustersAreGreedy ==
  ASSUME NEW L, Records(L)
  PROVE  /\ ClusteringIsGreedy(Resolve(L), Edges(L), Cuts(L))
         /\ DOMAIN Resolve(L).rep = Nodes(L)
         /\ Resolve(L).rehome = Rehome(L) /\ Resolve(L).anchors = Anchors(L, "person")
<1> DEFINE R == Resolve(L)
<1>1. /\ R.rep = Cluster(Nodes(L), Edges(L), Cuts(L)).rep
      /\ R.rehome = Rehome(L) /\ R.anchors = Anchors(L, "person")
  BY Zenon DEF Resolve
<1>2. IsFiniteSet(Edges(L)) /\ WellGiven(Nodes(L), Edges(L), Cuts(L))
  BY EdgesAreGiven
<1> HIDE DEF R
<1>3. ClusteringIsGreedy(R, Edges(L), Cuts(L)) /\ DOMAIN R.rep = Nodes(L)
  BY <1>1, <1>2, ClusterIsGreedy
<1> QED BY <1>1, <1>3 DEF R

-----------------------------------------------------------------------------
(* What is shown of a person.                                              *)

\* Of finitely many integers one is the greatest.
LEMMA SomeIsBest ==
  ASSUME NEW S, IsFiniteSet(S), S # {}, NEW f, \A x \in S : f[x] \in Int
  PROVE  \E x \in S : \A y \in S : f[x] >= f[y]
<1> DEFINE Best(s) == \E x \in s : \A y \in s : f[x] >= f[y]
           T == {s \in SUBSET S : s # {} => Best(s)}
<1>1. ASSUME NEW s \in SUBSET S, \A u \in SUBSET s : u # s => u \in T PROVE s \in T
  <2> SUFFICES ASSUME s # {} PROVE Best(s)
    OBVIOUS
  <2>1. PICK z \in s : TRUE
    OBVIOUS
  <2> DEFINE u == s \ {z}
  <2>2. CASE u = {}
    <3>1. \A y \in s : y = z
      BY <2>2
    <3> QED BY <3>1
  <2>3. CASE u # {}
    <3>1. u \in SUBSET s /\ u # s
      BY <2>1
    <3>2. Best(u)
      <4> HIDE DEF u, Best
      <4> QED BY <1>1, <2>3, <3>1
    <3>3. PICK x \in u : \A y \in u : f[x] >= f[y]
      BY <3>2
    <3>4. f[x] \in Int /\ f[z] \in Int /\ \A y \in s : f[y] \in Int /\ (y = z \/ y \in u)
      BY <3>3
    <3>5. CASE f[x] >= f[z]
      BY <3>3, <3>4, <3>5
    <3>6. CASE f[z] >= f[x]
      <4>1. \A y \in s : f[z] >= f[y]
        BY <3>3, <3>4, <3>6
      <4> QED BY <4>1
    <3> QED BY <3>4, <3>5, <3>6
  <2> QED BY <2>2, <2>3
<1>2. S \in T
  <2> HIDE DEF T
  <2>1. \A s \in SUBSET S : (\A u \in SUBSET s : u # s => u \in T) => s \in T
    BY <1>1
  <2> QED BY <2>1, FiniteInduction, Zenon
<1> QED BY <1>2

\* A claim's person is one of those that take part.
LEMMA RehomeIs ==
  ASSUME NEW L, Records(L), NEW c \in DOMAIN Rehome(L)
  PROVE  Rehome(L)[c] \in Nodes(L)
<1> DEFINE moves == Having(L, "reattribute_to", "personId")
           To(p) == {m \in moves : m.target = c /\ m.value.personId = p}
           proposed == {m.value.personId : m \in {x \in moves : x.target = c}}
           Ok == {p \in proposed : Score(To(p), L) >= Threshold}
           Best == {p \in Ok : \A q \in Ok : Score(To(p), L) >= Score(To(q), L)}
<1>1. Ok # {} /\ Rehome(L)[c] = Least(Best)
  BY Zenon DEF Rehome
<1>2. /\ IsFiniteSet(moves) /\ moves \subseteq L
      /\ \A m \in moves : m.value.personId \in AnchorId
  BY HavingOK DEF ValueOK
<1>3. \A m \in moves : m.value.personId \in Nodes(L)
  BY DEF Nodes
<1> HIDE DEF moves
<1>4. proposed \subseteq AnchorId /\ proposed \subseteq Nodes(L)
  BY <1>2, <1>3
<1>5. IsFiniteSet(proposed)
  <2> DEFINE S == {x \in moves : x.target = c}
             f == [m \in S |-> m.value.personId]
  <2>1. IsFiniteSet(S)
    BY <1>2, FS_Subset
  <2>2. \A y \in proposed : \E m \in S : y = f[m]
    OBVIOUS
  <2> HIDE DEF S, f, proposed
  <2> QED BY <2>1, <2>2, ImageIsFinite, Zenon
<1>6. \A p : Score(To(p), L) \in Int
  <2> SUFFICES ASSUME NEW p PROVE Score(To(p), L) \in Int
    OBVIOUS
  <2>1. To(p) \subseteq L /\ IsFiniteSet(L)
    BY <1>2 DEF Records
  <2> HIDE DEF To
  <2> QED BY <2>1, ScoreIsInt
<1>7. Best # {}
  <2> DEFINE f == [p \in Ok |-> Score(To(p), L)]
  <2>1. IsFiniteSet(Ok)
    BY <1>5, FS_Subset
  <2>2. \A p \in Ok : f[p] = Score(To(p), L) /\ f[p] \in Int
    BY <1>6
  <2> HIDE DEF f, Ok, To
  <2>3. \E x \in Ok : \A y \in Ok : f[x] >= f[y]
    BY <1>1, <2>1, <2>2, SomeIsBest
  <2> QED BY <2>2, <2>3
<1>8. Best \subseteq proposed
  OBVIOUS
<1> HIDE DEF Best
<1>9. Least(Best) \in Best
  BY <1>4, <1>7, <1>8, LeastIsIn
<1> QED BY <1>1, <1>4, <1>8, <1>9

\* Who there is, and what is read off a person's claims.
Shows(p, c) == \E x \in p.names : x.claim = c
Follows(shown, home) ==
  IF home = {} THEN shown = {}
  ELSE \E p \in shown : shown = {p} /\ p.id \in home /\ p.also = home \ {p.id}

\* A person is shown with the claims whose subject it is.
LEMMA PersonIs ==
  ASSUME NEW L, NEW R, NEW id, NEW p, p = PersonAt(L, R, id)
  PROVE  /\ p.id = id /\ p.also = (Members(R, id) \cap R.anchors) \ {id}
         /\ \A c : Shows(p, c) <=> c \in Having(L, "name", "parts") /\ SubjectOf(R, c) = id
<1> DEFINE names == About(R, Having(L, "name", "parts"), id)
           Entry(c) == [claim |-> c, class |-> EquivClass(names, c)]
<1>1. /\ p.id = id /\ p.also = (Members(R, id) \cap R.anchors) \ {id}
      /\ p.names = {Entry(c) : c \in names}
  BY Zenon DEF PersonAt
<1>2. \A c : Entry(c).claim = c
  OBVIOUS
<1>3. \A c : c \in names <=> c \in Having(L, "name", "parts") /\ SubjectOf(R, c) = id
  BY DEF About
<1> HIDE DEF names, Entry
<1>4. \A c : Shows(p, c) <=> c \in names
  BY <1>1, <1>2 DEF Shows
<1> QED BY <1>1, <1>3, <1>4

\* There is a person for the canonical id of each anchor.
LEMMA PeopleAre ==
  ASSUME NEW L, NEW R
  PROVE  /\ \A p \in People(L, R) : \E x \in R.anchors : p = PersonAt(L, R, Canon(R, x))
         /\ \A x \in R.anchors : PersonAt(L, R, Canon(R, x)) \in People(L, R)
  BY DEF People

\* A name is shown where its place is clustered: the canonical id of a cluster
\* with an anchor is one of its anchors, and that of the others is None.
LEMMA NamesFollow ==
  ASSUME NEW L, Records(L)
  PROVE  FactsFollowTheirPerson(ViewOf(L, Resolve(L)), Resolve(L), L)
<1> DEFINE R == Resolve(L)
           V == ViewOf(L, R)
<1>1. /\ ClusteringIsGreedy(R, Edges(L), Cuts(L))
      /\ DOMAIN R.rep = Nodes(L) /\ R.rehome = Rehome(L) /\ R.anchors = Anchors(L, "person")
  BY ClustersAreGreedy
<1> HIDE DEF R
<1>2. V.people = People(L, R)
  BY DEF ViewOf
<1> HIDE DEF V
<1>3. R.anchors \subseteq AnchorId /\ R.anchors \subseteq Nodes(L)
  <2>1. \A r \in L : r.kind = "anchor" => r.id \in AnchorId
    BY Kinds DEF Records, ARecord, AnAnchor
  <2> QED BY <1>1, <2>1 DEF Anchors, Nodes
<1> DEFINE Home(x) == {y \in R.anchors : R.rep[y] = R.rep[x]}
<1>4. ASSUME NEW x \in Nodes(L)
      PROVE  /\ Members(R, x) \cap R.anchors = Home(x)
             /\ Home(x) = {} => Canon(R, x) = None
             /\ Home(x) # {} => Canon(R, x) = Least(Home(x)) /\ Canon(R, x) \in Home(x)
  <2>1. Members(R, x) \cap R.anchors = Home(x)
    BY <1>1, <1>3 DEF Members
  <2>2. Canon(R, x) = IF Home(x) = {} THEN None ELSE Least(Home(x))
    <3> HIDE DEF Home
    <3> QED BY <1>1, <2>1 DEF Canon
  <2>3. Home(x) \subseteq AnchorId
    BY <1>3
  <2> HIDE DEF Home
  <2> QED BY <2>1, <2>2, <2>3, LeastIsIn
<1>5. ASSUME NEW x \in R.anchors PROVE Canon(R, x) \in R.anchors /\ Canon(R, x) # None
  <2>1. x \in Home(x) /\ x \in Nodes(L)
    BY <1>3
  <2>2. Canon(R, x) \in Home(x)
    <3> HIDE DEF Home
    <3> QED BY <1>4, <2>1
  <2> QED BY <1>3, <2>2, NoneAssumption
<1>6. ASSUME NEW c \in Having(L, "name", "parts")
      PROVE  Follows({p \in V.people : Shows(p, c)},
                     {x \in Anchors(L, "person") : R.rep[x] = R.rep[EffTarget(R, c)]})
  <2> DEFINE shown == {p \in V.people : Shows(p, c)}
             to == EffTarget(R, c)
             home == {x \in Anchors(L, "person") : R.rep[x] = R.rep[to]}
             s == Canon(R, to)
  <2>1. to \in Nodes(L)
    <3>1. c.target \in Nodes(L)
      BY DEF Nodes
    <3> QED BY <1>1, <3>1, RehomeIs DEF EffTarget
  <2>2. home = Home(to) /\ SubjectOf(R, c) = s
    BY <1>1 DEF SubjectOf
  <2> HIDE DEF to, s, Home
  <2>3. \A id : Shows(PersonAt(L, R, id), c) <=> s = id
    <3>1. ASSUME NEW id, NEW p, p = PersonAt(L, R, id) PROVE Shows(p, c) <=> s = id
      <4>1. \A d : Shows(p, d) <=> d \in Having(L, "name", "parts") /\ SubjectOf(R, d) = id
        BY <3>1, PersonIs
      <4> QED BY <2>2, <4>1
    <3> QED BY <3>1
  <2>4. \A p \in shown : p = PersonAt(L, R, s) /\ s # None
    <3> SUFFICES ASSUME NEW p \in V.people, Shows(p, c)
                 PROVE  p = PersonAt(L, R, s) /\ s # None
      OBVIOUS
    <3>1. PICK x \in R.anchors : p = PersonAt(L, R, Canon(R, x))
      BY <1>2, PeopleAre
    <3>2. s = Canon(R, x)
      BY <2>3, <3>1
    <3> QED BY <1>5, <3>1, <3>2
  <2>5. ASSUME home = {} PROVE Follows(shown, home)
    <3>1. s = None
      BY <1>4, <2>1, <2>2, <2>5 DEF s
    <3>2. shown = {}
      BY <2>4, <3>1
    <3> HIDE DEF shown, home
    <3> QED BY <2>5, <3>2 DEF Follows
  <2>6. ASSUME home # {} PROVE Follows(shown, home)
    <3>1. s = Least(home) /\ s \in home
      BY <1>4, <2>1, <2>2, <2>6 DEF s
    <3>2. s \in R.anchors /\ s \in Nodes(L) /\ R.rep[s] = R.rep[to]
      BY <1>1, <1>3, <3>1
    <3>3. Home(s) = home
      BY <2>2, <3>2 DEF Home
    <3>4. Canon(R, s) = s
      BY <1>4, <2>6, <3>1, <3>2, <3>3
    <3>11. PICK q : q = PersonAt(L, R, s)
      OBVIOUS
    <3>10. q.id = s /\ q.also = (Members(R, s) \cap R.anchors) \ {s}
      BY <3>11, PersonIs
    <3>5. q \in V.people
      BY <1>2, <3>2, <3>4, <3>11, PeopleAre
    <3>6. q \in shown
      BY <2>3, <3>5, <3>11
    <3>7. q.id = s /\ q.also = home \ {s}
      <4>1. q.id = s /\ q.also = (Members(R, s) \cap R.anchors) \ {s}
        BY <3>10
      <4>2. Members(R, s) \cap R.anchors = home
        BY <1>4, <3>2, <3>3
      <4> QED BY <4>1, <4>2
    <3>8. \A p \in shown : p = q
      BY <2>4, <3>11
    <3> HIDE DEF shown, home
    <3>9. shown = {q}
      BY <3>6, <3>8
    <3> QED BY <2>6, <3>1, <3>7, <3>9 DEF Follows
  <2>7. Follows(shown, home)
    <3> HIDE DEF shown, home
    <3> QED BY <2>5, <2>6
  <2> QED BY <2>7, Zenon DEF to
<1>7. FactsFollowTheirPerson(V, R, L)
  BY <1>6, Zenon DEF FactsFollowTheirPerson, Shows, Follows
<1> QED BY <1>7 DEF V, R

\* Of any finite set of well-formed records.
LEMMA RecordsAreSound ==
  ASSUME NEW L, Records(L)
  PROVE  IsSound(L)
  BY ClustersAreGreedy, NamesFollow, Zenon DEF IsSound

\* Over any records imported, at every moment the view of every replica's live
\* records is sound.  Its clusters are exactly what the admitted same_as edges
\* connect, no cluster holds both ends of a cut that stands, an edge is refused
\* only when it would, and a name is shown on the one person whose cluster holds
\* it (cluster, names_map).  A function of the records alone, whatever they are.
THEOREM ProjectionStaysSound ==
  ASSUME NEW CONSTANT items, Importable(items), NEW CONSTANT author, NEW CONSTANT moderators
  PROVE  Spec(items, author, moderators) => []ProjectionIsSound
<1>1. Init(items, author, moderators) => EditorInv
  BY InitOK
<1>2. EditorInv /\ [Next]_vars => EditorInv'
  BY NextOK
<1>3. EditorInv => ProjectionIsSound
  <2> SUFFICES ASSUME EditorInv, NEW d \in Devices
               PROVE  IsSound(Live(tree[d]))
    BY DEF ProjectionIsSound
  <2>1. Records(Live(tree[d]))
    BY LiveItems DEF EditorInv, DeviceOK, Items, Records
  <2> QED BY <2>1, RecordsAreSound
<1> QED BY <1>1, <1>2, <1>3, PTL DEF Spec
=============================================================================
