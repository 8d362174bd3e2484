------------------------------- MODULE Lemmas -------------------------------
(***************************************************************************)
(* What several modules of proofs cite: of minima and maxima, of           *)
(* frontiers, and what the operators of the sync client return and         *)
(* preserve.                                                               *)
(***************************************************************************)
EXTENDS DocSync, FiniteSetTheorems, FunctionTheorems, TLAPS

\* A non-empty set of naturals has a least element, and Min is it.
LEMMA MinProperties ==
    ASSUME NEW S \in SUBSET Nat, S # {}
    PROVE  Min(S) \in S /\ \A y \in S : Min(S) <= y
<1>1. PICK n \in S : TRUE
  OBVIOUS
<1> DEFINE I == 0..n
           T == {0..s : s \in {t \in S : t <= n}}
<1>2. IsFiniteSet(I)
  BY FS_Interval
<1>3. IsWellFoundedOn(StrictSubsetOrdering(I), FiniteSubsetsOf(I))
  BY <1>2, FS_StrictSubsetOrderingWellFounded
<1>4. T \subseteq FiniteSubsetsOf(I) /\ T # {}
  <2>1. \A s \in Nat : s <= n => IsFiniteSet(0..s) /\ 0..s \subseteq I
    BY FS_Interval
  <2> QED BY <2>1 DEF FiniteSubsetsOf
<1>5. PICK X \in T : \A Y \in T : ~(<<Y, X>> \in StrictSubsetOrdering(I))
  <2> HIDE DEF I, T
  <2> QED BY <1>3, <1>4, WFMin, Zenon
<1>6. PICK s \in S : s <= n /\ X = 0..s
  OBVIOUS
<1>7. \A t \in S : s <= t
  <2> SUFFICES ASSUME NEW t \in S, t < s PROVE FALSE
    OBVIOUS
  <2>1. 0..t \in T
    BY <1>6
  <2>2. 0..t \subseteq 0..s /\ 0..t # 0..s /\ 0..s \subseteq I
    BY <1>6
  <2>3. <<0..t, X>> \in StrictSubsetOrdering(I)
    BY <2>2, <1>6 DEF StrictSubsetOrdering
  <2> QED BY <2>1, <2>3, <1>5
<1> QED BY <1>7 DEF Min

\* A non-empty finite set of naturals has a greatest element, and Max is it.
LEMMA MaxProperties ==
    ASSUME NEW S \in SUBSET Nat, S # {}, IsFiniteSet(S)
    PROVE  Max(S) \in S /\ \A y \in S : y <= Max(S)
<1> DEFINE Above(s) == {z \in S : z > s}
           T == {Above(s) : s \in S}
<1>1. IsWellFoundedOn(StrictSubsetOrdering(S), FiniteSubsetsOf(S))
  BY FS_StrictSubsetOrderingWellFounded
<1>2. T \subseteq FiniteSubsetsOf(S) /\ T # {}
  <2>1. ASSUME NEW s \in S PROVE Above(s) \subseteq S /\ IsFiniteSet(Above(s))
    <3>1. Above(s) \in SUBSET S
      OBVIOUS
    <3> QED BY <3>1, FS_Subset
  <2>2. \A s \in S : Above(s) \in FiniteSubsetsOf(S)
    BY <2>1 DEF FiniteSubsetsOf
  <2> HIDE DEF Above
  <2> QED BY <2>2
<1>3. PICK X \in T : \A Y \in T : ~(<<Y, X>> \in StrictSubsetOrdering(S))
  <2> HIDE DEF T
  <2> QED BY <1>1, <1>2, WFMin, Zenon
<1>4. PICK s \in S : X = Above(s)
  OBVIOUS
<1>5. \A y \in S : y <= s
  <2> SUFFICES ASSUME NEW y \in S, y > s PROVE FALSE
    OBVIOUS
  <2>0. y \in Nat /\ s \in Nat /\ \A z \in S : z \in Nat
    OBVIOUS
  <2>1. Above(y) \subseteq Above(s) /\ y \in Above(s) /\ y \notin Above(y)
    <3>1. y \in Above(s)
      BY <2>0
    <3>2. y \notin Above(y)
      BY <2>0
    <3>3. \A z \in S : z > y => z > s
      BY <2>0
    <3> QED BY <3>1, <3>2, <3>3
  <2>2. <<Above(y), X>> \in StrictSubsetOrdering(S)
    BY <2>1, <1>4 DEF StrictSubsetOrdering
  <2> QED BY <2>2, <1>3
<1>6. \A y \in S : s >= y
  BY <1>5
<1> QED BY <1>5, <1>6 DEF Max

\* The values of a function on a finite set are finitely many.
LEMMA ImageIsFinite ==
    ASSUME NEW S, IsFiniteSet(S), NEW T, NEW f \in [S -> T]
    PROVE  IsFiniteSet({f[x] : x \in S})
<1> DEFINE V == {f[x] : x \in S}
<1>1. f \in Surjection(S, V)
  BY Fun_IsSurj
<1> QED BY <1>1, FS_Surjection

\* The set of all frontiers.
Frontier == UNION {[S -> Nat] : S \in SUBSET Replica}

\* The set of frontiers, and the predicate the modules use.
LEMMA FrontierIs == \A f : f \in Frontier <=> IsFrontier(f)
BY DEF Frontier, IsFrontier

\* A frontier reads a natural number everywhere.
LEMMA AtIsNat ==
    ASSUME NEW f, IsFrontier(f), NEW r
    PROVE  At(f, r) \in Nat
BY DEF IsFrontier, At

\* LeqFrontier is the order of the readings.
LEMMA LeqFrontierAt ==
    ASSUME NEW f, NEW g, IsFrontier(f), IsFrontier(g), LeqFrontier(f, g), NEW r
    PROVE  At(f, r) <= At(g, r)
BY AtIsNat DEF LeqFrontier, At, IsFrontier

\* A frontier reaches itself.
LEMMA LeqFrontierReflexive ==
    ASSUME NEW f, IsFrontier(f)
    PROVE  LeqFrontier(f, f)
BY DEF LeqFrontier, At, IsFrontier

\* What reaches a frontier reaches what it reaches.
LEMMA LeqFrontierTransitive ==
    ASSUME NEW f, NEW g, NEW h, IsFrontier(f), IsFrontier(g), IsFrontier(h),
           LeqFrontier(f, g), LeqFrontier(g, h)
    PROVE  LeqFrontier(f, h)
<1> SUFFICES ASSUME NEW r \in DOMAIN f PROVE f[r] <= At(h, r)
  BY DEF LeqFrontier
<1>1. f[r] = At(f, r)
  BY DEF At
<1>2. At(f, r) <= At(g, r) /\ At(g, r) <= At(h, r)
  BY LeqFrontierAt
<1>3. At(f, r) \in Nat /\ At(g, r) \in Nat /\ At(h, r) \in Nat
  BY AtIsNat
<1> QED BY <1>1, <1>2, <1>3

\* A dot below a frontier is below every higher one.
LEMMA IsBelowMonotone ==
    ASSUME NEW x \in Dot, NEW f, NEW g, IsFrontier(f), IsFrontier(g),
           IsBelow(x, f), At(f, x[1]) <= At(g, x[1])
    PROVE  IsBelow(x, g)
<1>1. At(f, x[1]) \in Nat /\ At(g, x[1]) \in Nat
  BY AtIsNat
<1>2. x[2] \in Nat
  BY DEF Dot
<1> QED BY <1>1, <1>2 DEF IsBelow

\* Setting one coordinate keeps a frontier a frontier.
LEMMA WithCounterType ==
    ASSUME NEW f, IsFrontier(f), NEW r \in Replica, NEW n \in Nat
    PROVE  IsFrontier(WithCounter(f, r, n))
BY DEF IsFrontier, WithCounter


SnapshotSet == [id : Nat, covered : Frontier, content : SUBSET Dot]
StoreSet == [log : SUBSET Dot, gone : SUBSET Dot, head : Frontier, snap : SnapshotSet]
ClientSet == [next : Nat, frontier : Frontier, held : SUBSET Dot, stalled : SUBSET Dot,
              dropped : SUBSET Dot, engine : SUBSET Dot, baseline : Nat, rejected : Nat]

\* Snapshots as a set of records.
LEMMA SnapshotIs == \A s : s \in SnapshotSet <=> IsSnapshot(s)
BY FrontierIs DEF SnapshotSet, IsSnapshot

\* Stores as a set of records.
LEMMA StoreIs == \A st : st \in StoreSet <=> IsStore(st)
BY FrontierIs, SnapshotIs DEF StoreSet, IsStore

\* Clients as a set of records.
LEMMA ClientIs == \A cl : cl \in ClientSet <=> IsClient(cl)
BY FrontierIs DEF ClientSet, IsClient

\* The empty frontier reads 0 everywhere.
LEMMA EmptyIsFrontier == IsFrontier(EmptyFrontier) /\ \A r : At(EmptyFrontier, r) = 0
BY DEF EmptyFrontier, IsFrontier, At

\* A fresh client and an empty store have their types.
LEMMA InitialTypes == IsClient(NewClient) /\ IsStore(EmptyStore)
BY EmptyIsFrontier, FrontierIs, ClientIs, StoreIs, SnapshotIs
   DEF NewClient, EmptyStore, NoSnapshot, ClientSet, StoreSet, SnapshotSet

-----------------------------------------------------------------------------
(* The scan.                                                               *)

\* The scan moves up, at most to the head, over objects that are there.
LEMMA StopBounds ==
    ASSUME NEW cl, NEW st, IsClient(cl), IsStore(st), NEW r \in Replica
    PROVE  /\ Stop(cl, st, r) \in Nat
           /\ At(cl.frontier, r) <= Stop(cl, st, r)
           /\ Stop(cl, st, r) = At(cl.frontier, r) \/ Stop(cl, st, r) <= At(st.head, r)
           /\ \A n \in Nat : At(cl.frontier, r) <= n /\ n < Stop(cl, st, r) => <<r, n>> \in st.log
<1> DEFINE f == At(cl.frontier, r)
           h == At(st.head, r)
           S == {n \in f..h : n = h \/ <<r, n>> \notin st.log}
<1>1. f \in Nat /\ h \in Nat
  BY AtIsNat DEF IsClient, IsStore
<1>2. CASE f < h
  <2>1. S \in SUBSET Nat /\ h \in S
    BY <1>1, <1>2
  <2>2. Stop(cl, st, r) = Min(S)
    BY <1>2 DEF Stop
  <2>3. Min(S) \in S /\ \A y \in S : Min(S) <= y
    <3> HIDE DEF S
    <3> QED BY <2>1, MinProperties
  <2> HIDE DEF f, h
  <2>4. \A n \in Nat : f <= n /\ n < Min(S) => <<r, n>> \in st.log
    BY <1>1, <2>1, <2>3
  <2> QED BY <1>1, <2>1, <2>2, <2>3, <2>4 DEF f, h
<1>3. CASE ~(f < h)
  BY <1>1, <1>3 DEF Stop
<1> QED BY <1>2, <1>3

\* A scan's frontier is above the old one, and moves where a head is known.
LEMMA ScannedBounds ==
    ASSUME NEW cl, NEW st, IsClient(cl), IsStore(st)
    PROVE  /\ IsFrontier(Scanned(cl, st))
           /\ \A r \in Replica : At(cl.frontier, r) <= At(Scanned(cl, st), r)
           /\ \A r \in DOMAIN st.head : At(Scanned(cl, st), r) = Stop(cl, st, r)
           /\ \A r \in Replica \ DOMAIN st.head : At(Scanned(cl, st), r) = At(cl.frontier, r)
<1>1. IsFrontier(cl.frontier) /\ IsFrontier(st.head)
  BY DEF IsClient, IsStore
<1> QED BY <1>1, StopBounds DEF Scanned, IsFrontier, At

\* Every dot the scan passes is judged.
LEMMA PassedIsJudged ==
    ASSUME NEW cl, NEW st, IsClient(cl), IsStore(st), NEW x \in Dot,
           IsBelow(x, Scanned(cl, st)), ~IsBelow(x, cl.frontier)
    PROVE  x \in Gap(cl, st)
<1> DEFINE r == x[1]
<1>1. r \in Replica /\ x[2] \in Nat /\ x = <<r, x[2]>>
  BY DEF Dot
<1>2. r \in DOMAIN st.head
  BY <1>1, ScannedBounds DEF IsBelow
<1>3. x[2] < Stop(cl, st, r) /\ At(cl.frontier, r) <= x[2]
  BY <1>1, <1>2, ScannedBounds, AtIsNat DEF IsBelow, IsClient
<1>4. x \in st.log
  BY <1>1, <1>3, StopBounds
<1> QED BY <1>2, <1>3, <1>4 DEF Gap

\* What a scan reads is there, and between the old frontier and the new.
LEMMA GapBounds ==
    ASSUME NEW cl, NEW st, IsClient(cl), IsStore(st), NEW x \in Gap(cl, st)
    PROVE  x \in Dot /\ x \in st.log /\ ~IsBelow(x, cl.frontier) /\ IsBelow(x, Scanned(cl, st))
<1>1. x \in Dot /\ x[1] \in Replica /\ x[2] \in Nat
  BY DEF Gap, IsStore, Dot
<1> QED BY <1>1, ScannedBounds, AtIsNat DEF Gap, IsBelow, IsClient

-----------------------------------------------------------------------------
(* The subsumed frontier.                                                  *)

\* The subsumed frontier is below the pull frontier and below every blocker.
LEMMA SubsumedBounds ==
    ASSUME NEW cl, IsClient(cl)
    PROVE  /\ IsFrontier(SubsumedFrontier(cl))
           /\ DOMAIN SubsumedFrontier(cl) = DOMAIN cl.frontier
           /\ \A r : At(SubsumedFrontier(cl), r) <= At(cl.frontier, r)
           /\ \A x \in cl.held \cup cl.stalled : ~IsBelow(x, SubsumedFrontier(cl))
<1> DEFINE S(r) == {cl.frontier[r]} \cup {x[2] : x \in {y \in cl.held \cup cl.stalled : y[1] = r}}
<1>1. IsFrontier(cl.frontier) /\ cl.held \cup cl.stalled \subseteq Dot
  BY DEF IsClient
<1>2. \A r \in DOMAIN cl.frontier : S(r) \in SUBSET Nat /\ S(r) # {}
  BY <1>1 DEF IsFrontier, Dot
<1>3. SubsumedFrontier(cl) = [r \in DOMAIN cl.frontier |-> Min(S(r))]
  BY DEF SubsumedFrontier
<1>4. \A r \in DOMAIN cl.frontier : Min(S(r)) \in S(r) /\ \A y \in S(r) : Min(S(r)) <= y
  <2> HIDE DEF S
  <2> QED BY <1>2, MinProperties
<1>5. \A r \in DOMAIN cl.frontier : Min(S(r)) \in Nat /\ Min(S(r)) <= cl.frontier[r]
  BY <1>2, <1>4
<1>6. ASSUME NEW x \in cl.held \cup cl.stalled
      PROVE  ~IsBelow(x, SubsumedFrontier(cl))
  <2>1. CASE x[1] \in DOMAIN cl.frontier
    <3>1. x[2] \in S(x[1])
      OBVIOUS
    <3>2. Min(S(x[1])) <= x[2]
      BY <2>1, <3>1, <1>4
    <3> HIDE DEF S
    <3> QED BY <1>1, <1>3, <1>5, <2>1, <3>2 DEF IsBelow, At, Dot
  <2>2. CASE x[1] \notin DOMAIN cl.frontier
    BY <1>1, <1>3, <2>2 DEF IsBelow, At, Dot
  <2> QED BY <2>1, <2>2
<1> HIDE DEF S
<1> QED BY <1>1, <1>3, <1>5, <1>6 DEF IsFrontier, At

-----------------------------------------------------------------------------
(* Clients stay well formed, and their blockers clamped.                   *)

\* Held, stalled and dropped dots are below the frontier, each in one bucket.
Clamped(cl) ==
    /\ \A x \in cl.held \cup cl.stalled \cup cl.dropped : IsBelow(x, cl.frontier)
    /\ cl.held \cap cl.stalled = {}
    /\ cl.dropped \cap (cl.held \cup cl.stalled) = {}

\* A dot below the frontier stays below it through a scan.
LEMMA BelowScanned ==
    ASSUME NEW cl, NEW st, IsClient(cl), IsStore(st), NEW x \in Dot, IsBelow(x, cl.frontier)
    PROVE  IsBelow(x, Scanned(cl, st))
BY ScannedBounds, IsBelowMonotone DEF IsClient, Dot

\* A verified pull keeps the client's type, and says what it changes.
LEMMA PullVerifiedTypes ==
    ASSUME NEW cl, NEW st, IsClient(cl), IsStore(st), NEW covers,
           NEW d \in [ToJudge(cl, st) -> Disposition]
    PROVE  LET p == PullVerified(cl, st, d, covers) IN
           /\ IsClient(p)
           /\ p.next = cl.next /\ p.baseline = cl.baseline /\ p.rejected = cl.rejected
           /\ p.frontier = Scanned(cl, st)
           /\ p.held = Sorted(d, "hold")
           /\ p.stalled = cl.stalled \cup Sorted(d, "stall") \cup (cl.held \ st.log)
           /\ p.dropped = cl.dropped \cup Sorted(d, "drop")
           /\ p.engine = cl.engine \cup (Sorted(d, "absorb") \ covers)
<1>1. cl \in ClientSet
  BY ClientIs
<1>2. Scanned(cl, st) \in Frontier
  BY ScannedBounds, FrontierIs
<1>3. ToJudge(cl, st) \subseteq Dot
  BY <1>1, GapBounds DEF ToJudge, ClientSet
<1>4. \A k : Sorted(d, k) \subseteq ToJudge(cl, st)
  BY DEF Sorted
<1>5. PullVerified(cl, st, d, covers) \in ClientSet
  BY <1>1, <1>2, <1>3, <1>4 DEF PullVerified, ClientSet
<1> QED BY <1>1, <1>5, ClientIs DEF PullVerified, ClientSet

\* A verified pull puts every dot it judged in one bucket, below the frontier.
LEMMA PullVerifiedClamped ==
    ASSUME NEW cl, NEW st, IsClient(cl), IsStore(st), Clamped(cl), NEW covers,
           NEW d \in [ToJudge(cl, st) -> Disposition]
    PROVE  Clamped(PullVerified(cl, st, d, covers))
<1> DEFINE p == PullVerified(cl, st, d, covers)
<1>1. cl.held \cup cl.stalled \cup cl.dropped \subseteq Dot
  BY DEF IsClient
<1>2. \A x \in ToJudge(cl, st) : /\ IsBelow(x, Scanned(cl, st))
                                 /\ x \notin cl.stalled \cup cl.dropped
  BY <1>1, GapBounds, BelowScanned DEF ToJudge, Clamped
<1>3. \A x \in cl.held \cup cl.stalled \cup cl.dropped : IsBelow(x, Scanned(cl, st))
  BY <1>1, BelowScanned DEF Clamped
<1>4. \A x \in cl.held \ st.log : x \notin ToJudge(cl, st)
  BY GapBounds DEF ToJudge
<1>5. \A k : Sorted(d, k) \subseteq ToJudge(cl, st)
  BY DEF Sorted
<1>6. /\ Sorted(d, "hold") \cap Sorted(d, "stall") = {}
      /\ Sorted(d, "hold") \cap Sorted(d, "drop") = {}
      /\ Sorted(d, "stall") \cap Sorted(d, "drop") = {}
  BY DEF Sorted
<1>7. /\ p.frontier = Scanned(cl, st)
      /\ p.held = Sorted(d, "hold")
      /\ p.stalled = cl.stalled \cup Sorted(d, "stall") \cup (cl.held \ st.log)
      /\ p.dropped = cl.dropped \cup Sorted(d, "drop")
  BY PullVerifiedTypes
<1> HIDE DEF p
<1>8. \A x \in p.held \cup p.stalled \cup p.dropped : IsBelow(x, p.frontier)
  BY <1>2, <1>3, <1>5, <1>7
<1>9. p.held \cap p.stalled = {} /\ p.dropped \cap (p.held \cup p.stalled) = {}
  BY <1>2, <1>4, <1>5, <1>6, <1>7 DEF Clamped
<1> QED BY <1>8, <1>9 DEF Clamped, p

-----------------------------------------------------------------------------
(* Adoption.                                                               *)

\* Adoption moves the frontier up, over absent objects the snapshot covers.
LEMMA AdvancedBounds ==
    ASSUME NEW cl, NEW st, IsClient(cl), IsStore(st), NEW r \in DOMAIN st.snap.covered
    PROVE  /\ Advanced(cl, st, r) \in Nat
           /\ At(cl.frontier, r) <= Advanced(cl, st, r)
           /\ \/ Advanced(cl, st, r) = At(cl.frontier, r)
              \/ /\ Advanced(cl, st, r) <= At(st.head, r)
                 /\ Advanced(cl, st, r) <= At(st.snap.covered, r)
           /\ \A n \in Nat : At(cl.frontier, r) <= n /\ n < Advanced(cl, st, r) =>
                                 <<r, n>> \notin st.log
<1> DEFINE f == At(cl.frontier, r)
           cap == ClaimCap(st, r)
           S == {n \in f..cap : n = cap \/ <<r, n>> \in st.log}
<1>1. f \in Nat /\ At(st.head, r) \in Nat /\ At(st.snap.covered, r) \in Nat
  BY AtIsNat DEF IsClient, IsStore, IsSnapshot
<1>2. cap \in Nat /\ cap <= At(st.head, r) /\ cap <= At(st.snap.covered, r)
  BY <1>1 DEF ClaimCap, At
<1>3. CASE f < cap
  <2>1. S \in SUBSET Nat /\ cap \in S
    BY <1>1, <1>2, <1>3
  <2>2. Advanced(cl, st, r) = Min(S)
    BY <1>3 DEF Advanced
  <2>3. Min(S) \in S /\ \A y \in S : Min(S) <= y
    <3> HIDE DEF S
    <3> QED BY <2>1, MinProperties
  <2> HIDE DEF f, cap
  <2>4. \A n \in Nat : f <= n /\ n < Min(S) => <<r, n>> \notin st.log
    BY <1>1, <1>2, <2>1, <2>3
  <2>5. Min(S) \in Nat /\ f <= Min(S) /\ Min(S) <= cap
    BY <1>1, <1>2, <2>1, <2>3
  <2>6. Min(S) <= At(st.head, r) /\ Min(S) <= At(st.snap.covered, r)
    BY <1>1, <1>2, <2>5
  <2> QED BY <2>2, <2>4, <2>5, <2>6 DEF f
<1>4. CASE ~(f < cap)
  BY <1>1, <1>4 DEF Advanced
<1> QED BY <1>3, <1>4

\* Adoption keeps the client's type, and says what it changes.
LEMMA MergeTypes ==
    ASSUME NEW cl, NEW st, IsClient(cl), IsStore(st)
    PROVE  LET m == MergeSnapshot(cl, st)
               dom == DOMAIN st.snap.covered IN
           /\ IsClient(m)
           /\ m.next = cl.next /\ m.baseline = cl.baseline /\ m.rejected = cl.rejected
           /\ m.engine = cl.engine \cup st.snap.content
           /\ m.held = {x \in cl.held : x[1] \in dom => x[2] >= Advanced(cl, st, x[1])}
           /\ m.stalled = {x \in cl.stalled : x[1] \in dom => x[2] >= Advanced(cl, st, x[1])}
           /\ m.dropped = {x \in cl.dropped : x[1] \in dom => x[2] >= ClaimCap(st, x[1])}
           /\ \A r \in Replica : At(m.frontier, r) = IF r \in dom THEN Advanced(cl, st, r)
                                                    ELSE At(cl.frontier, r)
<1> DEFINE m == MergeSnapshot(cl, st)
           dom == DOMAIN st.snap.covered
           fr == [r \in DOMAIN cl.frontier \cup
                          {q \in dom : Advanced(cl, st, q) > At(cl.frontier, q)} |->
                      IF r \in dom THEN Advanced(cl, st, r) ELSE cl.frontier[r]]
<1>1. cl \in ClientSet /\ st.snap.content \subseteq Dot /\ IsFrontier(st.snap.covered)
  BY ClientIs DEF IsStore, IsSnapshot
<1>2. \A r \in dom : Advanced(cl, st, r) \in Nat
  BY AdvancedBounds
<1>3. IsFrontier(fr)
  BY <1>1, <1>2, FrontierIs DEF IsFrontier, ClientSet
<1>4. \A r \in Replica : At(fr, r) = IF r \in dom THEN Advanced(cl, st, r)
                                    ELSE At(cl.frontier, r)
  <2> SUFFICES ASSUME NEW r \in Replica, r \in dom, r \notin DOMAIN fr
               PROVE  Advanced(cl, st, r) = 0
    BY DEF At
  <2> QED BY AdvancedBounds, AtIsNat DEF At
<1>5. m = [cl EXCEPT !.engine = @ \cup st.snap.content,
                     !.frontier = fr,
                     !.held = {x \in @ : x[1] \in dom => x[2] >= Advanced(cl, st, x[1])},
                     !.stalled = {x \in @ : x[1] \in dom => x[2] >= Advanced(cl, st, x[1])},
                     !.dropped = {x \in @ : x[1] \in dom => x[2] >= ClaimCap(st, x[1])}]
  BY DEF MergeSnapshot, Unpurged
<1>6. fr \in Frontier
  BY <1>3, FrontierIs
<1> HIDE DEF fr, m, dom
<1>7. m \in ClientSet
  BY <1>1, <1>5, <1>6 DEF ClientSet
<1> USE DEF dom
<1>8. /\ m.next = cl.next /\ m.baseline = cl.baseline /\ m.rejected = cl.rejected
      /\ m.engine = cl.engine \cup st.snap.content /\ m.frontier = fr
      /\ m.held = {x \in cl.held : x[1] \in dom => x[2] >= Advanced(cl, st, x[1])}
      /\ m.stalled = {x \in cl.stalled : x[1] \in dom => x[2] >= Advanced(cl, st, x[1])}
      /\ m.dropped = {x \in cl.dropped : x[1] \in dom => x[2] >= ClaimCap(st, x[1])}
  BY <1>1, <1>5 DEF ClientSet
<1> QED BY <1>4, <1>7, <1>8, ClientIs DEF m

\* Adoption keeps the remaining blockers below the frontier.
LEMMA MergeClamped ==
    ASSUME NEW cl, NEW st, IsClient(cl), IsStore(st), Clamped(cl)
    PROVE  Clamped(MergeSnapshot(cl, st))
<1> DEFINE m == MergeSnapshot(cl, st)
<1>1. m.held \subseteq cl.held /\ m.stalled \subseteq cl.stalled /\ m.dropped \subseteq cl.dropped
  BY MergeTypes
<1>2. \A r \in Replica : At(cl.frontier, r) <= At(m.frontier, r)
  BY MergeTypes, AdvancedBounds, AtIsNat DEF IsClient
<1>3. cl.held \cup cl.stalled \cup cl.dropped \subseteq Dot /\ IsFrontier(cl.frontier)
      /\ IsFrontier(m.frontier)
  BY MergeTypes DEF IsClient
<1> HIDE DEF m
<1>4. \A x \in cl.held \cup cl.stalled \cup cl.dropped : IsBelow(x, m.frontier)
  BY <1>2, <1>3, IsBelowMonotone DEF Clamped, Dot
<1> QED BY <1>1, <1>4 DEF Clamped, m

\* What adoption skips is absent, and below the coverage the snapshot claims.
LEMMA SkippedIsCovered ==
    ASSUME NEW cl, NEW st, IsClient(cl), IsStore(st), NEW x \in Dot,
           IsBelow(x, MergeSnapshot(cl, st).frontier), ~IsBelow(x, cl.frontier)
    PROVE  x \notin st.log /\ IsBelow(x, st.snap.covered)
<1> DEFINE r == x[1]
<1>1. r \in Replica /\ x[2] \in Nat /\ x = <<r, x[2]>>
  BY DEF Dot
<1>2. r \in DOMAIN st.snap.covered
  BY <1>1, MergeTypes DEF IsBelow
<1>3. x[2] < Advanced(cl, st, r) /\ At(cl.frontier, r) <= x[2]
  BY <1>1, <1>2, MergeTypes, AtIsNat DEF IsBelow, IsClient
<1>4. x \notin st.log
  BY <1>1, <1>2, <1>3, AdvancedBounds
<1>5. At(cl.frontier, r) \in Nat /\ At(st.snap.covered, r) \in Nat
  BY AtIsNat DEF IsClient, IsStore, IsSnapshot
<1>6. x[2] < At(st.snap.covered, r)
  BY <1>1, <1>2, <1>3, <1>5, AdvancedBounds
<1> QED BY <1>4, <1>6 DEF IsBelow
=============================================================================
