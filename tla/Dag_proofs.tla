----------------------------- MODULE Dag_proofs -----------------------------
(***************************************************************************)
(* Proofs about the DAG keyring.  First one tree between its devices and   *)
(* the server, where only which operations are where matters, not what     *)
(* they resolve to.  Then the resolution: for any history, what a view     *)
(* voids, what its walk ends with, and so what stands of the owner's       *)
(* removals and demotions, and to whom the epochs are sealed.              *)
(***************************************************************************)
EXTENDS DagEngine, DagVault, DagTree, FiniteSetTheorems, WellFoundedInduction, TLAPS

-----------------------------------------------------------------------------
(* One tree.                                                               *)

Id == Prologue \cup TreeIds
Stage == {"idle", "loaded", "saved", "read", "floor", "publish"}
Doing == [at : Stage, base : SUBSET Id, floor : SUBSET Id]

TreeTypeOK ==
  /\ served \subseteq Id
  /\ head \in [Devices -> SUBSET Id] /\ floor \in [Devices -> SUBSET Id]
  /\ call \in [Devices -> Doing] /\ tick \in [Devices -> Doing]
  /\ minted \in [Devices -> SUBSET Id]

\* What a device may know of: the server's operations and its own.
Near(s, m, d) == s \cup m[d]

\* What a device stores and what its call and its tick remember comes from the
\* server or was minted on it.
NearOK(s, m, d) ==
  /\ head[d] \subseteq Near(s, m, d) /\ floor[d] \subseteq Near(s, m, d)
  /\ call[d].base \subseteq Near(s, m, d)
  /\ tick[d].base \subseteq Near(s, m, d) /\ tick[d].floor \subseteq Near(s, m, d)

ReachInv == TreeTypeOK /\ \A d \in Devices : NearOK(served, minted, d)

\* Tips are of the view.
LEMMA TipsWithin == ASSUME NEW V PROVE Tips(V) \subseteq V
BY DEF Tips

\* A call or a tick at a stage is of the type.
LEMMA AtIs ==
  ASSUME NEW stage \in Stage, NEW B \in SUBSET Id
  PROVE  At(stage, B) \in Doing /\ At(stage, B).base = B /\ At(stage, B).floor = {}
BY DEF At, Doing

\* One that ends, or goes on to publish, remembers nothing.
LEMMA Moments ==
  /\ Idle \in Doing /\ Idle.base = {} /\ Idle.floor = {}
  /\ \A h : /\ ToPublish(h) \in Doing
           /\ ToPublish(h).base = {} /\ ToPublish(h).floor = {}
BY AtIs DEF Idle, Publishing, ToPublish, Stage

LEMMA ReachInit == ASSUME TreeInit PROVE ReachInv
<1> USE DEF TreeInit
<1>1. Tips(Prologue) \subseteq Prologue
  BY TipsWithin
<1>2. TreeTypeOK
  BY <1>1, Moments DEF TreeTypeOK, Id
<1>3. ASSUME NEW d \in Devices PROVE NearOK(served, minted, d)
  BY <1>1, Moments DEF NearOK, Near
<1> QED BY <1>2, <1>3 DEF ReachInv

\* A device's bookkeeping moves; the server and what was minted only grow.
LEMMA DeviceMoves ==
  ASSUME ReachInv, NEW d \in Devices, TreeTypeOK', served \subseteq served',
         \A e \in Devices : minted[e] \subseteq minted'[e],
         \A e \in Devices \ {d} : /\ head'[e] = head[e] /\ floor'[e] = floor[e]
                                  /\ call'[e] = call[e] /\ tick'[e] = tick[e],
         NearOK(served, minted, d)'
  PROVE  ReachInv'
<1>1. ASSUME NEW e \in Devices \ {d} PROVE NearOK(served, minted, e)'
  BY <1>1 DEF ReachInv, NearOK, Near
<1> QED BY <1>1 DEF ReachInv

LEMMA CallKeeps ==
  ASSUME ReachInv, NEW d \in Devices, CallStep(d)
  PROVE  ReachInv' /\ served \subseteq served'
<1> USE DEF ReachInv
<1>1. Idle \in Doing /\ ToPublish(head[d]) \in Doing
  BY Moments
<1>2. Idle.base = {} /\ Idle.floor = {} /\ ToPublish(head[d]).base = {}
  BY Moments
<1>3. CASE CallLoad(d)
  <2>1. call' = [call EXCEPT ![d] = At("loaded", head[d])]
    BY <1>3 DEF CallLoad
  <2>2. At("loaded", head[d]) \in Doing /\ At("loaded", head[d]).base = head[d]
    BY AtIs DEF Stage, TreeTypeOK
  <2>3. TreeTypeOK'
    BY <1>3, <2>1, <2>2 DEF CallLoad, TreeTypeOK
  <2>4. NearOK(served, minted, d)'
    BY <1>3, <2>1, <2>2 DEF CallLoad, NearOK, Near, TreeTypeOK
  <2> QED BY <1>3, <2>1, <2>3, <2>4, DeviceMoves DEF CallLoad, TreeTypeOK
<1>4. ASSUME NEW ask \in Asks, CallMint(d, ask) PROVE ReachInv' /\ served \subseteq served'
  <2>1. PICK id \in TreeIds \ DOMAIN ops :
          /\ head' = [head EXCEPT ![d] = call[d].base \cup {id}]
          /\ call' = [call EXCEPT ![d] = At("saved", call[d].base \cup {id})]
          /\ minted' = [minted EXCEPT ![d] = @ \cup {id}]
    BY <1>4 DEF CallMint
  <2>2. UNCHANGED <<served, acl, floor, tick>>
    BY <1>4 DEF CallMint
  <2>3. call[d].base \cup {id} \in SUBSET Id
    BY DEF TreeTypeOK, Doing, Id
  <2>4. /\ At("saved", call[d].base \cup {id}) \in Doing
        /\ At("saved", call[d].base \cup {id}).base = call[d].base \cup {id}
    BY <2>3, AtIs DEF Stage
  <2>5. TreeTypeOK'
    BY <2>1, <2>2, <2>3, <2>4 DEF TreeTypeOK, Id
  <2>6. NearOK(served, minted, d)'
    BY <2>1, <2>2, <2>4 DEF NearOK, Near, TreeTypeOK
  <2> QED BY <2>1, <2>2, <2>5, <2>6, DeviceMoves DEF TreeTypeOK
<1>5. CASE CallFloor(d)
  <2>1. /\ floor' = [floor EXCEPT ![d] = Tips(call[d].base)]
        /\ call' = [call EXCEPT ![d] = ToPublish(head[d])]
        /\ UNCHANGED <<served, head, tick, minted>>
    BY <1>5 DEF CallFloor
  <2>2. Tips(call[d].base) \subseteq call[d].base
    BY TipsWithin
  <2>3. TreeTypeOK'
    BY <2>1, <2>2, <1>1 DEF TreeTypeOK, Doing
  <2>4. NearOK(served, minted, d)'
    BY <2>1, <2>2, <1>2 DEF NearOK, Near, TreeTypeOK
  <2> QED BY <2>1, <2>3, <2>4, DeviceMoves DEF TreeTypeOK
<1>6. CASE CallPublish(d)
  <2>1. /\ served' = served \cup head[d] /\ call' = [call EXCEPT ![d] = Idle]
        /\ UNCHANGED <<head, floor, tick, minted>>
    BY <1>6 DEF CallPublish, Publish, Store
  <2>2. TreeTypeOK'
    BY <2>1, <1>1 DEF TreeTypeOK
  <2>3. NearOK(served, minted, d)'
    BY <2>1, <1>2 DEF NearOK, Near, TreeTypeOK
  <2> QED BY <2>1, <2>2, <2>3, DeviceMoves DEF TreeTypeOK
<1>7. CASE CallFails(d)
  <2>1. call' = [call EXCEPT ![d] = Idle] /\ UNCHANGED <<served, head, floor, tick, minted>>
    BY <1>7 DEF CallFails
  <2>2. TreeTypeOK'
    BY <2>1, <1>1 DEF TreeTypeOK
  <2>3. NearOK(served, minted, d)'
    BY <2>1, <1>2 DEF NearOK, Near, TreeTypeOK
  <2> QED BY <2>1, <2>2, <2>3, DeviceMoves DEF TreeTypeOK
<1> QED BY <1>3, <1>4, <1>5, <1>6, <1>7 DEF CallStep

LEMMA TickKeeps ==
  ASSUME ReachInv, NEW d \in Devices, TickStep(d)
  PROVE  ReachInv' /\ served \subseteq served'
<1> USE DEF ReachInv
<1>1. Idle \in Doing /\ ToPublish(head[d]) \in Doing
  BY Moments
<1>2. /\ Idle.base = {} /\ Idle.floor = {}
      /\ ToPublish(head[d]).base = {} /\ ToPublish(head[d]).floor = {}
  BY Moments
<1>3. CASE TickLoad(d)
  <2> DEFINE read == [at |-> "read", base |-> head[d], floor |-> floor[d]]
  <2>1. tick' = [tick EXCEPT ![d] = read] /\ UNCHANGED <<served, head, floor, call, minted>>
    BY <1>3 DEF TickLoad
  <2>2. read \in Doing
    BY DEF TreeTypeOK, Doing, Stage
  <2>3. TreeTypeOK'
    BY <2>1, <2>2 DEF TreeTypeOK
  <2>4. NearOK(served, minted, d)'
    BY <2>1 DEF NearOK, Near, TreeTypeOK
  <2> QED BY <2>1, <2>3, <2>4, DeviceMoves DEF TreeTypeOK
<1>4. CASE TickCovered(d)
  <2>1. /\ tick' = [tick EXCEPT ![d] = ToPublish(head[d])]
        /\ UNCHANGED <<served, head, floor, call, minted>>
    BY <1>4 DEF TickCovered
  <2>2. TreeTypeOK'
    BY <2>1, <1>1 DEF TreeTypeOK
  <2>3. NearOK(served, minted, d)'
    BY <2>1, <1>2 DEF NearOK, Near, TreeTypeOK
  <2> QED BY <2>1, <2>2, <2>3, DeviceMoves DEF TreeTypeOK
<1>5. CASE TickAdopt(d)
  <2>1. /\ head' = [head EXCEPT ![d] = Merged(d)]
        /\ tick' = [tick EXCEPT ![d] = At("floor", Merged(d))]
        /\ UNCHANGED <<served, floor, call, minted>>
    BY <1>5 DEF TickAdopt
  <2>2. Merged(d) \in SUBSET Id /\ Merged(d) \subseteq Near(served, minted, d)
    BY DEF Merged, NearOK, Near, TreeTypeOK, Doing
  <2>3. /\ At("floor", Merged(d)) \in Doing
        /\ At("floor", Merged(d)).base = Merged(d) /\ At("floor", Merged(d)).floor = {}
    BY <2>2, AtIs DEF Stage
  <2>4. TreeTypeOK'
    BY <2>1, <2>2, <2>3 DEF TreeTypeOK
  <2>5. NearOK(served, minted, d)'
    BY <2>1, <2>2, <2>3 DEF NearOK, Near, TreeTypeOK
  <2> QED BY <2>1, <2>4, <2>5, DeviceMoves DEF TreeTypeOK
<1>6. CASE TickFloor(d)
  <2>1. /\ floor' = [floor EXCEPT ![d] = Tips(tick[d].base)]
        /\ tick' = [tick EXCEPT ![d] = ToPublish(head[d])]
        /\ UNCHANGED <<served, head, call, minted>>
    BY <1>6 DEF TickFloor
  <2>2. Tips(tick[d].base) \subseteq tick[d].base
    BY TipsWithin
  <2>3. TreeTypeOK'
    BY <2>1, <2>2, <1>1 DEF TreeTypeOK, Doing
  <2>4. NearOK(served, minted, d)'
    BY <2>1, <2>2, <1>2 DEF NearOK, Near, TreeTypeOK
  <2> QED BY <2>1, <2>3, <2>4, DeviceMoves DEF TreeTypeOK
<1>7. CASE TickPublish(d)
  <2>1. /\ served' = served \cup head[d] /\ tick' = [tick EXCEPT ![d] = Idle]
        /\ UNCHANGED <<head, floor, call, minted>>
    BY <1>7 DEF TickPublish, Publish, Store
  <2>2. TreeTypeOK'
    BY <2>1, <1>1 DEF TreeTypeOK
  <2>3. NearOK(served, minted, d)'
    BY <2>1, <1>2 DEF NearOK, Near, TreeTypeOK
  <2> QED BY <2>1, <2>2, <2>3, DeviceMoves DEF TreeTypeOK
<1>8. CASE TickFails(d)
  <2>1. tick' = [tick EXCEPT ![d] = Idle] /\ UNCHANGED <<served, head, floor, call, minted>>
    BY <1>8 DEF TickFails
  <2>2. TreeTypeOK'
    BY <2>1, <1>1 DEF TreeTypeOK
  <2>3. NearOK(served, minted, d)'
    BY <2>1, <1>2 DEF NearOK, Near, TreeTypeOK
  <2> QED BY <2>1, <2>2, <2>3, DeviceMoves DEF TreeTypeOK
<1> QED BY <1>3, <1>4, <1>5, <1>6, <1>7, <1>8 DEF TickStep

LEMMA ReachStep ==
  ASSUME ReachInv, [TreeNext]_treeVars
  PROVE  ReachInv' /\ served \subseteq served'
<1>1. CASE \E d \in Devices : CallStep(d) \/ TickStep(d)
  BY <1>1, CallKeeps, TickKeeps
<1>2. CASE Join
  <2>1. /\ head' = [head EXCEPT ![Joiner] = served]
        /\ floor' = [floor EXCEPT ![Joiner] = Tips(served)]
        /\ UNCHANGED <<served, call, tick, minted>>
    BY <1>2 DEF Join
  <2>2. Tips(served) \subseteq served
    BY TipsWithin
  <2>3. TreeTypeOK'
    BY <2>1, <2>2 DEF ReachInv, TreeTypeOK
  <2>4. ASSUME NEW d \in Devices PROVE NearOK(served, minted, d)'
    BY <2>1, <2>2 DEF ReachInv, NearOK, Near, TreeTypeOK
  <2> QED BY <2>1, <2>3, <2>4 DEF ReachInv
<1>3. ASSUME NEW ask \in Asks, Elsewhere(ask) PROVE ReachInv' /\ served \subseteq served'
  <2>1. PICK id \in TreeIds : served' = served \cup {id}
    BY <1>3 DEF Elsewhere
  <2>2. UNCHANGED <<head, floor, call, tick, minted>>
    BY <1>3 DEF Elsewhere
  <2>3. TreeTypeOK'
    BY <2>1, <2>2 DEF ReachInv, TreeTypeOK, Id
  <2>4. ASSUME NEW d \in Devices PROVE NearOK(served, minted, d)'
    BY <2>1, <2>2 DEF ReachInv, NearOK, Near
  <2> QED BY <2>1, <2>3, <2>4 DEF ReachInv
<1>4. CASE UNCHANGED treeVars
  BY <1>4 DEF treeVars, ReachInv, TreeTypeOK, NearOK, Near
<1> QED BY <1>1, <1>2, <1>3, <1>4 DEF TreeNext

LEMMA ReachIsInvariant == TreeSpec => []ReachInv
<1>1. TreeInit => ReachInv
  BY ReachInit
<1>2. ReachInv /\ [TreeNext]_treeVars => ReachInv'
  BY ReachStep
<1> QED BY <1>1, <1>2, PTL DEF TreeSpec

\* ReadersFollow: a device whose own operations the server all has can always follow
\* it, whatever the writes of its head and floor overwrote and wherever its calls and
\* ticks stopped (syncDagAnchor's floor, saveHead and saveWatermark).
THEOREM FloorsStayReachable == TreeSpec => []ReadersFollow
<1>1. ReachInv => ReadersFollow
  BY DEF ReachInv, NearOK, Near, ReadersFollow
<1> QED BY <1>1, ReachIsInvariant, PTL

-----------------------------------------------------------------------------
(* Induction, stated of sets.                                              *)

\* Of the subsets of a finite set that are in B, one has none of B below it.
LEMMA SmallestSubset ==
  ASSUME NEW M, IsFiniteSet(M), NEW B, B \subseteq SUBSET M, B # {}
  PROVE  \E X \in B : \A Y \in SUBSET X : Y # X => Y \notin B
<1>1. IsWellFoundedOn(StrictSubsetOrdering(M), FiniteSubsetsOf(M))
  BY FS_StrictSubsetOrderingWellFounded
<1>2. B \subseteq FiniteSubsetsOf(M)
  BY FS_Subset DEF FiniteSubsetsOf
<1>3. PICK X \in B : \A Y \in B : ~(<<Y, X>> \in StrictSubsetOrdering(M))
  BY <1>1, <1>2, WFMin, Zenon
<1>4. \A Y \in SUBSET X : Y # X => Y \notin B
  BY <1>3 DEF StrictSubsetOrdering
<1> QED BY <1>3, <1>4

\* A property of a set of sets, T, that passes from the smaller ones to each.
LEMMA FiniteInduction ==
  ASSUME NEW M, IsFiniteSet(M), NEW T,
         \A s \in SUBSET M : (\A u \in SUBSET s : u # s => u \in T) => s \in T
  PROVE  M \in T
<1> DEFINE B == {s \in SUBSET M : s \notin T}
<1> SUFFICES ASSUME B # {} PROVE FALSE
  OBVIOUS
<1>0. B \subseteq SUBSET M
  OBVIOUS
<1>1. PICK X \in B : \A Y \in SUBSET X : Y # X => Y \notin B
  <2> HIDE DEF B
  <2> QED BY <1>0, SmallestSubset, Zenon
<1>2. \A u \in SUBSET X : u # X => u \in T
  BY <1>1
<1> QED BY <1>1, <1>2

\* A set of numbers that begins at nought and never stops.
LEMMA NumberInduction ==
  ASSUME NEW T, 0 \in T, \A n \in Nat : n \in T => n + 1 \in T, NEW m \in Nat
  PROVE  m \in T
<1> DEFINE I == 0..m
           U == {s \in SUBSET I : \A k \in Nat : s = 0..k => k \in T}
<1>1. IsFiniteSet(I)
  BY FS_Interval
<1>2. ASSUME NEW s \in SUBSET I, \A u \in SUBSET s : u # s => u \in U
      PROVE  s \in U
  <2> SUFFICES ASSUME NEW k \in Nat, s = 0..k PROVE k \in T
    BY <1>2
  <2>1. CASE k = 0
    BY <2>1
  <2>2. CASE k # 0
    <3>1. k - 1 \in Nat /\ 0..(k - 1) \in SUBSET s /\ 0..(k - 1) # s
      BY <2>2
    <3>2. k - 1 \in T
      BY <3>1, <1>2
    <3> QED BY <3>1, <3>2
  <2> QED BY <2>1, <2>2
<1>3. \A s \in SUBSET I : (\A u \in SUBSET s : u # s => u \in U) => s \in U
  <2> HIDE DEF I, U
  <2> QED BY <1>2
<1>4. I \in U
  <2> HIDE DEF I, U
  <2> QED BY <1>1, <1>3, FiniteInduction, Zenon
<1> QED BY <1>4

-----------------------------------------------------------------------------
(* Folds and loops over the subsets of a finite set.                       *)

\* The sets of at most n elements, and those that lack at most n.
Level(S, n) == {s \in SUBSET S : Cardinality(s) <= n}
LEMMA Levels ==
  ASSUME NEW S, IsFiniteSet(S)
  PROVE  /\ Level(S, 0) = {{}} /\ Level(S, Cardinality(S)) = SUBSET S
         /\ \A n \in Nat : Level(S, n) \subseteq Level(S, n + 1)
         /\ \A n \in Nat : \A s \in Level(S, n + 1) : \A x \in s : s \ {x} \in Level(S, n)
<1>1. \A s \in SUBSET S : IsFiniteSet(s) /\ Cardinality(s) \in Nat /\ Cardinality(s) <= Cardinality(S)
  BY FS_Subset, FS_CardinalityType
<1>2. \A s \in SUBSET S : Cardinality(s) = 0 <=> s = {}
  BY <1>1, FS_EmptySet
<1>3. \A s \in SUBSET S : \A x \in s :
         s \ {x} \in SUBSET S /\ Cardinality(s \ {x}) = Cardinality(s) - 1
  BY <1>1, FS_RemoveElement
<1> QED BY <1>1, <1>2, <1>3 DEF Level

\* g is the function of a fold.
FoldsBy(g, S, base, last, step) ==
  g = [s \in SUBSET S |-> IF s = {} THEN base ELSE step[<<last[s], g[s \ {last[s]}]>>]]

\* The function of a fold over S that takes the elements in some order, last(s) the
\* last of s.  D is where its values are.
LEMMA FoldExists ==
  ASSUME NEW S, IsFiniteSet(S), NEW last, \A s \in SUBSET S : s # {} => last[s] \in s,
         NEW D, NEW base \in D, NEW step, \A x \in S : \A v \in D : step[<<x, v>>] \in D
  PROVE  \E g \in [SUBSET S -> D] : FoldsBy(g, S, base, last, step)
<1> DEFINE Is(h, n) == /\ h \in [Level(S, n) -> D]
                       /\ h = [s \in Level(S, n) |->
                                 IF s = {} THEN base ELSE step[<<last[s], h[s \ {last[s]}]>>]]
           T == {n \in Nat : \E h : Is(h, n)}
<1>1. 0 \in T
  <2> DEFINE h == [s \in Level(S, 0) |-> base]
  <2>1. Is(h, 0)
    BY Levels
  <2> QED BY <2>1
<1>2. ASSUME NEW n \in Nat, n \in T PROVE n + 1 \in T
  <2>1. PICK h : Is(h, n)
    BY <1>2
  <2> DEFINE u == [s \in Level(S, n + 1) |->
                     IF s = {} THEN base ELSE step[<<last[s], h[s \ {last[s]}]>>]]
  <2>2. Level(S, n) \subseteq Level(S, n + 1)
    BY Levels
  <2>3. \A s \in Level(S, n) : u[s] = h[s]
    BY <2>1, <2>2
  <2>4. \A s \in Level(S, n + 1) : s # {} => s \ {last[s]} \in Level(S, n) /\ last[s] \in S
    BY Levels DEF Level
  <2>5. u \in [Level(S, n + 1) -> D]
    BY <2>1, <2>4
  <2>6. \A s \in Level(S, n + 1) : s # {} => u[s \ {last[s]}] = h[s \ {last[s]}]
    BY <2>3, <2>4
  <2>7. Is(u, n + 1)
    BY <2>5, <2>6
  <2> HIDE DEF Is
  <2> QED BY <2>7
<1>3. Cardinality(S) \in T
  <2> HIDE DEF T
  <2> QED BY <1>1, <1>2, NumberInduction, FS_CardinalityType
<1>4. PICK h : Is(h, Cardinality(S))
  BY <1>3
<1>5. Level(S, Cardinality(S)) = SUBSET S
  BY Levels
<1> QED BY <1>4, <1>5, Zenon DEF FoldsBy

\* Both functions, where the first has no say over what only the second has.
LEMMA BothIs ==
  ASSUME NEW f, NEW g
  PROVE  /\ DOMAIN Both(f, g) = DOMAIN f \cup DOMAIN g
         /\ \A x \in DOMAIN f : Both(f, g)[x] = f[x]
         /\ \A x \in DOMAIN g : x \notin DOMAIN f => Both(f, g)[x] = g[x]
  BY DEF Both

-----------------------------------------------------------------------------
(* Membership states.                                                      *)

\* The founder is the owner, and nobody else is; who is active is known.
Marks == [known : BOOLEAN, active : BOOLEAN, role : Roles]
Sound(st) ==
  /\ st[Founder].active /\ st[Founder].role = Owner
  /\ \A m \in Members : m # Founder => st[m].role # Owner
  /\ \A m \in Members : st[m].active => st[m].known
States == {st \in [Members -> Marks] : Sound(st)}

LEMMA FoundingIs == Founding \in States
<1> DEFINE first == [known |-> TRUE, active |-> TRUE, role |-> Owner]
           other == [known |-> FALSE, active |-> FALSE, role |-> Viewer]
<1>1. /\ first \in Marks /\ first.active /\ first.known /\ first.role = Owner
      /\ other \in Marks /\ ~other.active /\ ~other.known /\ other.role # Owner
  BY DEF Marks, Roles, Owner, Viewer
<1>2. \A m \in Members : Founding[m] = IF m = Founder THEN first ELSE other
  <2> TAKE m \in Members
  <2>1. CASE m = Founder
    BY <2>1 DEF Founding
  <2>2. CASE m # Founder
    BY <2>2 DEF Founding
  <2> QED BY <2>1, <2>2
<1>3. DOMAIN Founding = Members /\ Founding = [m \in Members |-> Founding[m]]
  BY DEF Founding
<1> HIDE DEF first, other
<1>4. Founding \in [Members -> Marks]
  BY <1>1, <1>2, <1>3
<1>5. Sound(Founding)
  BY <1>1, <1>2, DagAssumption DEF Sound
<1> QED BY <1>4, <1>5 DEF States

\* Makes nobody an owner, as every authorized operation.
Lawful(o) == ops[o].act \in {"add", "role"} => ops[o].role # Owner

LEMMA AllowedIsLawful == ASSUME NEW st, NEW o, Authorized(st, ops[o]) PROVE Lawful(o)
  BY DEF Authorized, Lawful

\* What an operation does to a state: only an add makes somebody active, and whom
\* a removal names is not.
LEMMA ApplyIs ==
  ASSUME HistoryOK(ops), NEW st \in States, NEW o \in DOMAIN ops, Lawful(o)
  PROVE  LET u == Apply(st, ops[o])
         IN  /\ u \in States
             /\ \A m \in Members : u[m].active /\ ~st[m].active =>
                  ops[o].act = "add" /\ ops[o].target = m
             /\ ops[o].act = "remove" => ~u[ops[o].target].active
<1> DEFINE op == ops[o]
           t == op.target
           u == Apply(st, op)
<1>1. /\ t \in Members /\ op.act \in Acts
      /\ op.act \in {"add", "role", "remove"} => t # Founder
      /\ op.act \in {"add", "role"} => op.role \in Roles \ {Owner}
  BY DEF HistoryOK, Lawful
<1>2. st \in [Members -> Marks] /\ Sound(st)
  BY DEF States
<1> HIDE DEF op
<1>3. ASSUME NEW a \in Marks, t # Founder,
             a.role # Owner, a.active => a.known, u = [st EXCEPT ![t] = a],
             a.active /\ ~st[t].active => op.act = "add", op.act = "remove" => ~a.active
      PROVE  /\ u \in States
             /\ \A m \in Members : u[m].active /\ ~st[m].active => op.act = "add" /\ t = m
             /\ op.act = "remove" => ~u[t].active
  <2> HIDE DEF u, t
  <2>1. /\ u \in [Members -> Marks]
        /\ u[t] = a /\ \A m \in Members \ {t} : u[m] = st[m]
    BY <1>1, <1>2, <1>3
  <2>2. u \in States
    BY <1>1, <1>2, <1>3, <2>1, DagAssumption DEF States, Sound
  <2> QED BY <1>1, <1>3, <2>1, <2>2
<1>4. CASE ~HasEffect(st, op) \/ op.act = "reseal"
  <2>1. u = st
    BY <1>4 DEF Apply
  <2>2. op.act = "remove" => ~st[t].active
    BY <1>4 DEF HasEffect
  <2> QED BY <2>1, <2>2 DEF op
<1>5. CASE HasEffect(st, op) /\ op.act = "add"
  <2> DEFINE a == [known |-> TRUE, active |-> TRUE, role |-> op.role]
  <2>1. u = [st EXCEPT ![t] = a]
    BY <1>5 DEF Apply
  <2> QED BY <1>1, <1>3, <1>5, <2>1 DEF op, Marks
<1>6. CASE HasEffect(st, op) /\ op.act = "remove"
  <2> DEFINE a == [st[t] EXCEPT !.active = FALSE]
  <2>1. u = [st EXCEPT ![t] = a]
    BY <1>6 DEF Apply
  <2>2. st[t] \in Marks /\ st[t].role # Owner /\ (st[t].active => st[t].known) /\ t # Founder
    BY <1>1, <1>2, <1>6 DEF Sound
  <2>3. a \in Marks /\ a.role # Owner /\ a.active = FALSE
    BY <2>2 DEF Marks
  <2> HIDE DEF a, u, t
  <2>4. a.active => a.known
    BY <2>3
  <2>5. a.active /\ ~st[t].active => op.act = "add"
    BY <2>3
  <2>6. op.act = "remove" => ~a.active
    BY <2>3
  <2>7. /\ u \in States
        /\ \A m \in Members : u[m].active /\ ~st[m].active => op.act = "add" /\ t = m
        /\ op.act = "remove" => ~u[t].active
    BY <1>3, <2>1, <2>2, <2>3, <2>4, <2>5, <2>6
  <2> QED BY <2>7 DEF op, t, u
<1>7. CASE HasEffect(st, op) /\ op.act = "role"
  <2> DEFINE a == [st[t] EXCEPT !.role = op.role]
  <2>1. u = [st EXCEPT ![t] = a]
    BY <1>7 DEF Apply
  <2>2. st[t] \in Marks /\ (st[t].active => st[t].known) /\ t # Founder /\ op.role \in Roles \ {Owner}
    BY <1>1, <1>2, <1>7 DEF Sound
  <2>3. a \in Marks /\ a.role # Owner /\ a.active = st[t].active /\ a.known = st[t].known
    BY <2>2 DEF Marks
  <2> HIDE DEF a, u, t
  <2>4. a.active => a.known
    BY <2>2, <2>3
  <2>5. a.active /\ ~st[t].active => op.act = "add"
    BY <2>3
  <2>6. op.act = "remove" => ~a.active
    BY <1>7
  <2>7. /\ u \in States
        /\ \A m \in Members : u[m].active /\ ~st[m].active => op.act = "add" /\ t = m
        /\ op.act = "remove" => ~u[t].active
    BY <1>3, <2>1, <2>2, <2>3, <2>4, <2>5, <2>6
  <2> QED BY <2>7 DEF op, t, u
<1>8. op.act = "create" => ~HasEffect(st, op)
  BY DEF HasEffect
<1> QED BY <1>1, <1>4, <1>5, <1>6, <1>7, <1>8 DEF Acts

\* The founder's removals and demotions are authorized wherever they stand.
Sure(o) == ops[o].author = Founder /\ ops[o].act \in {"remove", "role"} /\ Lawful(o)

LEMMA SureIsAuthorized ==
  ASSUME HistoryOK(ops), NEW st \in States, NEW o \in DOMAIN ops, Sure(o)
  PROVE  Authorized(st, ops[o])
<1> DEFINE op == ops[o]
<1>1. /\ op.target \in Members \ {Founder} /\ op.author = Founder /\ op.act \in {"remove", "role"}
      /\ op.act = "role" => op.role \in Roles \ {Owner}
  BY DEF HistoryOK, Sure, Lawful
<1>2. /\ st[Founder].active /\ st[Founder].role = Owner
      /\ st[op.target].role # Owner /\ st[op.target].role \in Roles
  BY <1>1 DEF States, Sound, Marks
<1> HIDE DEF op
<1>3. \A role : Owner <= Needed(role)
  BY DEF Needed, Owner, CoOwner
<1>4. Authorized(st, op)
  BY <1>1, <1>2, <1>3 DEF Authorized
<1> QED BY <1>4 DEF op

-----------------------------------------------------------------------------
(* The orders.                                                             *)

\* Of finitely many integers one is the least and one the greatest.
LEMMA IntegerBounds ==
  ASSUME NEW S, S \subseteq Int, IsFiniteSet(S), S # {}
  PROVE  (\E x \in S : \A y \in S : x <= y) /\ (\E x \in S : \A y \in S : y <= x)
<1> DEFINE T == {s \in SUBSET S : s # {} => /\ \E x \in s : \A y \in s : x <= y
                                            /\ \E x \in s : \A y \in s : y <= x}
<1>1. ASSUME NEW s \in SUBSET S, \A u \in SUBSET s : u # s => u \in T
      PROVE  s \in T
  <2> SUFFICES ASSUME s # {} PROVE /\ \E x \in s : \A y \in s : x <= y
                                   /\ \E x \in s : \A y \in s : y <= x
    OBVIOUS
  <2>1. PICK z : z \in s
    OBVIOUS
  <2>2. CASE s \ {z} = {}
    <3>1. s = {z} /\ z \in Int
      BY <2>1, <2>2
    <3> QED BY <3>1
  <2>3. CASE s \ {z} # {}
    <3>1. s \ {z} \in T
      BY <1>1, <2>1
    <3>2. PICK x \in s \ {z} : \A y \in s \ {z} : x <= y
      BY <2>3, <3>1
    <3>3. PICK w \in s \ {z} : \A y \in s \ {z} : y <= w
      BY <2>3, <3>1
    <3>4. x \in Int /\ w \in Int /\ z \in Int /\ s \subseteq Int
      BY <2>1, <3>2, <3>3
    <3>5. \E x1 \in s : \A y \in s : x1 <= y
      <4>1. CASE x <= z
        BY <3>2, <3>4, <4>1
      <4>2. CASE z <= x
        BY <2>1, <3>2, <3>4, <4>2
      <4> QED BY <3>4, <4>1, <4>2
    <3>6. \E x1 \in s : \A y \in s : y <= x1
      <4>1. CASE z <= w
        BY <3>3, <3>4, <4>1
      <4>2. CASE w <= z
        BY <2>1, <3>3, <3>4, <4>2
      <4> QED BY <3>4, <4>1, <4>2
    <3> QED BY <3>5, <3>6
  <2> QED BY <2>2, <2>3
<1>2. S \in T
  <2> HIDE DEF T
  <2> QED BY <1>1, FiniteInduction, Zenon
<1> QED BY <1>2

\* The greatest of a set of numbers.
LEMMA DepthIs ==
  ASSUME NEW past, past \subseteq DOMAIN ops, HistoryOK(ops)
  PROVE  DepthOn(past) \in Nat /\ \A a \in past : ops[a].depth < DepthOn(past)
<1>1. CASE past = {}
  BY <1>1 DEF DepthOn
<1>2. CASE past # {}
  <2> DEFINE D == {ops[a].depth : a \in past}
             top == CHOOSE d \in D : \A a \in past : ops[a].depth <= d
  <2>1. D \subseteq Nat /\ D # {}
    BY <1>2 DEF HistoryOK
  <2>2. IsFiniteSet(past)
    BY FS_Subset DEF HistoryOK
  <2>3. IsFiniteSet(D)
    <3> DEFINE f == [a \in past |-> ops[a].depth]
    <3>1. f \in Surjection(past, D)
      BY DEF Surjection
    <3> HIDE DEF f, D
    <3> QED BY <2>2, <3>1, FS_Surjection
  <2>4. PICK d \in D : \A e \in D : e <= d
    <3>1. D \subseteq Int
      BY <2>1
    <3> HIDE DEF D
    <3> QED BY <2>1, <2>3, <3>1, IntegerBounds, Zenon
  <2>5. top \in D /\ \A a \in past : ops[a].depth <= top
    BY <2>4
  <2>6. DepthOn(past) = 1 + top
    BY <1>2 DEF DepthOn
  <2>7. \A a \in past : ops[a].depth \in Nat
    BY <2>1
  <2> HIDE DEF top, D
  <2> QED BY <2>1, <2>5, <2>6, <2>7
<1> QED BY <1>1, <1>2

\* Every set of operations but the empty one has a last.
LEMMA LastIs ==
  ASSUME HistoryOK(ops), NEW S, S \subseteq DOMAIN ops, S # {}
  PROVE  LastOf(S) \in S /\ \A y \in S \ {LastOf(S)} : Precedes(y, LastOf(S))
<1> DEFINE T == {s \in SUBSET S : s # {} => \E x \in s : \A y \in s \ {x} : Precedes(y, x)}
<1>0. /\ IsFiniteSet(S) /\ S \subseteq Int
      /\ \A x \in S : ops[x].depth \in Nat
  BY FS_Subset DEF HistoryOK
<1>1. ASSUME NEW s \in SUBSET S, \A u \in SUBSET s : u # s => u \in T
      PROVE  s \in T
  <2> SUFFICES ASSUME s # {} PROVE \E x \in s : \A y \in s \ {x} : Precedes(y, x)
    OBVIOUS
  <2>1. PICK z : z \in s
    OBVIOUS
  <2>2. CASE s \ {z} = {}
    BY <2>1, <2>2
  <2>3. CASE s \ {z} # {}
    <3>1. s \ {z} \in T
      BY <1>1, <2>1
    <3>2. PICK x \in s \ {z} : \A y \in (s \ {z}) \ {x} : Precedes(y, x)
      BY <2>3, <3>1
    <3>3. CASE Precedes(z, x)
      BY <2>1, <3>2, <3>3
    <3>4. CASE ~Precedes(z, x)
      <4>1. Precedes(x, z)
        BY <1>0, <2>1, <3>2, <3>4 DEF Precedes
      <4>2. \A y \in s \ {z} : Precedes(y, z)
        BY <1>0, <2>1, <3>2, <4>1 DEF Precedes
      <4> QED BY <2>1, <4>2
    <3> QED BY <3>3, <3>4
  <2> QED BY <2>2, <2>3
<1>2. S \in T
  <2>1. IsFiniteSet(S)
    BY <1>0
  <2>2. \A s \in SUBSET S : (\A u \in SUBSET s : u # s => u \in T) => s \in T
    <3> HIDE DEF T
    <3> QED BY <1>1
  <2> HIDE DEF T
  <2> QED BY <2>1, <2>2, FiniteInduction, Zenon
<1> QED BY <1>2 DEF LastOf

\* What precedes does not descend.
LEMMA PrecedesIs ==
  ASSUME HistoryOK(ops), NEW x \in DOMAIN ops, NEW y \in DOMAIN ops, x = y \/ Precedes(x, y)
  PROVE  y \notin ops[x].past
<1>1. y \in ops[x].past => ops[y].depth < ops[x].depth
  BY DEF HistoryOK
<1>2. ops[x].depth \in Nat /\ ops[y].depth \in Nat
  BY DEF HistoryOK
<1> QED BY <1>1, <1>2 DEF Precedes

-----------------------------------------------------------------------------
(* The folds.                                                              *)

\* What a set of operations folds to is a membership.
LEMMA FoldIs ==
  ASSUME HistoryOK(ops), NEW base \in States, NEW S, S \subseteq DOMAIN ops,
         \A o \in S : Lawful(o)
  PROVE  FoldOps(base, S) \in States
<1> DEFINE last == [s \in SUBSET S |-> LastOf(s)]
           step == [w \in S \X States |-> Apply(w[2], ops[w[1]])]
<1>1. IsFiniteSet(S)
  BY FS_Subset DEF HistoryOK
<1>2. \A s \in SUBSET S : s # {} => last[s] \in s
  BY LastIs
<1>3. \A x \in S : \A v \in States : step[<<x, v>>] = Apply(v, ops[x]) /\ step[<<x, v>>] \in States
  BY ApplyIs
<1>4. PICK g \in [SUBSET S -> States] : FoldsBy(g, S, base, last, step)
  <2>1. \A x \in S : \A v \in States : step[<<x, v>>] \in States
    BY <1>3
  <2> HIDE DEF last, step
  <2> QED BY <1>1, <1>2, <2>1, FoldExists
<1>5. g = [s \in SUBSET S |-> IF s = {} THEN base ELSE Apply(g[s \ {LastOf(s)}], ops[LastOf(s)])]
  <2>1. ASSUME NEW s \in SUBSET S, s # {}
        PROVE  step[<<last[s], g[s \ {last[s]}]>>] = Apply(g[s \ {LastOf(s)}], ops[LastOf(s)])
    <3>1. last[s] = LastOf(s) /\ LastOf(s) \in S /\ g[s \ {LastOf(s)}] \in States
      BY <1>2, <1>4, <2>1
    <3> QED BY <1>3, <3>1
  <2> HIDE DEF step, last
  <2> QED BY <1>4, <2>1 DEF FoldsBy
<1>6. FoldOps(base, S) = (CHOOSE h : h = [s \in SUBSET S |->
         IF s = {} THEN base ELSE Apply(h[s \ {LastOf(s)}], ops[LastOf(s)])])[S]
  BY Zenon DEF FoldOps, MapThenFoldSet
<1> DEFINE Is(h) == h = [s \in SUBSET S |->
         IF s = {} THEN base ELSE Apply(h[s \ {LastOf(s)}], ops[LastOf(s)])]
           k == CHOOSE h : Is(h)
<1>7. Is(k)
  <2>1. Is(g)
    BY <1>5
  <2> HIDE DEF Is
  <2> QED BY <2>1
<1> DEFINE T == {s \in SUBSET S : k[s] \in States}
<1>8. ASSUME NEW s \in SUBSET S, \A u \in SUBSET s : u # s => u \in T
      PROVE  s \in T
  <2>1. k[s] = IF s = {} THEN base ELSE Apply(k[s \ {LastOf(s)}], ops[LastOf(s)])
    <3> HIDE DEF k
    <3> QED BY <1>7
  <2>2. CASE s = {}
    BY <2>1, <2>2
  <2>3. CASE s # {}
    <3>1. LastOf(s) \in s
      BY <2>3, LastIs
    <3>2. s \ {LastOf(s)} \in T
      BY <1>8, <3>1
    <3> HIDE DEF k
    <3> QED BY <2>1, <2>3, <3>1, <3>2, ApplyIs
  <2> QED BY <2>2, <2>3
<1>9. S \in T
  <2>1. \A s \in SUBSET S : (\A u \in SUBSET s : u # s => u \in T) => s \in T
    <3> HIDE DEF T
    <3> QED BY <1>8
  <2>2. \A t : (\A s \in SUBSET S : (\A u \in SUBSET s : u # s => u \in t) => s \in t) => S \in t
    BY <1>1, FiniteInduction
  <2> HIDE DEF T
  <2> QED BY <2>1, <2>2
<1> QED BY <1>6, <1>9

\* An operation judged on the authorized ones among its ancestors.
Judged(base, o, A) == Authorized(FoldOps(base, ops[o].past \cap A), ops[o])

\* The authorized operations of a view: each is authorized after the authorized ones
\* of its past, and the founder's removals and demotions are among them.
LEMMA AuthorizedIs ==
  ASSUME HistoryOK(ops), NEW base \in States, NEW V, V \subseteq DOMAIN ops
  PROVE  LET A == AuthorizedIn(base, V)
         IN  /\ A \subseteq V
             /\ \A o \in V : Sure(o) => o \in A
             /\ \A o \in A : Judged(base, o, A)
<1> DEFINE last == [s \in SUBSET V |-> LastOf(s)]
           Grown(o, A) == IF Judged(base, o, A) THEN A \cup {o} ELSE A
           step == [w \in V \X SUBSET V |-> Grown(w[1], w[2])]
           Is(h) == h = [s \in SUBSET V |->
                           IF s = {} THEN {} ELSE Grown(LastOf(s), h[s \ {LastOf(s)}])]
           k == CHOOSE h : Is(h)
<1>1. IsFiniteSet(V) /\ {} \in SUBSET V
  BY FS_Subset DEF HistoryOK
<1>2. \A s \in SUBSET V : s # {} => last[s] \in s
  BY LastIs
<1>3. \A x \in V : \A v \in SUBSET V : step[<<x, v>>] = Grown(x, v) /\ step[<<x, v>>] \in SUBSET V
  OBVIOUS
<1>4. PICK g \in [SUBSET V -> SUBSET V] : FoldsBy(g, V, {}, last, step)
  <2>1. \A x \in V : \A v \in SUBSET V : step[<<x, v>>] \in SUBSET V
    BY <1>3
  <2> HIDE DEF last, step
  <2> QED BY <1>1, <1>2, <2>1, FoldExists
<1>5. Is(g)
  <2>1. ASSUME NEW s \in SUBSET V, s # {}
        PROVE  step[<<last[s], g[s \ {last[s]}]>>] = Grown(LastOf(s), g[s \ {LastOf(s)}])
    <3>1. last[s] = LastOf(s) /\ LastOf(s) \in V /\ g[s \ {LastOf(s)}] \in SUBSET V
      BY <1>2, <1>4, <2>1
    <3> HIDE DEF step, last, Grown
    <3> QED BY <1>3, <3>1
  <2> HIDE DEF step, last, Grown
  <2> QED BY <1>4, <2>1 DEF FoldsBy
<1>6. AuthorizedIn(base, V) = k[V]
  BY Zenon DEF AuthorizedIn, MapThenFoldSet, Judged
<1>7. Is(k)
  <2> HIDE DEF Is
  <2> QED BY <1>5
<1> DEFINE Good(s) == /\ k[s] \subseteq s
                      /\ \A o \in s : Sure(o) => o \in k[s]
                      /\ \A o \in k[s] : Judged(base, o, k[s])
           T == {s \in SUBSET V : Good(s)}
<1>8. ASSUME NEW s \in SUBSET V, \A u \in SUBSET s : u # s => u \in T
      PROVE  s \in T
  <2>1. k[s] = IF s = {} THEN {} ELSE Grown(LastOf(s), k[s \ {LastOf(s)}])
    <3> HIDE DEF k, Grown
    <3> QED BY <1>7
  <2>2. CASE s = {}
    BY <2>1, <2>2
  <2>3. CASE s # {}
    <3> DEFINE x == LastOf(s)
               A == k[s \ {x}]
    <3>1. x \in s /\ x \in DOMAIN ops /\ \A y \in s \ {x} : Precedes(y, x)
      BY <2>3, LastIs
    <3>2. Good(s \ {x})
      <4>1. s \ {x} \in T
        BY <1>8, <3>1
      <4> HIDE DEF Good
      <4> QED BY <4>1
    <3>3. /\ k[s] = A \/ (k[s] = A \cup {x} /\ Judged(base, x, A))
          /\ Judged(base, x, A) => k[s] = A \cup {x}
      <4>1. k[s] = Grown(x, A)
        BY <2>1, <2>3
      <4> HIDE DEF A, x, k
      <4> QED BY <4>1
    <3>4. A \subseteq s \ {x} /\ \A o \in s \ {x} : Sure(o) => o \in A
      BY <3>2
    <3>5. \A o \in A : Judged(base, o, A)
      BY <3>2
    <3>6. \A o \in s : x \notin ops[o].past
      BY <3>1, PrecedesIs
    <3>7. \A o \in s : ops[o].past \cap k[s] = ops[o].past \cap A
      <4> HIDE DEF A, x, k
      <4> QED BY <3>3, <3>6
    <3>8. Sure(x) => Judged(base, x, A)
      <4>1. FoldOps(base, ops[x].past \cap A) \in States
        <5>1. ops[x].past \cap A \subseteq DOMAIN ops
          BY <3>4
        <5> HIDE DEF A, x
        <5>2. \A o \in ops[x].past \cap A : Lawful(o)
          BY <3>5, AllowedIsLawful DEF Judged
        <5> QED BY <5>1, <5>2, FoldIs
      <4> HIDE DEF A, x
      <4> QED BY <3>1, <4>1, SureIsAuthorized DEF Judged
    <3>9. k[s] \subseteq s /\ \A o \in s : Sure(o) => o \in k[s]
      <4> HIDE DEF A, x, k
      <4> QED BY <3>1, <3>3, <3>4, <3>8
    <3>10. \A o \in s : Judged(base, o, k[s]) <=> Judged(base, o, A)
      <4> HIDE DEF A, x, k
      <4> QED BY <3>7 DEF Judged
    <3>11. \A o \in k[s] : Judged(base, o, k[s])
      <4>1. \A o \in k[s] : o \in A \/ (o = x /\ Judged(base, x, A))
        <5> HIDE DEF A, x, k
        <5> QED BY <3>3
      <4> HIDE DEF A, x, k
      <4> QED BY <3>5, <3>9, <3>10, <4>1
    <3> HIDE DEF k
    <3> QED BY <3>9, <3>11
  <2> QED BY <2>2, <2>3
<1>9. V \in T
  <2>1. \A s \in SUBSET V : (\A u \in SUBSET s : u # s => u \in T) => s \in T
    <3> HIDE DEF T
    <3> QED BY <1>8
  <2>2. \A t : (\A s \in SUBSET V : (\A u \in SUBSET s : u # s => u \in t) => s \in t) => V \in t
    BY <1>1, FiniteInduction
  <2> HIDE DEF T
  <2> QED BY <2>1, <2>2
<1> HIDE DEF k
<1> QED BY <1>6, <1>9

-----------------------------------------------------------------------------
(* The passes over the void.                                               *)

\* h is a fold over S that only adds, within D, to what is in it.
Grows(S, last, V, D, base, step, h) ==
  /\ \A s \in SUBSET S : s # {} => last[s] \in s
  /\ D \subseteq SUBSET V /\ base \in D
  /\ \A x \in S : \A v \in D : step[<<x, v>>] \in D /\ v \subseteq step[<<x, v>>]
  /\ h[{}] = base
  /\ \A s \in SUBSET S : s # {} /\ h[s \ {last[s]}] \in SUBSET V =>
       h[s] = step[<<last[s], h[s \ {last[s]}]>>]

\* Where such a fold ends: in the sets its steps stay in, above where it began, and
\* there only if no step would have moved it.
LEMMA GrowthEnds ==
  ASSUME NEW S, IsFiniteSet(S), NEW last, NEW V, NEW D, NEW base, NEW step, NEW h,
         Grows(S, last, V, D, base, step, h)
  PROVE  /\ h[S] \in D /\ base \subseteq h[S]
         /\ h[S] = base => \A x \in S : step[<<x, base>>] = base
<1>0. /\ \A s \in SUBSET S : s # {} => last[s] \in s
      /\ D \subseteq SUBSET V /\ base \in D
      /\ \A x \in S : \A v \in D : step[<<x, v>>] \in D /\ v \subseteq step[<<x, v>>]
      /\ h[{}] = base
      /\ \A s \in SUBSET S : s # {} /\ h[s \ {last[s]}] \in SUBSET V =>
           h[s] = step[<<last[s], h[s \ {last[s]}]>>]
  BY Zenon DEF Grows
<1> DEFINE Good(s) == /\ h[s] \in D /\ base \subseteq h[s]
                      /\ h[s] = base => \A x \in s : step[<<x, base>>] = base
           T == {s \in SUBSET S : Good(s)}
<1>1. ASSUME NEW s \in SUBSET S, \A u \in SUBSET s : u # s => u \in T
      PROVE  s \in T
  <2>1. CASE s = {}
    BY <1>0, <2>1
  <2>2. CASE s # {}
    <3> DEFINE x == last[s]
               v == h[s \ {x}]
    <3>1. x \in s /\ s \ {x} \in T
      BY <1>0, <1>1, <2>2
    <3>2. Good(s \ {x})
      BY <3>1
    <3>3. h[s] = step[<<x, v>>] /\ v \in D
      BY <1>0, <2>2, <3>2
    <3>4. h[s] \in D /\ v \subseteq h[s]
      BY <1>0, <3>1, <3>3
    <3>5. ASSUME h[s] = base PROVE \A y \in s : step[<<y, base>>] = base
      <4>1. v = base
        BY <3>2, <3>4, <3>5
      <4> HIDE DEF v, x
      <4> QED BY <3>1, <3>2, <3>3, <3>5, <4>1 DEF v
    <3> QED BY <3>2, <3>4, <3>5
  <2> QED BY <2>1, <2>2
<1>2. S \in T
  <2> HIDE DEF T
  <2> QED BY <1>1, FiniteInduction, Zenon
<1> QED BY <1>2

\* What stands strikes, but never what is in K.
LEMMA StrikePassIs ==
  ASSUME HistoryOK(ops), NEW V, V \subseteq DOMAIN ops, NEW K, NEW strikes,
         DOMAIN strikes \subseteq V,
         \A d \in DOMAIN strikes : strikes[d] \subseteq V /\ strikes[d] \cap K = {},
         NEW void \in SUBSET V
  PROVE  LET r == StrikePass(strikes, void)
         IN  /\ r \in SUBSET V /\ void \subseteq r /\ r \cap K \subseteq void
             /\ r = void => \A d \in DOMAIN strikes : d \notin void => strikes[d] \subseteq void
<1> DEFINE S == DOMAIN strikes
           last == [s \in SUBSET S |-> LastOf(s)]
           Grown(d, v) == IF d \in v THEN v ELSE v \cup strikes[d]
           step == [w \in S \X SUBSET V |-> Grown(w[1], w[2])]
           Is(h) == h = [s \in SUBSET S |->
                           IF s = {} THEN void ELSE Grown(LastOf(s), h[s \ {LastOf(s)}])]
           k == CHOOSE h : Is(h)
           D == {v \in SUBSET V : v \cap K \subseteq void}
<1>1. IsFiniteSet(S) /\ S \subseteq DOMAIN ops
  BY FS_Subset DEF HistoryOK
<1>2. \A s \in SUBSET S : s # {} => last[s] \in s
  BY <1>1, LastIs
<1>3. \A x \in S : \A v \in SUBSET V : step[<<x, v>>] = Grown(x, v) /\ step[<<x, v>>] \in SUBSET V
  OBVIOUS
<1>4. PICK g \in [SUBSET S -> SUBSET V] : FoldsBy(g, S, void, last, step)
  <2>1. \A x \in S : \A v \in SUBSET V : step[<<x, v>>] \in SUBSET V
    BY <1>3
  <2> HIDE DEF last, step, S
  <2> QED BY <1>1, <1>2, <2>1, FoldExists
<1>5. Is(g)
  <2>1. ASSUME NEW s \in SUBSET S, s # {}
        PROVE  step[<<last[s], g[s \ {last[s]}]>>] = Grown(LastOf(s), g[s \ {LastOf(s)}])
    <3>1. last[s] = LastOf(s) /\ LastOf(s) \in S /\ g[s \ {LastOf(s)}] \in SUBSET V
      BY <1>2, <1>4, <2>1
    <3> HIDE DEF step, last, Grown, S
    <3> QED BY <1>3, <3>1
  <2> HIDE DEF step, last, Grown, S
  <2> QED BY <1>4, <2>1 DEF FoldsBy
<1>6. StrikePass(strikes, void) = k[S]
  BY Zenon DEF StrikePass, MapThenFoldSet
<1>7. Is(k)
  <2> HIDE DEF Is
  <2> QED BY <1>5
<1>8. /\ k[{}] = void
      /\ \A s \in SUBSET S : s # {} /\ k[s \ {last[s]}] \in SUBSET V =>
           k[s] = step[<<last[s], k[s \ {last[s]}]>>]
  <2>1. \A s \in SUBSET S : k[s] = IF s = {} THEN void ELSE Grown(LastOf(s), k[s \ {LastOf(s)}])
    <3> HIDE DEF k, Grown, S
    <3> QED BY <1>7
  <2>2. \A s \in SUBSET S : last[s] = LastOf(s)
    OBVIOUS
  <2>3. k[{}] = void
    <3>1. {} \in SUBSET S
      OBVIOUS
    <3> HIDE DEF k, Grown, S
    <3> QED BY <2>1, <3>1
  <2>4. ASSUME NEW s \in SUBSET S, s # {}, k[s \ {last[s]}] \in SUBSET V
        PROVE  k[s] = step[<<last[s], k[s \ {last[s]}]>>]
    <3>1. last[s] \in S /\ last[s] = LastOf(s)
      BY <1>2, <2>2, <2>4
    <3>2. k[s] = Grown(last[s], k[s \ {last[s]}])
      <4> HIDE DEF k, Grown, S, last
      <4> QED BY <2>1, <2>4, <3>1
    <3> HIDE DEF k, Grown, S, last, step
    <3> QED BY <1>3, <2>4, <3>1, <3>2
  <2> HIDE DEF k, Grown, S, last, step
  <2> QED BY <2>3, <2>4
<1>9. \A x \in S : \A v \in D : step[<<x, v>>] \in D /\ v \subseteq step[<<x, v>>]
  <2>1. \A x \in S : \A v \in D : Grown(x, v) \in D /\ v \subseteq Grown(x, v)
    OBVIOUS
  <2>2. \A v \in D : v \in SUBSET V
    OBVIOUS
  <2> TAKE x \in S
  <2> TAKE v \in D
  <2>3. v \in SUBSET V /\ Grown(x, v) \in D /\ v \subseteq Grown(x, v)
    <3> HIDE DEF Grown, D, S
    <3> QED BY <2>1, <2>2
  <2>4. step[<<x, v>>] = Grown(x, v)
    <3> HIDE DEF Grown, D, S, step
    <3> QED BY <1>3, <2>3
  <2> HIDE DEF step, Grown, D, S
  <2> QED BY <2>3, <2>4
<1>10. /\ k[S] \in D /\ void \subseteq k[S]
       /\ k[S] = void => \A x \in S : step[<<x, void>>] = void
  <2>1. D \subseteq SUBSET V /\ void \in D
    OBVIOUS
  <2>2. IsFiniteSet(S)
    BY <1>1
  <2> HIDE DEF k, step, last, D, S
  <2>3. Grows(S, last, V, D, void, step, k)
    BY <1>2, <1>8, <1>9, <2>1, Zenon DEF Grows
  <2> QED BY <2>2, <2>3, GrowthEnds
<1>11. ASSUME k[S] = void, NEW d \in S, d \notin void PROVE strikes[d] \subseteq void
  <2>1. step[<<d, void>>] = void
    BY <1>10, <1>11
  <2>2. Grown(d, void) = void
    <3> HIDE DEF step, Grown, k
    <3> QED BY <1>3, <2>1
  <2> QED BY <1>11, <2>2
<1> HIDE DEF k
<1> QED BY <1>6, <1>10, <1>11

\* What has no author any more falls, but never what is in K.
LEMMA PresencePassIs ==
  ASSUME HistoryOK(ops), NEW base, NEW V, V \subseteq DOMAIN ops, NEW K,
         \A o \in K : \A v \in SUBSET V : ActiveBefore(base, V, v, o),
         NEW void \in SUBSET V
  PROVE  LET r == PresencePass(base, V, void)
         IN  r \in SUBSET V /\ void \subseteq r /\ r \cap K \subseteq void
<1> DEFINE last == [s \in SUBSET V |-> LastOf(s)]
           Grown(o, v) == IF o \in v \/ ActiveBefore(base, V, v, o) THEN v ELSE v \cup {o}
           step == [w \in V \X SUBSET V |-> Grown(w[1], w[2])]
           Is(h) == h = [s \in SUBSET V |->
                           IF s = {} THEN void ELSE Grown(LastOf(s), h[s \ {LastOf(s)}])]
           k == CHOOSE h : Is(h)
           D == {v \in SUBSET V : v \cap K \subseteq void}
<1>1. IsFiniteSet(V)
  BY FS_Subset DEF HistoryOK
<1>2. \A s \in SUBSET V : s # {} => last[s] \in s
  BY LastIs
<1>3. \A x \in V : \A v \in SUBSET V : step[<<x, v>>] = Grown(x, v) /\ step[<<x, v>>] \in SUBSET V
  OBVIOUS
<1>4. PICK g \in [SUBSET V -> SUBSET V] : FoldsBy(g, V, void, last, step)
  <2>1. \A x \in V : \A v \in SUBSET V : step[<<x, v>>] \in SUBSET V
    BY <1>3
  <2> HIDE DEF last, step
  <2> QED BY <1>1, <1>2, <2>1, FoldExists
<1>5. Is(g)
  <2>1. ASSUME NEW s \in SUBSET V, s # {}
        PROVE  step[<<last[s], g[s \ {last[s]}]>>] = Grown(LastOf(s), g[s \ {LastOf(s)}])
    <3>1. last[s] = LastOf(s) /\ LastOf(s) \in V /\ g[s \ {LastOf(s)}] \in SUBSET V
      BY <1>2, <1>4, <2>1
    <3> HIDE DEF step, last, Grown
    <3> QED BY <1>3, <3>1
  <2> HIDE DEF step, last, Grown
  <2> QED BY <1>4, <2>1 DEF FoldsBy
<1>6. PresencePass(base, V, void) = k[V]
  BY Zenon DEF PresencePass, MapThenFoldSet
<1>7. Is(k)
  <2> HIDE DEF Is
  <2> QED BY <1>5
<1>8. /\ k[{}] = void
      /\ \A s \in SUBSET V : s # {} /\ k[s \ {last[s]}] \in SUBSET V =>
           k[s] = step[<<last[s], k[s \ {last[s]}]>>]
  <2>1. \A s \in SUBSET V : k[s] = IF s = {} THEN void ELSE Grown(LastOf(s), k[s \ {LastOf(s)}])
    <3> HIDE DEF k, Grown
    <3> QED BY <1>7
  <2>2. \A s \in SUBSET V : last[s] = LastOf(s)
    OBVIOUS
  <2>3. k[{}] = void
    <3>1. {} \in SUBSET V
      OBVIOUS
    <3> HIDE DEF k, Grown
    <3> QED BY <2>1, <3>1
  <2>4. ASSUME NEW s \in SUBSET V, s # {}, k[s \ {last[s]}] \in SUBSET V
        PROVE  k[s] = step[<<last[s], k[s \ {last[s]}]>>]
    <3>1. last[s] \in V /\ last[s] = LastOf(s)
      BY <1>2, <2>2, <2>4
    <3>2. k[s] = Grown(last[s], k[s \ {last[s]}])
      <4> HIDE DEF k, Grown, last
      <4> QED BY <2>1, <2>4, <3>1
    <3> HIDE DEF k, Grown, last, step
    <3> QED BY <1>3, <2>4, <3>1, <3>2
  <2> HIDE DEF k, Grown, last, step
  <2> QED BY <2>3, <2>4
<1>9. \A x \in V : \A v \in D : step[<<x, v>>] \in D /\ v \subseteq step[<<x, v>>]
  <2>1. \A x \in V : \A v \in D : Grown(x, v) \in D /\ v \subseteq Grown(x, v)
    OBVIOUS
  <2>2. \A v \in D : v \in SUBSET V
    OBVIOUS
  <2> TAKE x \in V
  <2> TAKE v \in D
  <2>3. v \in SUBSET V /\ Grown(x, v) \in D /\ v \subseteq Grown(x, v)
    <3> HIDE DEF Grown, D
    <3> QED BY <2>1, <2>2
  <2>4. step[<<x, v>>] = Grown(x, v)
    <3> HIDE DEF Grown, D, step
    <3> QED BY <1>3, <2>3
  <2> HIDE DEF step, Grown, D
  <2> QED BY <2>3, <2>4
<1>10. k[V] \in D /\ void \subseteq k[V]
  <2>1. D \subseteq SUBSET V /\ void \in D
    OBVIOUS
  <2>2. IsFiniteSet(V)
    BY <1>1
  <2> HIDE DEF k, step, last, D
  <2>3. Grows(V, last, V, D, void, step, k)
    BY <1>2, <1>8, <1>9, <2>1, Zenon DEF Grows
  <2> QED BY <2>2, <2>3, GrowthEnds
<1> HIDE DEF k
<1> QED BY <1>6, <1>10

-----------------------------------------------------------------------------
(* Loops over the subsets of a finite set, each round above the last.      *)

Loops(V, stop, next) ==
  \A v \in SUBSET V : v \notin stop => next[v] \in SUBSET V /\ v \subseteq next[v] /\ next[v] # v

LoopsTo(g, V, stop, next, out) ==
  g = [v \in SUBSET V |-> IF v \in stop THEN out[v] ELSE g[next[v]]]

\* From a set of P the rounds stay in P, and what comes out of P is in Q.
Leads(P, Q, V, stop, next, out) ==
  /\ P \subseteq SUBSET V
  /\ \A v \in P : IF v \in stop THEN out[v] \in Q ELSE next[v] \in P

\* Such a loop ends, from every set.
LEMMA LoopExists ==
  ASSUME NEW V, IsFiniteSet(V), NEW stop, NEW next, NEW out, Loops(V, stop, next)
  PROVE  \E g : LoopsTo(g, V, stop, next, out)
<1> DEFINE Lv(n) == {v \in SUBSET V : Cardinality(V \ v) <= n}
           Is(h, n) == h = [v \in Lv(n) |-> IF v \in stop THEN out[v] ELSE h[next[v]]]
           T == {n \in Nat : \E h : Is(h, n)}
<1>1. \A v \in SUBSET V : IsFiniteSet(V \ v) /\ Cardinality(V \ v) \in Nat
                          /\ Cardinality(V \ v) <= Cardinality(V)
  BY FS_Subset, FS_CardinalityType
<1>2. \A v \in SUBSET V : v \notin stop =>
         next[v] \in SUBSET V /\ Cardinality(V \ next[v]) < Cardinality(V \ v)
  <2> SUFFICES ASSUME NEW v \in SUBSET V, v \notin stop
               PROVE  next[v] \in SUBSET V /\ Cardinality(V \ next[v]) < Cardinality(V \ v)
    OBVIOUS
  <2>1. next[v] \in SUBSET V /\ v \subseteq next[v] /\ next[v] # v
    BY DEF Loops
  <2>2. (V \ next[v]) \subseteq (V \ v) /\ (V \ next[v]) # (V \ v)
    BY <2>1
  <2>3. IsFiniteSet(V \ v) /\ Cardinality(V \ v) \in Nat /\ Cardinality(V \ next[v]) \in Nat
    BY <1>1, <2>1
  <2>4. /\ Cardinality(V \ next[v]) <= Cardinality(V \ v)
        /\ Cardinality(V \ next[v]) = Cardinality(V \ v) => V \ next[v] = V \ v
    BY <2>2, <2>3, FS_Subset
  <2> QED BY <2>1, <2>2, <2>3, <2>4
<1>3. 0 \in T
  <2> DEFINE h == [v \in Lv(0) |-> out[v]]
  <2>1. \A v \in Lv(0) : v \in stop
    <3> SUFFICES ASSUME NEW v \in Lv(0), v \notin stop PROVE FALSE
      OBVIOUS
    <3>1. v \in SUBSET V /\ Cardinality(V \ v) <= 0
      OBVIOUS
    <3>2. next[v] \in SUBSET V /\ Cardinality(V \ next[v]) < Cardinality(V \ v)
      BY <1>2, <3>1
    <3>3. Cardinality(V \ v) \in Nat /\ Cardinality(V \ next[v]) \in Nat
      BY <1>1, <3>1, <3>2
    <3> QED BY <3>1, <3>2, <3>3
  <2>2. Is(h, 0)
    BY <2>1
  <2> HIDE DEF Is
  <2> QED BY <2>2
<1>4. ASSUME NEW n \in Nat, n \in T PROVE n + 1 \in T
  <2>1. PICK h : Is(h, n)
    BY <1>4
  <2> DEFINE u == [v \in Lv(n + 1) |-> IF v \in stop THEN out[v] ELSE h[next[v]]]
  <2>2. Lv(n) \subseteq Lv(n + 1)
    BY <1>1
  <2>3. \A v \in Lv(n) : u[v] = h[v]
    BY <2>1, <2>2
  <2>4. \A v \in Lv(n + 1) : v \notin stop => next[v] \in Lv(n)
    <3> SUFFICES ASSUME NEW v \in Lv(n + 1), v \notin stop PROVE next[v] \in Lv(n)
      OBVIOUS
    <3>1. v \in SUBSET V /\ Cardinality(V \ v) <= n + 1
      OBVIOUS
    <3>2. next[v] \in SUBSET V /\ Cardinality(V \ next[v]) < Cardinality(V \ v)
      BY <1>2, <3>1
    <3>3. Cardinality(V \ v) \in Nat /\ Cardinality(V \ next[v]) \in Nat
      BY <1>1, <3>1, <3>2
    <3> QED BY <3>1, <3>2, <3>3
  <2>5. Is(u, n + 1)
    <3> HIDE DEF Lv
    <3> QED BY <2>3, <2>4
  <2> HIDE DEF Is
  <2> QED BY <2>5
<1>5. Cardinality(V) \in T
  <2> HIDE DEF T
  <2> QED BY <1>3, <1>4, NumberInduction, FS_CardinalityType
<1>6. PICK h : Is(h, Cardinality(V))
  BY <1>5
<1>7. Lv(Cardinality(V)) = SUBSET V
  BY <1>1
<1> HIDE DEF Lv
<1> QED BY <1>6, <1>7, Zenon DEF LoopsTo

\* And what it ends with is in Q, if the rounds lead there.
LEMMA LoopEnds ==
  ASSUME NEW V, IsFiniteSet(V), NEW stop, NEW next, NEW out, Loops(V, stop, next),
         NEW g, LoopsTo(g, V, stop, next, out), NEW P, NEW Q, Leads(P, Q, V, stop, next, out)
  PROVE  \A v \in P : g[v] \in Q
<1> DEFINE T == {s \in SUBSET V : \A v \in P : V \ v \subseteq s => g[v] \in Q}
<1>1. ASSUME NEW s \in SUBSET V, \A u \in SUBSET s : u # s => u \in T
      PROVE  s \in T
  <2> SUFFICES ASSUME NEW v \in P, V \ v \subseteq s PROVE g[v] \in Q
    OBVIOUS
  <2>1. v \in SUBSET V /\ g[v] = IF v \in stop THEN out[v] ELSE g[next[v]]
    BY DEF LoopsTo, Leads
  <2>2. CASE v \in stop
    BY <2>1, <2>2 DEF Leads
  <2>3. CASE v \notin stop
    <3>1. next[v] \in P /\ next[v] \in SUBSET V /\ v \subseteq next[v] /\ next[v] # v
      BY <2>1, <2>3 DEF Leads, Loops
    <3>2. V \ next[v] \in SUBSET s /\ V \ next[v] # s
      BY <2>1, <3>1
    <3>3. V \ next[v] \in T
      BY <1>1, <3>2
    <3> QED BY <2>1, <2>3, <3>1, <3>3
  <2> QED BY <2>2, <2>3
<1>2. V \in T
  <2> HIDE DEF T
  <2> QED BY <1>1, FiniteInduction, Zenon
<1> QED BY <1>2 DEF Leads

-----------------------------------------------------------------------------
(* The void of a view.                                                     *)

\* Nothing that voids reaches K: no strike, no absence, no lost add, no lost key.
Spares(base, V, strikes, K) ==
  /\ V \subseteq DOMAIN ops /\ DOMAIN strikes \subseteq V
  /\ \A d \in DOMAIN strikes : strikes[d] \subseteq V /\ strikes[d] \cap K = {}
  /\ \A o \in K : /\ \A v \in SUBSET V : ActiveBefore(base, V, v, o)
                  /\ ops[o].act # "add"
                  /\ \A a \in V : ops[a].act = "add" => ops[a].target # ops[o].author

\* The voids above one, none of K added; and those of them that what stands strikes.
Above(V, K, void) == {r \in SUBSET V : void \subseteq r /\ r \cap K \subseteq void}
Struck(V, K, strikes, void) ==
  {r \in Above(V, K, void) : \A d \in DOMAIN strikes : d \notin r => strikes[d] \subseteq r}

\* The strikes and the absences, until neither adds anything.
LEMMA RulesFixIs ==
  ASSUME HistoryOK(ops), NEW base, NEW V, NEW K, NEW strikes, Spares(base, V, strikes, K),
         NEW void \in SUBSET V
  PROVE  RulesFix(base, V, strikes, void) \in Struck(V, K, strikes, void)
<1> DEFINE Nx(v) == PresencePass(base, V, StrikePass(strikes, v))
           stop == {v \in SUBSET V : Nx(v) = v}
           next == [v \in SUBSET V |-> Nx(v)]
           out == [v \in SUBSET V |-> v]
           Is(h) == h = [v \in SUBSET V |-> IF Nx(v) = v THEN v ELSE h[Nx(v)]]
           k == CHOOSE h : Is(h)
           P == Above(V, K, void)
           Q == Struck(V, K, strikes, void)
<1>1. IsFiniteSet(V)
  BY FS_Subset DEF HistoryOK, Spares
<1>2. ASSUME NEW v \in SUBSET V
      PROVE  /\ Nx(v) \in SUBSET V /\ v \subseteq Nx(v) /\ Nx(v) \cap K \subseteq v
             /\ Nx(v) = v => \A d \in DOMAIN strikes : d \notin v => strikes[d] \subseteq v
  <2> DEFINE s == StrikePass(strikes, v)
  <2>0. /\ V \subseteq DOMAIN ops /\ DOMAIN strikes \subseteq V
        /\ \A d \in DOMAIN strikes : strikes[d] \subseteq V /\ strikes[d] \cap K = {}
        /\ \A o \in K : \A w \in SUBSET V : ActiveBefore(base, V, w, o)
    BY DEF Spares
  <2>1. /\ s \in SUBSET V /\ v \subseteq s /\ s \cap K \subseteq v
        /\ s = v => \A d \in DOMAIN strikes : d \notin v => strikes[d] \subseteq v
    BY <2>0, StrikePassIs
  <2>2. Nx(v) \in SUBSET V /\ s \subseteq Nx(v) /\ Nx(v) \cap K \subseteq s
    <3> HIDE DEF s
    <3>1. PresencePass(base, V, s) \in SUBSET V /\ s \subseteq PresencePass(base, V, s)
          /\ PresencePass(base, V, s) \cap K \subseteq s
      BY <2>0, <2>1, PresencePassIs
    <3> QED BY <3>1 DEF s
  <2> HIDE DEF s, Nx
  <2> QED BY <2>1, <2>2
<1>3. Loops(V, stop, next)
  <2>1. \A v \in SUBSET V : v \notin stop <=> Nx(v) # v
    OBVIOUS
  <2>2. \A v \in SUBSET V : next[v] = Nx(v)
    OBVIOUS
  <2> HIDE DEF Nx, next, stop
  <2> QED BY <1>2, <2>1, <2>2 DEF Loops
<1>4. \A h : LoopsTo(h, V, stop, next, out) <=> Is(h)
  <2> TAKE h
  <2>1. [v \in SUBSET V |-> IF v \in stop THEN out[v] ELSE h[next[v]]]
          = [v \in SUBSET V |-> IF Nx(v) = v THEN v ELSE h[Nx(v)]]
    <3> HIDE DEF Nx
    <3> QED OBVIOUS
  <2> HIDE DEF Nx, stop, next, out
  <2> QED BY <2>1 DEF LoopsTo
<1>5. Is(k)
  <2>1. \E h : LoopsTo(h, V, stop, next, out)
    <3> HIDE DEF stop, next, out
    <3> QED BY <1>1, <1>3, LoopExists
  <2> HIDE DEF Is, stop, next, out
  <2> QED BY <1>4, <2>1
<1>6. RulesFix(base, V, strikes, void) = k[void]
  BY Zenon DEF RulesFix
<1>7. Leads(P, Q, V, stop, next, out)
  <2>1. ASSUME NEW v \in P PROVE IF v \in stop THEN out[v] \in Q ELSE next[v] \in P
    <3>1. v \in SUBSET V /\ void \subseteq v /\ v \cap K \subseteq void
      BY DEF Above
    <3>2. (v \in stop <=> Nx(v) = v) /\ out[v] = v /\ next[v] = Nx(v)
      BY <3>1
    <3> HIDE DEF Nx, stop, next, out
    <3> QED BY <1>2, <3>1, <3>2 DEF Above, Struck
  <2> HIDE DEF Nx, stop, next, out, Q
  <2> QED BY <2>1 DEF Leads, Above
<1>8. void \in P
  BY DEF Above
<1>9. LoopsTo(k, V, stop, next, out)
  <2> HIDE DEF stop, next, out, k, Is
  <2> QED BY <1>4, <1>5
<1>10. k[void] \in Q
  <2> HIDE DEF stop, next, out, k, P, Q
  <2> QED BY <1>1, <1>3, <1>7, <1>8, <1>9, LoopEnds
<1> HIDE DEF k
<1> QED BY <1>6, <1>10

\* No add stands beside a removal of the same member.
LEMMA StrongRemoveIs ==
  ASSUME HistoryOK(ops), NEW base, NEW V, NEW K, NEW strikes, Spares(base, V, strikes, K),
         NEW A, NEW void \in SUBSET V
  PROVE  /\ StrongRemove(base, V, A, strikes, void) \in Struck(V, K, strikes, void)
         /\ LostAdds(V, A, StrongRemove(base, V, A, strikes, void)) = {}
<1> DEFINE Settled(v) == RulesFix(base, V, strikes, v)
           Lost(v) == LostAdds(V, A, Settled(v))
           stop == {v \in SUBSET V : Lost(v) = {}}
           next == [v \in SUBSET V |-> Settled(v) \cup Lost(v)]
           out == [v \in SUBSET V |-> Settled(v)]
           Is(h) == h = [v \in SUBSET V |->
                           IF Lost(v) = {} THEN Settled(v) ELSE h[Settled(v) \cup Lost(v)]]
           k == CHOOSE h : Is(h)
           P == Above(V, K, void)
           Q == {r \in Struck(V, K, strikes, void) : LostAdds(V, A, r) = {}}
<1>1. IsFiniteSet(V)
  BY FS_Subset DEF HistoryOK, Spares
<1>2. ASSUME NEW v \in SUBSET V
      PROVE  /\ Settled(v) \in Struck(V, K, strikes, v)
             /\ Lost(v) \subseteq V \ Settled(v) /\ Lost(v) \cap K = {}
  <2>1. Settled(v) \in Struck(V, K, strikes, v)
    BY RulesFixIs
  <2> HIDE DEF Settled
  <2>2. Lost(v) \subseteq V \ Settled(v) /\ Lost(v) \cap K = {}
    BY DEF LostAdds, Spares
  <2> QED BY <2>1, <2>2
<1>3. Loops(V, stop, next)
  <2>1. ASSUME NEW v \in SUBSET V, v \notin stop
        PROVE  next[v] \in SUBSET V /\ v \subseteq next[v] /\ next[v] # v
    <3>1. Lost(v) # {} /\ next[v] = Settled(v) \cup Lost(v)
      BY <2>1
    <3> HIDE DEF Settled, Lost, next, stop
    <3> QED BY <1>2, <3>1 DEF Struck, Above
  <2> HIDE DEF next, stop
  <2> QED BY <2>1 DEF Loops
<1>4. \A h : LoopsTo(h, V, stop, next, out) <=> Is(h)
  <2> TAKE h
  <2>1. [v \in SUBSET V |-> IF v \in stop THEN out[v] ELSE h[next[v]]]
          = [v \in SUBSET V |-> IF Lost(v) = {} THEN Settled(v) ELSE h[Settled(v) \cup Lost(v)]]
    <3> HIDE DEF Lost, Settled
    <3> QED OBVIOUS
  <2> HIDE DEF Lost, Settled, stop, next, out
  <2> QED BY <2>1 DEF LoopsTo
<1>5. Is(k)
  <2>1. \E h : LoopsTo(h, V, stop, next, out)
    <3> HIDE DEF stop, next, out
    <3> QED BY <1>1, <1>3, LoopExists
  <2> HIDE DEF Is, stop, next, out
  <2> QED BY <1>4, <2>1
<1>6. StrongRemove(base, V, A, strikes, void) = k[void]
  BY Zenon DEF StrongRemove
<1>7. Leads(P, Q, V, stop, next, out)
  <2>1. ASSUME NEW v \in P PROVE IF v \in stop THEN out[v] \in Q ELSE next[v] \in P
    <3>1. v \in SUBSET V /\ void \subseteq v /\ v \cap K \subseteq void
      BY DEF Above
    <3>2. (v \in stop <=> Lost(v) = {}) /\ out[v] = Settled(v) /\ next[v] = Settled(v) \cup Lost(v)
      BY <3>1
    <3>3. /\ Settled(v) \in SUBSET V /\ v \subseteq Settled(v) /\ Settled(v) \cap K \subseteq v
          /\ \A d \in DOMAIN strikes : d \notin Settled(v) => strikes[d] \subseteq Settled(v)
      <4> HIDE DEF Settled, Lost
      <4> QED BY <1>2, <3>1 DEF Above, Struck
    <3>4. Lost(v) = LostAdds(V, A, Settled(v)) /\ Lost(v) \subseteq V /\ Lost(v) \cap K = {}
      <4>1. Lost(v) \subseteq V \ Settled(v) /\ Lost(v) \cap K = {}
        BY <1>2, <3>1
      <4> QED BY <4>1
    <3> HIDE DEF Settled, Lost, stop, next, out
    <3> QED BY <3>1, <3>2, <3>3, <3>4 DEF Above, Struck
  <2> HIDE DEF stop, next, out, Q
  <2> QED BY <2>1 DEF Leads, Above
<1>8. void \in P
  BY DEF Above
<1>9. LoopsTo(k, V, stop, next, out)
  <2> HIDE DEF stop, next, out, k, Is
  <2> QED BY <1>4, <1>5
<1>10. k[void] \in Q
  <2> HIDE DEF stop, next, out, k, P, Q
  <2> QED BY <1>1, <1>3, <1>7, <1>8, <1>9, LoopEnds
<1> HIDE DEF k
<1> QED BY <1>6, <1>10

\* What falls with the add that registered its author's key.
LEMMA KeyTaintIs ==
  ASSUME HistoryOK(ops), NEW base, NEW V, NEW K, NEW strikes, Spares(base, V, strikes, K),
         NEW A \in SUBSET V, NEW void \in SUBSET V
  PROVE  KeyTaint(V, A, void) \in Above(V, K, void)
<1> DEFINE Adds(o) == {a \in ops[o].past \cap V \cap A :
                         ops[a].act = "add" /\ ops[a].target = ops[o].author}
           Fallen(v) == {o \in A \ v : Adds(o) # {} /\ LastOf(Adds(o)) \in v}
           stop == {v \in SUBSET V : Fallen(v) = {}}
           next == [v \in SUBSET V |-> v \cup Fallen(v)]
           out == [v \in SUBSET V |-> v]
           Is(h) == h = [v \in SUBSET V |-> IF Fallen(v) = {} THEN v ELSE h[v \cup Fallen(v)]]
           k == CHOOSE h : Is(h)
           P == Above(V, K, void)
<1>1. IsFiniteSet(V)
  BY FS_Subset DEF HistoryOK, Spares
<1>2. ASSUME NEW v \in SUBSET V
      PROVE  Fallen(v) \subseteq V \ v /\ Fallen(v) \cap K = {}
  <2>1. \A o \in K : Adds(o) = {}
    BY DEF Spares
  <2> HIDE DEF Adds
  <2> QED BY <2>1
<1>3. Loops(V, stop, next)
  <2>1. ASSUME NEW v \in SUBSET V, v \notin stop
        PROVE  next[v] \in SUBSET V /\ v \subseteq next[v] /\ next[v] # v
    <3>1. Fallen(v) # {} /\ next[v] = v \cup Fallen(v)
      BY <2>1
    <3> HIDE DEF Fallen, next, stop
    <3> QED BY <1>2, <3>1
  <2> HIDE DEF next, stop
  <2> QED BY <2>1 DEF Loops
<1>4. \A h : LoopsTo(h, V, stop, next, out) <=> Is(h)
  <2> TAKE h
  <2>1. [v \in SUBSET V |-> IF v \in stop THEN out[v] ELSE h[next[v]]]
          = [v \in SUBSET V |-> IF Fallen(v) = {} THEN v ELSE h[v \cup Fallen(v)]]
    <3> HIDE DEF Fallen
    <3> QED OBVIOUS
  <2> HIDE DEF Fallen, stop, next, out
  <2> QED BY <2>1 DEF LoopsTo
<1>5. Is(k)
  <2>1. \E h : LoopsTo(h, V, stop, next, out)
    <3> HIDE DEF stop, next, out
    <3> QED BY <1>1, <1>3, LoopExists
  <2> HIDE DEF Is, stop, next, out
  <2> QED BY <1>4, <2>1
<1>6. KeyTaint(V, A, void) = k[void]
  BY Zenon DEF KeyTaint
<1>7. Leads(P, P, V, stop, next, out)
  <2>1. ASSUME NEW v \in P PROVE IF v \in stop THEN out[v] \in P ELSE next[v] \in P
    <3>1. v \in SUBSET V /\ void \subseteq v /\ v \cap K \subseteq void
      BY DEF Above
    <3>2. (v \in stop <=> Fallen(v) = {}) /\ out[v] = v /\ next[v] = v \cup Fallen(v)
      BY <3>1
    <3>3. Fallen(v) \subseteq V /\ Fallen(v) \cap K = {}
      <4>1. Fallen(v) \subseteq V \ v /\ Fallen(v) \cap K = {}
        BY <1>2, <3>1
      <4> QED BY <4>1
    <3> HIDE DEF Fallen, stop, next, out
    <3> QED BY <3>1, <3>2, <3>3 DEF Above
  <2> HIDE DEF stop, next, out
  <2> QED BY <2>1 DEF Leads, Above
<1>8. void \in P
  BY DEF Above
<1>9. LoopsTo(k, V, stop, next, out)
  <2> HIDE DEF stop, next, out, k, Is
  <2> QED BY <1>4, <1>5
<1>10. k[void] \in P
  <2> HIDE DEF stop, next, out, k, P
  <2> QED BY <1>1, <1>3, <1>7, <1>8, <1>9, LoopEnds
<1> HIDE DEF k
<1> QED BY <1>6, <1>10

\* The rules together.
LEMMA VoidFixIs ==
  ASSUME HistoryOK(ops), NEW base, NEW V, NEW K, NEW strikes, Spares(base, V, strikes, K),
         NEW A \in SUBSET V, NEW void \in SUBSET V
  PROVE  /\ VoidFix(base, V, A, strikes, void) \in Struck(V, K, strikes, void)
         /\ LostAdds(V, A, VoidFix(base, V, A, strikes, void)) = {}
<1> DEFINE Nx(v) == StrongRemove(base, V, A, strikes, KeyTaint(V, A, v))
           stop == {v \in SUBSET V : Nx(v) = v}
           next == [v \in SUBSET V |-> Nx(v)]
           out == [v \in SUBSET V |-> v]
           Is(h) == h = [v \in SUBSET V |-> IF Nx(v) = v THEN v ELSE h[Nx(v)]]
           k == CHOOSE h : Is(h)
           P == Above(V, K, void)
           Q == {r \in Struck(V, K, strikes, void) : LostAdds(V, A, r) = {}}
<1>1. IsFiniteSet(V)
  BY FS_Subset DEF HistoryOK, Spares
<1>2. ASSUME NEW v \in SUBSET V
      PROVE  /\ Nx(v) \in SUBSET V /\ v \subseteq Nx(v) /\ Nx(v) \cap K \subseteq v
             /\ \A d \in DOMAIN strikes : d \notin Nx(v) => strikes[d] \subseteq Nx(v)
             /\ LostAdds(V, A, Nx(v)) = {}
  <2> DEFINE s == KeyTaint(V, A, v)
  <2>1. s \in SUBSET V /\ v \subseteq s /\ s \cap K \subseteq v
    BY KeyTaintIs DEF Above
  <2>2. Nx(v) \in Struck(V, K, strikes, s) /\ LostAdds(V, A, Nx(v)) = {}
    <3> HIDE DEF s
    <3>1. /\ StrongRemove(base, V, A, strikes, s) \in Struck(V, K, strikes, s)
          /\ LostAdds(V, A, StrongRemove(base, V, A, strikes, s)) = {}
      BY <2>1, StrongRemoveIs
    <3> QED BY <3>1 DEF s
  <2>3. /\ Nx(v) \in SUBSET V /\ s \subseteq Nx(v) /\ Nx(v) \cap K \subseteq s
        /\ \A d \in DOMAIN strikes : d \notin Nx(v) => strikes[d] \subseteq Nx(v)
    <3> HIDE DEF s, Nx
    <3> QED BY <2>2 DEF Struck, Above
  <2> HIDE DEF s, Nx
  <2> QED BY <2>1, <2>2, <2>3
<1>3. Loops(V, stop, next)
  <2>1. \A v \in SUBSET V : v \notin stop <=> Nx(v) # v
    OBVIOUS
  <2>2. \A v \in SUBSET V : next[v] = Nx(v)
    OBVIOUS
  <2> HIDE DEF Nx, next, stop
  <2> QED BY <1>2, <2>1, <2>2 DEF Loops
<1>4. \A h : LoopsTo(h, V, stop, next, out) <=> Is(h)
  <2> TAKE h
  <2>1. [v \in SUBSET V |-> IF v \in stop THEN out[v] ELSE h[next[v]]]
          = [v \in SUBSET V |-> IF Nx(v) = v THEN v ELSE h[Nx(v)]]
    <3> HIDE DEF Nx
    <3> QED OBVIOUS
  <2> HIDE DEF Nx, stop, next, out
  <2> QED BY <2>1 DEF LoopsTo
<1>5. Is(k)
  <2>1. \E h : LoopsTo(h, V, stop, next, out)
    <3> HIDE DEF stop, next, out
    <3> QED BY <1>1, <1>3, LoopExists
  <2> HIDE DEF Is, stop, next, out
  <2> QED BY <1>4, <2>1
<1>6. VoidFix(base, V, A, strikes, void) = k[void]
  BY Zenon DEF VoidFix
<1>7. Leads(P, Q, V, stop, next, out)
  <2>1. ASSUME NEW v \in P PROVE IF v \in stop THEN out[v] \in Q ELSE next[v] \in P
    <3>1. v \in SUBSET V /\ void \subseteq v /\ v \cap K \subseteq void
      BY DEF Above
    <3>2. (v \in stop <=> Nx(v) = v) /\ out[v] = v /\ next[v] = Nx(v)
      BY <3>1
    <3> HIDE DEF Nx, stop, next, out
    <3> QED BY <1>2, <3>1, <3>2 DEF Above, Struck
  <2> HIDE DEF Nx, stop, next, out, Q
  <2> QED BY <2>1 DEF Leads, Above
<1>8. void \in P
  BY DEF Above
<1>9. LoopsTo(k, V, stop, next, out)
  <2> HIDE DEF stop, next, out, k, Is
  <2> QED BY <1>4, <1>5
<1>10. k[void] \in Q
  <2> HIDE DEF stop, next, out, k, P, Q
  <2> QED BY <1>1, <1>3, <1>7, <1>8, <1>9, LoopEnds
<1> HIDE DEF k
<1> QED BY <1>6, <1>10

\* What a view ignores: the unauthorized operations, and what the founder's removals
\* and demotions strike, but none of those; and every add beside such a removal.
LEMMA IgnoredIs ==
  ASSUME HistoryOK(ops), NEW base \in States, NEW V, V \subseteq DOMAIN ops
  PROVE  LET W == Ignored(base, V)
             A == AuthorizedIn(base, V)
         IN  /\ A \subseteq V /\ W \subseteq V /\ V \ A \subseteq W
             /\ \A r \in V : Sure(r) => r \in A \ W /\ Strikes(base, V, A)[r] \subseteq W
             /\ LostAdds(V, A, W) = {}
<1> DEFINE A == AuthorizedIn(base, V)
           K == {o \in V : Sure(o)}
           strikes == Strikes(base, V, A)
           W == VoidFix(base, V, A, strikes, V \ A)
<1>1. A \subseteq V /\ K \subseteq A
  BY AuthorizedIs
<1> HIDE DEF A
<1>2. DOMAIN strikes = {o \in A : ops[o].act \in {"remove", "role"}}
  BY DEF Strikes
<1>3. ASSUME NEW d \in DOMAIN strikes
      PROVE  \A o \in strikes[d] : o \in V /\ ops[o].author = ops[d].target
  <2>1. d \in A /\ strikes[d] = IF ops[d].act = "remove"
            THEN {o \in V : ops[o].author = ops[d].target /\ Concurrent(o, d)}
            ELSE Demoted(base, V, A, d)
    BY <1>2 DEF Strikes
  <2> HIDE DEF strikes
  <2> QED BY <2>1 DEF Demoted
<1>4. \A d \in DOMAIN strikes : strikes[d] \subseteq V /\ strikes[d] \cap K = {}
  <2> TAKE d \in DOMAIN strikes
  <2>1. ops[d].target # Founder
    <3> HIDE DEF strikes
    <3> QED BY <1>1, <1>2 DEF HistoryOK
  <2> HIDE DEF strikes
  <2> QED BY <1>3, <2>1 DEF Sure
<1>5. ASSUME NEW o \in K, NEW v \in SUBSET V PROVE ActiveBefore(base, V, v, o)
  <2>1. \A e \in V : ops[e].act \in {"add", "remove"} => ops[e].target # ops[o].author
    BY DEF HistoryOK, Sure
  <2>2. base[ops[o].author].active
    BY DEF Sure, States, Sound
  <2>3. {e \in (ops[o].past \cap V) \ v : ops[e].act \in {"add", "remove"} /\ ops[e].target = ops[o].author} = {}
    BY <2>1
  <2> HIDE DEF K
  <2> QED BY <2>2, <2>3 DEF ActiveBefore
<1>6. Spares(base, V, strikes, K)
  <2>1. \A o \in K : /\ ops[o].act # "add"
                     /\ \A a \in V : ops[a].act = "add" => ops[a].target # ops[o].author
    BY DEF HistoryOK, Sure
  <2>2. V \subseteq DOMAIN ops /\ DOMAIN strikes \subseteq V
    BY <1>1, <1>2
  <2> HIDE DEF K, strikes
  <2> QED BY <1>4, <1>5, <2>1, <2>2 DEF Spares
<1>7. W \in Struck(V, K, strikes, V \ A) /\ LostAdds(V, A, W) = {}
  <2>1. V \ A \in SUBSET V /\ A \in SUBSET V
    BY <1>1
  <2> HIDE DEF K, strikes
  <2> QED BY <1>6, <2>1, VoidFixIs
<1>8. Ignored(base, V) = W
  BY DEF Ignored, IgnoredBeside, A
<1>9. /\ W \subseteq V /\ V \ A \subseteq W /\ W \cap K \subseteq V \ A
      /\ \A d \in DOMAIN strikes : d \notin W => strikes[d] \subseteq W
  <2> HIDE DEF K, strikes, W
  <2> QED BY <1>7 DEF Struck, Above
<1>10. \A r \in V : Sure(r) => r \in A \ W /\ strikes[r] \subseteq W
  <2> SUFFICES ASSUME NEW r \in V, Sure(r) PROVE r \in A \ W /\ strikes[r] \subseteq W
    OBVIOUS
  <2>1. r \in K /\ r \in A /\ ops[r].act \in {"remove", "role"}
    BY <1>1 DEF Sure
  <2>2. r \in DOMAIN strikes
    BY <1>2, <2>1
  <2> HIDE DEF strikes, W, K
  <2> QED BY <1>1, <1>9, <2>1, <2>2
<1> HIDE DEF W, strikes
<1>11. LET w == W IN
       /\ A \subseteq V /\ w \subseteq V /\ V \ A \subseteq w
       /\ \A r \in V : Sure(r) => r \in A \ w /\ strikes[r] \subseteq w
       /\ LostAdds(V, A, w) = {}
  BY <1>1, <1>7, <1>9, <1>10
<1> QED BY <1>8, <1>11 DEF A, strikes

-----------------------------------------------------------------------------
(* The walk.                                                               *)

\* A set of operations has one whose parents are not in it.
LEMMA ReadyExists ==
  ASSUME HistoryOK(ops), NEW S, S \subseteq DOMAIN ops, S # {}
  PROVE  \E o \in S : ops[o].past \cap S = {}
<1> DEFINE D == {ops[o].depth : o \in S}
<1>1. D \subseteq Int /\ D # {}
  BY DEF HistoryOK
<1>2. IsFiniteSet(D)
  <2> DEFINE f == [o \in S |-> ops[o].depth]
  <2>1. f \in Surjection(S, D)
    BY DEF Surjection
  <2>2. IsFiniteSet(S)
    BY FS_Subset DEF HistoryOK
  <2> HIDE DEF f, D
  <2> QED BY <2>1, <2>2, FS_Surjection
<1>3. PICK d \in D : \A e \in D : d <= e
  <2> HIDE DEF D
  <2> QED BY <1>1, <1>2, IntegerBounds, Zenon
<1>4. PICK o \in S : ops[o].depth = d
  OBVIOUS
<1>5. \A p \in ops[o].past \cap S : ops[p].depth < d /\ d <= ops[p].depth
  BY <1>3, <1>4 DEF HistoryOK
<1>6. \A p \in S : ops[p].depth \in Int /\ d \in Int
  BY <1>1
<1>7. ops[o].past \cap S = {}
  BY <1>5, <1>6
<1> QED BY <1>7

\* A removal by the founder that is not skipped, and no add of whom it removed beside
\* it or after it that is not skipped.
StaysOut(V, skip, r) ==
  /\ Sure(r) /\ ops[r].act = "remove" /\ r \notin skip
  /\ \A a \in V \ skip : ops[a].act = "add" /\ ops[a].target = ops[r].target => a \in ops[r].past

\* How far a walk has come: its state, and what it has still to do.
Walked(V, skip, st, todo) ==
  /\ st \in States /\ todo \in SUBSET V
  /\ \A p \in V \ todo : ops[p].past \cap todo = {}
  /\ \A r \in V \ todo : StaysOut(V, skip, r) => ~st[ops[r].target].active
Stepped(skip, st, o) ==
  IF o \notin skip /\ Authorized(st, ops[o]) /\ HasEffect(st, ops[o]) THEN Apply(st, ops[o]) ELSE st

\* One step of the walk.
LEMMA WalkStep ==
  ASSUME HistoryOK(ops), NEW V, V \subseteq DOMAIN ops, NEW skip, NEW st, NEW todo,
         Walked(V, skip, st, todo), NEW o \in todo, ops[o].past \cap todo = {}
  PROVE  Walked(V, skip, Stepped(skip, st, o), todo \ {o})
<1> DEFINE runs == o \notin skip /\ Authorized(st, ops[o]) /\ HasEffect(st, ops[o])
           applied == Apply(st, ops[o])
           u == Stepped(skip, st, o)
<1>0. /\ st \in States /\ todo \in SUBSET V /\ o \in V
      /\ \A p \in V \ todo : ops[p].past \cap todo = {}
      /\ \A r \in V \ todo : StaysOut(V, skip, r) => ~st[ops[r].target].active
      /\ u = IF runs THEN applied ELSE st
  BY DEF Walked, Stepped
<1>1. ASSUME Authorized(st, ops[o])
      PROVE  /\ applied \in States
             /\ \A m \in Members : applied[m].active /\ ~st[m].active =>
                  ops[o].act = "add" /\ ops[o].target = m
             /\ ops[o].act = "remove" => ~applied[ops[o].target].active
  BY <1>0, <1>1, ApplyIs, AllowedIsLawful
<1> HIDE DEF u
<1>2. u \in States
  BY <1>0, <1>1
<1>3. \A p \in V \ (todo \ {o}) : ops[p].past \cap (todo \ {o}) = {}
  BY <1>0
<1>4. ASSUME NEW r \in V \ (todo \ {o}), StaysOut(V, skip, r), u[ops[r].target].active
      PROVE  FALSE
  <2> DEFINE t == ops[r].target
  <2>0. t \in Members /\ Sure(r) /\ ops[r].act = "remove" /\ r \notin skip
    BY <1>0, <1>4 DEF HistoryOK, StaysOut
  <2>1. CASE r = o
    <3>1. Authorized(st, ops[o])
      BY <1>0, <2>0, <2>1, SureIsAuthorized
    <3>2. ~HasEffect(st, ops[o]) => applied = st
      BY DEF Apply
    <3>3. u = applied
      <4> HIDE DEF applied
      <4> QED BY <1>0, <2>0, <2>1, <3>1, <3>2
    <3> QED BY <1>1, <1>4, <2>0, <2>1, <3>1, <3>3
  <2>2. CASE r # o
    <3>1. r \in V \ todo /\ ~st[t].active
      BY <1>0, <1>4, <2>2
    <3>2. runs /\ applied[t].active
      <4> HIDE DEF runs, applied, t
      <4> QED BY <1>0, <1>4, <3>1 DEF t
    <3>3. ops[o].act = "add" /\ ops[o].target = t /\ o \in V \ skip
      <4>1. ops[o].act = "add" /\ ops[o].target = t
        <5>1. Authorized(st, ops[o])
          BY <3>2
        <5> HIDE DEF applied, t, runs
        <5> QED BY <1>1, <2>0, <3>1, <3>2, <5>1
      <4> QED BY <1>0, <3>2, <4>1
    <3>4. o \in ops[r].past
      BY <1>4, <3>3 DEF StaysOut
    <3> QED BY <1>0, <3>1, <3>4
  <2> QED BY <2>1, <2>2
<1> QED BY <1>0, <1>2, <1>3, <1>4 DEF u, Walked

\* Where the walk ends.
LEMMA WalkIs ==
  ASSUME HistoryOK(ops), NEW base \in States, NEW V, V \subseteq DOMAIN ops, NEW skip
  PROVE  LET w == Walk(base, V, skip)
         IN  /\ w.state \in States /\ w.effective \subseteq V \ skip
             /\ \A r \in V : StaysOut(V, skip, r) => ~w.state[ops[r].target].active
<1> DEFINE N == Cardinality(V)
           Ready(todo) == {o \in todo : ops[o].past \cap todo = {}}
           Pick(todo) == CHOOSE x \in Ready(todo) : \A y \in Ready(todo) : x <= y
           Runs(acc, o) == /\ o \notin skip
                           /\ Authorized(acc.state, ops[o])
                           /\ HasEffect(acc.state, ops[o])
           After(acc, o) ==
             [state     |-> IF Runs(acc, o) THEN Apply(acc.state, ops[o]) ELSE acc.state,
              effective |-> acc.effective \cup (IF Runs(acc, o) THEN {o} ELSE {}),
              todo      |-> acc.todo \ {o}]
           Nx(acc) == After(acc, Pick(acc.todo))
           First == [state |-> base, effective |-> {}, todo |-> V]
           Is(h, m) == h = [n \in 0 .. m |-> IF n = 0 THEN First ELSE Nx(h[n - 1])]
           k == CHOOSE h : Is(h, N)
<1>1. IsFiniteSet(V) /\ N \in Nat
  BY FS_Subset, FS_CardinalityType DEF HistoryOK
<1>2. \E h : Is(h, N)
  <2> DEFINE T == {m \in Nat : \E h : Is(h, m)}
  <2>1. 0 \in T
    <3> DEFINE h == [n \in 0 .. 0 |-> First]
    <3>1. Is(h, 0)
      <4> HIDE DEF First, Nx
      <4> QED OBVIOUS
    <3> HIDE DEF Is
    <3> QED BY <3>1
  <2>2. ASSUME NEW m \in Nat, m \in T PROVE m + 1 \in T
    <3>1. PICK h : Is(h, m)
      BY <2>2
    <3> DEFINE u == [n \in 0 .. m + 1 |-> IF n = 0 THEN First ELSE Nx(h[n - 1])]
    <3>2. \A n \in 0 .. m : u[n] = h[n]
      <4> HIDE DEF First, Nx
      <4> QED BY <3>1
    <3>3. \A n \in 0 .. m + 1 : n # 0 => n - 1 \in 0 .. m
      OBVIOUS
    <3>4. Is(u, m + 1)
      <4> HIDE DEF First, Nx
      <4> QED BY <3>2, <3>3
    <3> HIDE DEF Is
    <3> QED BY <3>4
  <2>3. N \in T
    <3> HIDE DEF T, N
    <3> QED BY <1>1, <2>1, <2>2, NumberInduction
  <2> QED BY <2>3
<1>3. \A n \in 0 .. N : k[n] = IF n = 0 THEN First ELSE Nx(k[n - 1])
  <2>1. Is(k, N)
    <3> HIDE DEF Is, N
    <3> QED BY <1>2
  <2> HIDE DEF k, Nx, First, N
  <2> QED BY <2>1
<1>4. Walk(base, V, skip) = k[N]
  BY Zenon DEF Walk
<1> DEFINE Good(acc) == Walked(V, skip, acc.state, acc.todo) /\ acc.effective \subseteq V \ skip
           Claim(n) == Good(k[n]) /\ Cardinality(k[n].todo) = N - n
           T == {n \in Nat : n <= N => Claim(n)}
<1>5. 0 \in T
  <2>1. Good(First) /\ First.todo = V
    BY DEF Walked
  <2>2. k[0] = First
    <3>1. 0 \in 0 .. N
      BY <1>1
    <3> HIDE DEF k, First, Nx, N
    <3> QED BY <1>3, <3>1
  <2> HIDE DEF k, First, Good
  <2> QED BY <1>1, <2>1, <2>2
<1>6. ASSUME NEW n \in Nat, n \in T PROVE n + 1 \in T
  <2> HIDE DEF Claim, N
  <2> SUFFICES ASSUME n + 1 <= N PROVE Claim(n + 1)
    OBVIOUS
  <2>0. Claim(n)
    BY <1>1, <1>6
  <2> USE DEF Claim
  <2> DEFINE acc == k[n]
             o == Pick(acc.todo)
  <2>1. Good(acc) /\ Cardinality(acc.todo) = N - n
    <3> HIDE DEF Good, k
    <3> QED BY <2>0
  <2>2. k[n + 1] = After(acc, o)
    <3>1. n + 1 \in 0 .. N /\ n + 1 # 0 /\ (n + 1) - 1 = n
      BY <1>1
    <3>2. k[n + 1] = Nx(k[(n + 1) - 1])
      <4> HIDE DEF k, Nx, First, N
      <4> QED BY <1>3, <3>1
    <3> HIDE DEF k, Pick, After, N
    <3> QED BY <3>1, <3>2
  <2> HIDE DEF k
  <2>3. /\ Walked(V, skip, acc.state, acc.todo) /\ acc.effective \subseteq V \ skip
        /\ acc.todo \in SUBSET V
    BY <2>1 DEF Walked
  <2> HIDE DEF acc
  <2>4. acc.todo # {} /\ IsFiniteSet(acc.todo)
    <3>1. Cardinality(acc.todo) # 0
      <4> HIDE DEF N, Good
      <4> QED BY <1>1, <2>1
    <3> QED BY <1>1, <2>3, <3>1, FS_EmptySet, FS_Subset
  <2>5. o \in acc.todo /\ ops[o].past \cap acc.todo = {}
    <3> DEFINE R == Ready(acc.todo)
    <3>1. R # {} /\ R \subseteq acc.todo
      BY <2>3, <2>4, ReadyExists
    <3>2. R \subseteq Int /\ IsFiniteSet(R)
      BY <2>3, <2>4, <3>1, FS_Subset DEF HistoryOK
    <3>3. \E x \in R : \A y \in R : x <= y
      <4> HIDE DEF R
      <4> QED BY <3>1, <3>2, IntegerBounds, Zenon
    <3>4. o \in R
      <4>1. o = CHOOSE x \in R : \A y \in R : x <= y
        OBVIOUS
      <4> HIDE DEF R, o
      <4> QED BY <3>3, <4>1
    <3> QED BY <3>4
  <2> HIDE DEF o
  <2> DEFINE u == Stepped(skip, acc.state, o)
             e == acc.effective \cup (IF Runs(acc, o) THEN {o} ELSE {})
  <2>6. Walked(V, skip, u, acc.todo \ {o})
    <3> HIDE DEF u
    <3> QED BY <2>3, <2>5, WalkStep DEF u
  <2>7. e \subseteq V \ skip
    BY <2>3, <2>5
  <2>8. After(acc, o) = [state |-> u, effective |-> e, todo |-> acc.todo \ {o}]
    BY DEF Stepped
  <2> HIDE DEF u, e, After
  <2>9. Good(After(acc, o)) /\ After(acc, o).todo = acc.todo \ {o}
    BY <2>3, <2>6, <2>7, <2>8
  <2>10. Cardinality(acc.todo \ {o}) = (N - n) - 1
    <3> HIDE DEF Good, N
    <3> QED BY <2>1, <2>4, <2>5, FS_RemoveElement
  <2> HIDE DEF Good, N
  <2> QED BY <1>1, <2>2, <2>9, <2>10
<1>7. N \in T
  <2> HIDE DEF T, N
  <2> QED BY <1>1, <1>5, <1>6, NumberInduction
<1> HIDE DEF k
<1>8. Good(k[N]) /\ Cardinality(k[N].todo) = 0
  <2> HIDE DEF Good
  <2> QED BY <1>1, <1>7
<1>9. k[N].todo = {}
  <2>1. k[N].todo \in SUBSET V
    BY <1>8 DEF Walked
  <2>2. IsFiniteSet(k[N].todo)
    BY <1>1, <2>1, FS_Subset
  <2> QED BY <1>8, <2>2, FS_EmptySet
<1> HIDE DEF N
<1> QED BY <1>4, <1>8, <1>9 DEF Walked

-----------------------------------------------------------------------------
(* What a view resolves to.                                                *)

\* Somebody who knew of the removal r adds whom it removed again, in V.
Back(H, V, r) == \E a \in V : H[a].act = "add" /\ H[a].target = H[r].target /\ r \in H[a].past
Undone(V, r) == Back(ops, V, r)

\* A removal by the founder stands unless undone by somebody who knew of it, and what
\* takes effect is authorized and not struck by the founder.
LEMMA ResolveIs ==
  ASSUME HistoryOK(ops), NEW V, V \subseteq DOMAIN ops
  PROVE  /\ Resolve(V).state \in States /\ Resolve(V).effective \subseteq V
         /\ \A r \in V : Sure(r) /\ ops[r].act = "remove" /\ ~Undone(V, r) =>
              ~Resolve(V).state[ops[r].target].active
         /\ \A o \in Resolve(V).effective :
              /\ o \in AuthorizedIn(Founding, V)
              /\ \A r \in V : Sure(r) => o \notin Strikes(Founding, V, AuthorizedIn(Founding, V))[r]
<1> DEFINE A == AuthorizedIn(Founding, V)
           W == Ignored(Founding, V)
           w == Walk(Founding, V, W)
           S == Strikes(Founding, V, A)
<1>1. /\ A \subseteq V /\ W \subseteq V /\ V \ A \subseteq W
      /\ \A r \in V : Sure(r) => r \in A \ W /\ S[r] \subseteq W
      /\ LostAdds(V, A, W) = {}
  BY FoundingIs, IgnoredIs
<1> HIDE DEF A, W, S
<1>2. /\ w.state \in States /\ w.effective \subseteq V \ W
      /\ \A r \in V : StaysOut(V, W, r) => ~w.state[ops[r].target].active
  BY FoundingIs, WalkIs
<1>3. Resolve(V) = w
  BY DEF Resolve, ResolveFrom, W
<1> HIDE DEF w
<1>4. ASSUME NEW r \in V, Sure(r), ops[r].act = "remove", ~Undone(V, r) PROVE StaysOut(V, W, r)
  <2> SUFFICES ASSUME NEW a \in V \ W, ops[a].act = "add", ops[a].target = ops[r].target,
                      a \notin ops[r].past
               PROVE  FALSE
    BY <1>1, <1>4 DEF StaysOut
  <2>1. r \notin ops[a].past
    BY <1>4 DEF Undone, Back
  <2>2. Concurrent(a, r)
    BY <1>4, <2>1 DEF Concurrent
  <2>3. r \in A \ W
    BY <1>1, <1>4
  <2>4. a \in LostAdds(V, A, W)
    BY <1>4, <2>2, <2>3 DEF LostAdds
  <2> QED BY <1>1, <2>4
<1>5. \A r \in V : Sure(r) /\ ops[r].act = "remove" /\ ~Undone(V, r) =>
        ~w.state[ops[r].target].active
  BY <1>2, <1>4
<1>6. \A o \in w.effective : o \in A /\ \A r \in V : Sure(r) => o \notin S[r]
  BY <1>1, <1>2
<1> QED BY <1>2, <1>3, <1>5, <1>6 DEF A, S

\* OwnersRemovalStands of any history.
LEMMA RemovalStands == ASSUME HistoryOK(ops) PROVE OwnersRemovalStands
<1> DEFINE now == Resolve(Everything)
<1>0. Everything = DOMAIN ops
  BY DEF Everything
<1> HIDE DEF now
<1> SUFFICES ASSUME NEW r \in Everything, ops[r].author = Founder, ops[r].act = "remove"
             PROVE  /\ {a \in Everything : ops[a].act = "add" /\ ops[a].target = ops[r].target
                                           /\ r \in ops[a].past} = {}
                       => ops[r].target \notin Active(now.state)
                    /\ \A o \in now.effective : ops[o].author = ops[r].target => ~Concurrent(o, r)
  BY DEF OwnersRemovalStands, Now, now
<1>1. Sure(r)
  BY DEF Sure, Lawful
<1>2. ASSUME {a \in Everything : ops[a].act = "add" /\ ops[a].target = ops[r].target
                                 /\ r \in ops[a].past} = {}
      PROVE  ops[r].target \notin Active(now.state)
  <2>1. ~Undone(Everything, r)
    BY <1>2 DEF Undone, Back
  <2> QED BY <1>0, <1>1, <2>1, ResolveIs DEF Active, now
<1>3. ASSUME NEW o \in now.effective, ops[o].author = ops[r].target, Concurrent(o, r)
      PROVE  FALSE
  <2> DEFINE A == AuthorizedIn(Founding, Everything)
             S == Strikes(Founding, Everything, A)
  <2>1. o \in Everything /\ o \notin S[r]
    BY <1>0, <1>1, <1>3, ResolveIs DEF now
  <2>2. r \in A
    BY <1>0, <1>1, AuthorizedIs, FoundingIs
  <2> HIDE DEF A
  <2>3. S[r] = {p \in Everything : ops[p].author = ops[r].target /\ Concurrent(p, r)}
    BY <2>2 DEF Strikes
  <2> QED BY <1>3, <2>1, <2>3
<1> QED BY <1>2, <1>3

\* DemotionDisarms of any history.
LEMMA Disarms == ASSUME HistoryOK(ops) PROVE DemotionDisarms
<1> DEFINE now == Resolve(Everything)
<1>0. Everything = DOMAIN ops
  BY DEF Everything
<1> HIDE DEF now
<1> SUFFICES ASSUME NEW d \in Everything, ops[d].author = Founder, ops[d].act = "role",
                    ops[d].role > CoOwner, NEW o \in now.effective,
                    ops[o].author = ops[d].target, Concurrent(o, d)
             PROVE  ops[o].act = "reseal" \/ ops[o].target = ops[o].author
  BY DEF DemotionDisarms, Now, now
<1> DEFINE A == AuthorizedIn(Founding, Everything)
           S == Strikes(Founding, Everything, A)
           t == ops[d].target
           st == FoldOps(Founding, ops[o].past \cap A)
           under == [st EXCEPT ![t].role = ops[d].role]
<1>1. Sure(d) /\ d \in A
  <2>1. Sure(d)
    BY DEF Sure, Lawful, Owner, CoOwner
  <2> QED BY <1>0, <2>1, AuthorizedIs, FoundingIs
<1>2. o \in Everything /\ o \in A /\ o \notin S[d]
  BY <1>0, <1>1, ResolveIs DEF now
<1>3. Authorized(st, ops[o])
  BY <1>0, <1>2, AuthorizedIs, FoundingIs DEF Judged
<1>4. st \in States /\ t \in Members
  <2>1. ops[o].past \cap A \subseteq DOMAIN ops
    BY <1>0, AuthorizedIs, FoundingIs
  <2> HIDE DEF A
  <2>2. st \in States
    <3>1. \A p \in ops[o].past \cap A : Lawful(p)
      BY <1>0, AuthorizedIs, AllowedIsLawful, FoundingIs DEF A, Judged
    <3> QED BY <2>1, <3>1, FoldIs, FoundingIs
  <2> QED BY <1>0, <2>2 DEF HistoryOK
<1> HIDE DEF A
<1>5. S[d] = Demoted(Founding, Everything, A, d)
  BY <1>1 DEF Strikes
<1> HIDE DEF S, st
<1>6. st[t].active /\ st[t].known
  BY <1>3, <1>4 DEF Authorized, States, Sound
<1>7. Authorized(under, ops[o])
  BY <1>2, <1>5, <1>6 DEF Demoted, st
<1>8. under[t].role = ops[d].role /\ ops[d].role \in Roles
  BY <1>0, <1>4 DEF States, HistoryOK, Marks
<1> HIDE DEF under, t
<1>9. \A role : Needed(role) <= CoOwner
  BY DEF Needed, Owner, CoOwner
<1>10. ~(under[t].role <= Needed(ops[o].role)) /\ ~(under[t].role <= Needed(under[ops[o].target].role))
  BY <1>8, <1>9 DEF Needed, Owner, CoOwner, Roles, Editor, Viewer
<1>11. ops[o].act \in Acts /\ ops[o].act # "create"
  BY <1>0, <1>2, <1>7 DEF HistoryOK, Authorized
<1> QED BY <1>7, <1>10, <1>11 DEF Authorized, Acts, t

-----------------------------------------------------------------------------
(* Minting.                                                                *)

\* What a mint adds.
LEMMA MintIs ==
  ASSUME NEW id, NEW op, NEW V, Mint(id, op, V)
  PROVE  /\ id \in FreshIds \ DOMAIN ops
         /\ DOMAIN ops' = DOMAIN ops \cup {id} /\ \A o \in DOMAIN ops : ops'[o] = ops[o]
         /\ ops'[id].past = V /\ ops'[id].depth = DepthOn(V)
         /\ \A x \in DOMAIN op \ {"past", "depth"} : ops'[id][x] = op[x]
<1> DEFINE top == [past |-> V, depth |-> DepthOn(V)]
           minting == Both(top, op)
           H == [o \in {id} |-> minting]
<1>1. id \in FreshIds \ DOMAIN ops /\ ops' = Both(ops, H)
  BY DEF Mint
<1>2. /\ DOMAIN top = {"past", "depth"} /\ top.past = V /\ top.depth = DepthOn(V)
  OBVIOUS
<1> HIDE DEF top
<1>3. /\ minting.past = V /\ minting.depth = DepthOn(V)
      /\ \A x \in DOMAIN op \ {"past", "depth"} : minting[x] = op[x]
  BY <1>2 DEF Both
<1> HIDE DEF minting
<1>4. DOMAIN H = {id} /\ H[id] = minting
  OBVIOUS
<1> HIDE DEF H
<1>5. /\ DOMAIN ops' = DOMAIN ops \cup {id} /\ \A o \in DOMAIN ops : ops'[o] = ops[o]
      /\ ops'[id] = minting
  BY <1>1, <1>4 DEF Both
<1> QED BY <1>1, <1>3, <1>5

\* A mint keeps the history, if what it mints may be in one.
LEMMA MintKeeps ==
  ASSUME HistoryOK(ops), NEW id, NEW op, NEW V, V \subseteq DOMAIN ops, IsView(V), Mint(id, op, V),
         {"author", "act", "target", "role"} \subseteq DOMAIN op,
         {op.author, op.target} \subseteq Members, op.act \in Acts,
         op.act \in {"add", "role", "remove"} => op.target # Founder,
         op.act \in {"add", "role"} => op.role \in Roles
  PROVE  HistoryOK(ops')
<1>1. /\ id \in FreshIds \ DOMAIN ops
      /\ DOMAIN ops' = DOMAIN ops \cup {id} /\ \A o \in DOMAIN ops : ops'[o] = ops[o]
      /\ ops'[id].past = V /\ ops'[id].depth = DepthOn(V)
      /\ \A x \in DOMAIN op \ {"past", "depth"} : ops'[id][x] = op[x]
  BY MintIs
<1>2. /\ ops'[id].author = op.author /\ ops'[id].act = op.act
      /\ ops'[id].target = op.target /\ ops'[id].role = op.role
  BY <1>1
<1>3. DepthOn(V) \in Nat /\ \A a \in V : ops[a].depth < DepthOn(V)
  BY DepthIs
<1>4. IsFiniteSet(DOMAIN ops') /\ DOMAIN ops' \subseteq Int
  <2>1. IsFiniteSet(DOMAIN ops \cup {id})
    BY FS_AddElement DEF HistoryOK
  <2>2. DOMAIN ops' \subseteq Int
    BY <1>1, DagAssumption DEF HistoryOK
  <2> QED BY <1>1, <2>1, <2>2
<1> DEFINE Fine(H, o) ==
      /\ H[o].past \subseteq DOMAIN H /\ H[o].depth \in Nat
      /\ \A p \in H[o].past : H[p].past \subseteq H[o].past /\ H[p].depth < H[o].depth
      /\ {H[o].author, H[o].target} \subseteq Members /\ H[o].act \in Acts
      /\ H[o].act \in {"add", "role", "remove"} => H[o].target # Founder
      /\ H[o].act \in {"add", "role"} => H[o].role \in Roles
<1>5. ASSUME NEW o \in DOMAIN ops PROVE Fine(ops', o)
  <2>1. Fine(ops, o)
    BY DEF HistoryOK
  <2>2. ops'[o] = ops[o] /\ \A p \in ops[o].past : ops'[p] = ops[p]
    BY <1>1, <2>1
  <2> QED BY <1>1, <2>1, <2>2
<1>6. Fine(ops', id)
  <2>1. \A p \in V : ops'[p] = ops[p] /\ ops[p].past \subseteq V
    BY <1>1 DEF IsView
  <2>2. \A p \in ops'[id].past : ops'[p].past \subseteq ops'[id].past /\ ops'[p].depth < ops'[id].depth
    BY <1>1, <1>3, <2>1
  <2>3. ops'[id].past \subseteq DOMAIN ops' /\ ops'[id].depth \in Nat
    BY <1>1, <1>3
  <2>4. /\ {ops'[id].author, ops'[id].target} \subseteq Members /\ ops'[id].act \in Acts
        /\ ops'[id].act \in {"add", "role", "remove"} => ops'[id].target # Founder
        /\ ops'[id].act \in {"add", "role"} => ops'[id].role \in Roles
    BY <1>2
  <2> QED BY <2>2, <2>3, <2>4
<1>7. \A o \in DOMAIN ops' : Fine(ops', o)
  <2> HIDE DEF Fine
  <2> QED BY <1>1, <1>5, <1>6
<1> QED BY <1>4, <1>7, Zenon DEF HistoryOK

-----------------------------------------------------------------------------
(* The engine.                                                             *)

\* The history of a tree: it begins with the prologue.
HistoryInv == HistoryOK(ops) /\ Prologue \subseteq DOMAIN ops

\* The prologue is a history.
LEMMA HistoryInit == ASSUME ops = PrologueOps PROVE HistoryInv
  BY DagAssumption DEF HistoryInv

\* A view is a closed set of operations.
LEMMA ViewIs ==
  ASSUME HistoryInv, NEW V \in Views PROVE V \subseteq DOMAIN ops /\ IsView(V)
  BY DEF HistoryInv, Views

\* Whom a membership lets add, move or remove is not the founder.
LEMMA AllowedIs ==
  ASSUME NEW st \in States, NEW op, op.target \in Members, op.author \in Members,
         Authorized(st, op), HasEffect(st, op)
  PROVE  op.act \in {"add", "role", "remove"} => op.target # Founder
<1>1. st[Founder].active /\ st[Founder].role = Owner
  BY DEF States, Sound
<1>2. CASE op.act = "add"
  BY <1>1, <1>2 DEF Authorized, HasEffect
<1>3. CASE op.act = "role"
  BY <1>1, <1>3 DEF Authorized
<1>4. CASE op.act = "remove"
  BY <1>1, <1>4 DEF Authorized
<1> QED BY <1>2, <1>3, <1>4

\* A move of a member whose membership allows it keeps the history.
LEMMA EngineKeeps == HistoryInv /\ [EngineNext]_ops => HistoryInv'
<1> SUFFICES ASSUME HistoryInv, [EngineNext]_ops PROVE HistoryInv'
  OBVIOUS
<1>1. CASE UNCHANGED ops
  BY <1>1 DEF HistoryInv
<1>2. CASE EngineNext
  <2>1. PICK V \in Views, author \in Members, move \in Moves : Append(author, move, V, Resolve(V).state)
    BY <1>2 DEF EngineNext
  <2> DEFINE op == Both([author |-> author], move)
             st == Resolve(V).state
  <2>2. PICK id : Mint(id, op, V)
    BY <2>1 DEF Append
  <2>3. Authorized(st, op) /\ HasEffect(st, op)
    BY <2>1 DEF Append
  <2>4. HistoryOK(ops) /\ V \subseteq DOMAIN ops /\ IsView(V)
    BY ViewIs DEF HistoryInv
  <2>5. st \in States
    BY <2>4, ResolveIs
  <2>6. /\ {"author", "act", "target", "role"} \subseteq DOMAIN op
        /\ op.author = author /\ op.act = move.act /\ op.target = move.target /\ op.role = move.role
    <3> DEFINE f == [author |-> author]
    <3>1. DOMAIN f = {"author"} /\ f.author = author
      OBVIOUS
    <3>2. {"act", "target", "role"} \subseteq DOMAIN move
      BY MovesAssumption
    <3> HIDE DEF f
    <3>3. /\ {"author", "act", "target", "role"} \subseteq DOMAIN Both(f, move)
          /\ Both(f, move).author = author /\ Both(f, move).act = move.act
          /\ Both(f, move).target = move.target /\ Both(f, move).role = move.role
      BY <3>1, <3>2 DEF Both
    <3> QED BY <3>3 DEF f
  <2>7. move.act \in Acts /\ move.target \in Members /\ move.role \in Roles
    BY MovesAssumption
  <2> HIDE DEF op, st
  <2>8. /\ op.act \in {"add", "role", "remove"} => op.target # Founder
        /\ op.act \in {"add", "role"} => op.role \in Roles
    BY <2>3, <2>5, <2>6, <2>7, AllowedIs
  <2>9. HistoryOK(ops')
    BY <2>2, <2>4, <2>6, <2>7, <2>8, MintKeeps
  <2>10. Prologue \subseteq DOMAIN ops'
    BY <2>2, MintIs DEF HistoryInv
  <2> QED BY <2>9, <2>10 DEF HistoryInv
<1> QED BY <1>1, <1>2

LEMMA EngineHistory == EngineSpec => []HistoryInv
<1>1. EngineInit => HistoryInv
  BY HistoryInit DEF EngineInit
<1> QED BY <1>1, EngineKeeps, PTL DEF EngineSpec

\* OwnersRemovalStands: in the resolution of all there is, whom the owner removed is
\* out until somebody who knew of it adds them again, and nothing they did meanwhile
\* takes effect, whatever was minted beside the removal and by whom (strong_remove.rs).
THEOREM RemovalsStand == EngineSpec => []OwnersRemovalStands
<1>1. HistoryInv => OwnersRemovalStands
  BY RemovalStands DEF HistoryInv
<1> QED BY <1>1, EngineHistory, PTL

\* DemotionDisarms: of what a member did beside the owner's demotion of it, only what
\* the lower role allows takes effect (StrongDemote).
THEOREM DemotionsDisarm == EngineSpec => []DemotionDisarms
<1>1. HistoryInv => DemotionDisarms
  BY Disarms DEF HistoryInv
<1> QED BY <1>1, EngineHistory, PTL

-----------------------------------------------------------------------------
(* The vault.                                                              *)

\* Only the owner removes.  Whom an operation seals an epoch to was removed by no
\* removal in its past, or the epoch's, unless somebody who knew of it undid it.
KeysOK(H) ==
  /\ \A r \in DOMAIN H : H[r].act = "remove" => H[r].author = Founder
  /\ \A e, r \in DOMAIN H :
       H[r].act = "remove" /\ (r = e \/ r \in H[e].past) /\ H[r].target \in H[e].wraps =>
         Back(H, H[e].past, r)
  /\ \A o \in DOMAIN H : \A w \in H[o].added :
       /\ w[1] \in H[o].past
       /\ \A r \in DOMAIN H :
            H[r].act = "remove" /\ (r = w[1] \/ r \in H[w[1]].past) /\ H[r].target = w[2] =>
              Back(H, H[o].past \cup {o}, r)

VaultInv == HistoryInv /\ KeysOK(ops)

\* What a replica folds.
LEMMA FoldAllIs ==
  ASSUME HistoryOK(ops), NEW V, V \subseteq DOMAIN ops
  PROVE  LET f == FoldAll(V)
             E == Effective(V, Resolve(V))
         IN  /\ MembersOf(f) = Active(Resolve(V).state) /\ MembersOf(f) \subseteq Members
             /\ f.state = Resolve(V).state /\ f.state \in States
             /\ E \subseteq V /\ DOMAIN f.readers \subseteq V
             /\ \A e \in DOMAIN f.readers : f.readers[e] = ops[e].wraps \cup AddedBy(E, e)
<1> DEFINE r == Resolve(V)
           E == Effective(V, r)
           M == KeptOf(MintingOps(E), Cardinality(MintingOps(E)))
           readers == [e \in M |-> Readers(E, e)]
<1>1. r.state \in States /\ r.effective \subseteq V
  BY ResolveIs
<1> HIDE DEF r
<1>2. FoldAll(V) = [state |-> r.state, readers |-> readers, write |-> WriteEpoch(readers, MembersOf(r))]
  BY DEF FoldAll, FoldResolved, FoldEffective, FoldInto, r
<1>3. E \subseteq V
  BY <1>1 DEF Effective
<1>4. M \subseteq E
  BY DEF KeptOf, MintingOps
<1> HIDE DEF M, E
<1>5. DOMAIN readers = M /\ \A e \in M : readers[e] = ops[e].wraps \cup AddedBy(E, e)
  BY DEF Readers
<1> HIDE DEF readers
<1>6. /\ FoldAll(V).state = r.state /\ FoldAll(V).readers = readers
  BY <1>2
<1>7. MembersOf(FoldAll(V)) = Active(r.state) /\ Active(r.state) \subseteq Members
  BY <1>6 DEF MembersOf, Active
<1> QED BY <1>1, <1>3, <1>4, <1>5, <1>6, <1>7 DEF r, E

\* A call seals to members and to whom it adds, and not to whom it removes.
SealsWell(op, V) ==
  /\ {"author", "act", "target", "role", "wraps", "added"} \subseteq DOMAIN op
  /\ op.act = "remove" => op.author = Founder
  /\ \A m \in op.wraps : m \in Active(Resolve(V).state) /\ (op.act = "remove" => m # op.target)
  /\ \A w \in op.added : /\ w[1] \in V
                         /\ w[2] \in Active(Resolve(V).state) \/ (op.act = "add" /\ w[2] = op.target)

\* Minting what seals well keeps every removed member without the keys.
LEMMA KeysKeep ==
  ASSUME HistoryOK(ops), KeysOK(ops), NEW V, V \subseteq DOMAIN ops, IsView(V),
         NEW id, NEW op, Mint(id, op, V),
         SealsWell(op, V)
  PROVE  KeysOK(ops')
<1> DEFINE H == ops'
           st == Resolve(V).state
<1>1. /\ id \notin DOMAIN ops
      /\ DOMAIN H = DOMAIN ops \cup {id} /\ \A o \in DOMAIN ops : H[o] = ops[o]
      /\ H[id].past = V /\ H[id].act = op.act /\ H[id].author = op.author
      /\ H[id].target = op.target /\ H[id].wraps = op.wraps /\ H[id].added = op.added
  <2>1. /\ id \in FreshIds \ DOMAIN ops
        /\ DOMAIN ops' = DOMAIN ops \cup {id} /\ \A o \in DOMAIN ops : ops'[o] = ops[o]
        /\ ops'[id].past = V /\ ops'[id].depth = DepthOn(V)
        /\ \A x \in DOMAIN op \ {"past", "depth"} : ops'[id][x] = op[x]
    BY MintIs
  <2>2. /\ "act" \in DOMAIN op \ {"past", "depth"} /\ "author" \in DOMAIN op \ {"past", "depth"}
        /\ "target" \in DOMAIN op \ {"past", "depth"} /\ "wraps" \in DOMAIN op \ {"past", "depth"}
        /\ "added" \in DOMAIN op \ {"past", "depth"}
    BY DEF SealsWell
  <2> QED BY <2>1, <2>2
<1>2. ASSUME NEW r \in V, ops[r].act = "remove", st[ops[r].target].active
      PROVE  Back(ops, V, r)
  BY <1>2, ResolveIs DEF KeysOK, Sure, Lawful, Undone
<1> HIDE DEF H, st
<1>3. ASSUME NEW U, U \subseteq DOMAIN ops, NEW r \in DOMAIN ops, Back(ops, U, r)
      PROVE  \A X : U \subseteq X => Back(H, X, r)
  BY <1>1, <1>3 DEF Back
<1>4. \A o \in DOMAIN ops : ops[o].past \subseteq DOMAIN ops
  BY DEF HistoryOK
<1>5. \A r \in DOMAIN H : H[r].act = "remove" => H[r].author = Founder
  BY <1>1 DEF KeysOK, SealsWell
<1>6. ASSUME NEW e \in DOMAIN H, NEW r \in DOMAIN H, H[r].act = "remove", r = e \/ r \in H[e].past,
             H[r].target \in H[e].wraps
      PROVE  Back(H, H[e].past, r)
  <2>1. CASE e = id
    <3>1. r # id /\ r \in V /\ r \in DOMAIN ops
      BY <1>1, <1>6, <2>1 DEF SealsWell
    <3>2. ops[r].act = "remove" /\ st[ops[r].target].active
      BY <1>1, <1>6, <2>1, <3>1 DEF st, SealsWell, Active
    <3>3. Back(ops, V, r)
      BY <1>2, <3>1, <3>2
    <3> QED BY <1>1, <1>3, <2>1, <3>1, <3>3
  <2>2. CASE e # id
    <3>1. e \in DOMAIN ops /\ r \in DOMAIN ops /\ H[e] = ops[e] /\ H[r] = ops[r]
      BY <1>1, <1>4, <1>6, <2>2
    <3>2. Back(ops, ops[e].past, r)
      BY <1>6, <3>1 DEF KeysOK
    <3>3. ops[e].past \subseteq DOMAIN ops
      BY <1>4, <3>1
    <3> QED BY <1>3, <3>1, <3>2, <3>3
  <2> QED BY <2>1, <2>2
<1>7. ASSUME NEW o \in DOMAIN H, NEW w \in H[o].added
      PROVE  w[1] \in H[o].past
  BY <1>1, <1>7 DEF KeysOK, SealsWell
<1>8. ASSUME NEW o \in DOMAIN H, NEW w \in H[o].added, NEW r \in DOMAIN H, H[r].act = "remove",
             r = w[1] \/ r \in H[w[1]].past, H[r].target = w[2]
      PROVE  Back(H, H[o].past \cup {o}, r)
  <2>1. w[1] \in H[o].past /\ H[o].past \subseteq DOMAIN ops
    BY <1>1, <1>4, <1>7
  <2>2. r \in DOMAIN ops /\ H[r] = ops[r] /\ H[w[1]] = ops[w[1]]
    BY <1>1, <1>4, <1>8, <2>1
  <2>3. CASE o = id
    <3>1. r \in V /\ w \in op.added
      BY <1>1, <1>8, <2>1, <2>2, <2>3 DEF IsView
    <3>2. CASE st[w[2]].active
      <4>1. Back(ops, V, r)
        BY <1>2, <1>8, <2>2, <3>1, <3>2
      <4> QED BY <1>1, <1>3, <2>2, <2>3, <4>1
    <3>3. CASE op.act = "add" /\ w[2] = op.target
      BY <1>1, <1>8, <2>3, <3>1, <3>3 DEF Back
    <3> QED BY <3>1, <3>2, <3>3 DEF st, SealsWell, Active
  <2>4. CASE o # id
    <3>1. o \in DOMAIN ops /\ H[o] = ops[o]
      BY <1>1, <2>4
    <3>2. Back(ops, ops[o].past \cup {o}, r)
      BY <1>8, <2>2, <3>1 DEF KeysOK
    <3>3. ops[o].past \cup {o} \subseteq DOMAIN ops
      BY <1>4, <3>1
    <3> QED BY <1>3, <2>2, <3>1, <3>2, <3>3
  <2> QED BY <2>3, <2>4
<1>9. KeysOK(H)
  BY <1>5, <1>6, <1>7, <1>8 DEF KeysOK
<1> QED BY <1>9 DEF H

\* What a sealed operation says, whatever its sealing is.
LEMMA SealedIs ==
  ASSUME NEW author, NEW act, NEW target, NEW role, NEW V, NEW wraps, NEW added, NEW n,
         Sealed(author, act, target, role, [ordinal |-> n, wraps |-> wraps, added |-> added], V)
  PROVE  \E id, op :
           /\ Mint(id, op, V)
           /\ {"author", "act", "target", "role", "wraps", "added"} \subseteq DOMAIN op
           /\ op.author = author /\ op.act = act /\ op.target = target /\ op.role = role
           /\ op.wraps = wraps /\ op.added = added
<1> DEFINE f == [author |-> author, act |-> act, target |-> target, role |-> role]
           g == [ordinal |-> n, wraps |-> wraps, added |-> added]
           op == Both(f, g)
<1>1. PICK id : Mint(id, op, V)
  BY DEF Sealed
<1>2. /\ DOMAIN f = {"author", "act", "target", "role"} /\ f.author = author /\ f.act = act
      /\ f.target = target /\ f.role = role
  OBVIOUS
<1>3. DOMAIN g = {"ordinal", "wraps", "added"} /\ g.wraps = wraps /\ g.added = added
  OBVIOUS
<1> HIDE DEF f, g
<1>4. /\ {"author", "act", "target", "role", "wraps", "added"} \subseteq DOMAIN op
      /\ op.author = author /\ op.act = act /\ op.target = target /\ op.role = role
  BY <1>2, <1>3 DEF Both
<1>5. op.wraps = wraps /\ op.added = added
  BY <1>2, <1>3 DEF Both
<1> HIDE DEF op
<1> QED BY <1>1, <1>4, <1>5

\* A call keeps the invariant, if it may be in a history and seals well.
LEMMA CallKeepsKeys ==
  ASSUME VaultInv, NEW V \in Views, NEW n,
         NEW author \in Members, NEW act \in Acts, NEW target \in Members, NEW role,
         act \in {"add", "role", "remove"} => target # Founder,
         act \in {"add", "role"} => role \in Roles,
         act = "remove" => author = Founder,
         NEW wraps, \A m \in wraps : m \in Active(Resolve(V).state) /\ (act = "remove" => m # target),
         NEW added, \A w \in added : w[1] \in V /\ (w[2] \in Active(Resolve(V).state)
                                                    \/ (act = "add" /\ w[2] = target)),
         Sealed(author, act, target, role, [ordinal |-> n, wraps |-> wraps, added |-> added], V)
  PROVE  VaultInv'
<1>1. PICK id, op :
        /\ Mint(id, op, V)
        /\ {"author", "act", "target", "role", "wraps", "added"} \subseteq DOMAIN op
        /\ op.author = author /\ op.act = act /\ op.target = target /\ op.role = role
        /\ op.wraps = wraps /\ op.added = added
  BY SealedIs
<1>2. HistoryOK(ops) /\ KeysOK(ops) /\ V \subseteq DOMAIN ops /\ IsView(V)
  BY ViewIs DEF VaultInv, HistoryInv
<1>3. SealsWell(op, V)
  BY <1>1 DEF SealsWell
<1>4. KeysOK(ops')
  BY <1>1, <1>2, <1>3, KeysKeep
<1>5. HistoryOK(ops')
  <2>1. /\ {"author", "act", "target", "role"} \subseteq DOMAIN op
        /\ {op.author, op.target} \subseteq Members /\ op.act \in Acts
        /\ op.act \in {"add", "role", "remove"} => op.target # Founder
        /\ op.act \in {"add", "role"} => op.role \in Roles
    BY <1>1
  <2> QED BY <1>1, <1>2, <2>1, MintKeeps
<1>6. Prologue \subseteq DOMAIN ops'
  BY <1>1, MintIs DEF VaultInv, HistoryInv
<1> QED BY <1>4, <1>5, <1>6 DEF VaultInv, HistoryInv

\* Each call of the vault may be in a history and seals well.
LEMMA VaultKeeps == VaultInv /\ [VaultNext]_ops => VaultInv'
<1> SUFFICES ASSUME VaultInv, [VaultNext]_ops PROVE VaultInv'
  OBVIOUS
<1>1. CASE UNCHANGED ops
  BY <1>1 DEF VaultInv, HistoryInv
<1>2. CASE VaultNext
  <2>1. PICK V \in Views : CallsOn(V, FoldAll(V))
    BY <1>2 DEF VaultNext
  <2> DEFINE f == FoldAll(V)
             M == Active(Resolve(V).state)
  <2>2. /\ MembersOf(f) = M /\ M \subseteq Members /\ DOMAIN f.readers \subseteq V
        /\ Founder \in M /\ Founder \in Members
    <3>1. HistoryOK(ops) /\ V \subseteq DOMAIN ops
      BY ViewIs DEF VaultInv, HistoryInv
    <3>2. /\ MembersOf(f) = M /\ MembersOf(f) \subseteq Members /\ DOMAIN f.readers \subseteq V
      BY <3>1, FoldAllIs
    <3>3. Resolve(V).state \in States
      BY <3>1, ResolveIs
    <3>4. Founder \in M
      BY <3>3, DagAssumption DEF Active, States, Sound
    <3> HIDE DEF f, M
    <3> QED BY <3>2, <3>4
  <2> HIDE DEF f, M
  <2>3. ASSUME NEW m \in Members, NEW role \in RolesOffered, AddMember(V, f, m, role)
        PROVE  VaultInv'
    <3> DEFINE wraps == WrapsFor(f, m)
    <3>1. /\ m # Founder /\ role \in Roles
          /\ Sealed(Founder, "add", m, role, [ordinal |-> -1, wraps |-> {}, added |-> wraps], V)
      <4>1. m # Founder /\ role \in Roles
        BY <2>2, <2>3, VaultAssumption DEF AddMember
      <4>2. Sealed(Founder, "add", m, role, [NoSealing EXCEPT !.added = wraps], V)
        BY <2>3 DEF AddMember
      <4> HIDE DEF wraps
      <4>3. [NoSealing EXCEPT !.added = wraps] = [ordinal |-> -1, wraps |-> {}, added |-> wraps]
        BY DEF NoSealing
      <4> QED BY <4>1, <4>2, <4>3
    <3>2. \A w \in wraps : w[1] \in V /\ w[2] = m
      BY <2>2 DEF WrapsFor
    <3> HIDE DEF wraps
    <3> QED BY <2>2, <3>1, <3>2, CallKeepsKeys DEF Acts
  <2>4. ASSUME NEW m \in Members, NEW role \in RolesOffered, ChangeRole(V, f, m, role)
        PROVE  VaultInv'
    <3>1. /\ m # Founder /\ role \in Roles
          /\ Sealed(Founder, "role", m, role, [ordinal |-> -1, wraps |-> {}, added |-> {}], V)
      BY <2>2, <2>4, VaultAssumption DEF ChangeRole, NoSealing
    <3> QED BY <2>2, <3>1, CallKeepsKeys DEF Acts
  <2>5. ASSUME NEW m \in Members, RemoveMember(V, f, m) PROVE VaultInv'
    <3>1. /\ m # Founder
          /\ Sealed(Founder, "remove", m, Viewer,
                    [ordinal |-> NextOrdinal(f), wraps |-> M \ {m}, added |-> {}], V)
      BY <2>2, <2>5 DEF RemoveMember, EpochFor
    <3>2. /\ \A k \in M \ {m} : k \in M /\ k # m
          /\ "remove" \in Acts
      BY DEF Acts
    <3> QED BY <2>2, <3>1, <3>2, CallKeepsKeys DEF M
  <2>6. ASSUME NEW m \in Members, Backfill(V, f, m) PROVE VaultInv'
    <3> DEFINE missing == MissingWraps(f, m)
    <3>1. Sealed(m, "reseal", m, Viewer, [ordinal |-> -1, wraps |-> {}, added |-> missing], V)
      <4>1. Sealed(m, "reseal", m, Viewer, [NoSealing EXCEPT !.added = missing], V)
        BY <2>6 DEF Backfill
      <4> HIDE DEF missing
      <4>2. [NoSealing EXCEPT !.added = missing] = [ordinal |-> -1, wraps |-> {}, added |-> missing]
        BY DEF NoSealing
      <4> QED BY <4>1, <4>2
    <3>2. \A w \in missing : w[1] \in V /\ w[2] \in M
      BY <2>2 DEF MissingWraps
    <3> HIDE DEF missing
    <3> QED BY <3>1, <3>2, CallKeepsKeys DEF Acts, M
  <2>7. ASSUME NEW m \in Members, NEW trigger \in Triggers, Reseal(V, f, m, trigger) PROVE VaultInv'
    <3>1. Sealed(m, "reseal", m, Viewer, [ordinal |-> NextOrdinal(f), wraps |-> M, added |-> {}], V)
      BY <2>2, <2>7 DEF Reseal, EpochFor
    <3> DEFINE act == "reseal"
               role == Viewer
    <3>2. act \in Acts /\ act \notin {"add", "role", "remove"}
      BY DEF Acts
    <3>3. Sealed(m, act, m, role, [ordinal |-> NextOrdinal(f), wraps |-> M, added |-> {}], V)
      BY <3>1
    <3>4. \A k \in M : k \in Active(Resolve(V).state) /\ (act = "remove" => k # m)
      BY <3>2 DEF M
    <3> HIDE DEF act, role
    <3>5. \A w \in {} : w[1] \in V /\ (w[2] \in Active(Resolve(V).state) \/ (act = "add" /\ w[2] = m))
      OBVIOUS
    <3> QED BY <3>2, <3>3, <3>4, <3>5, CallKeepsKeys
  <2> QED BY <2>1, <2>3, <2>4, <2>5, <2>6, <2>7 DEF CallsOn, f
<1> QED BY <1>1, <1>2

\* NoKeyAfterRemoval of any history that keeps the invariant.
LEMMA NoKeyIs == ASSUME VaultInv PROVE NoKeyAfterRemoval
<1> DEFINE f == FoldAll(All)
           E == Effective(All, Resolve(All))
<1>0. All = DOMAIN ops /\ HistoryOK(ops)
  BY DEF All, VaultInv, HistoryInv
<1>1. /\ E \subseteq All /\ DOMAIN f.readers \subseteq All
      /\ \A e \in DOMAIN f.readers : f.readers[e] = ops[e].wraps \cup AddedBy(E, e)
  BY <1>0, FoldAllIs
<1> HIDE DEF f, E
<1> SUFFICES ASSUME NEW r \in All, ops[r].act = "remove",
                    {a \in All : ops[a].act = "add" /\ ops[a].target = ops[r].target
                                 /\ r \in ops[a].past} = {},
                    NEW e \in DOMAIN f.readers, e = r \/ r \in ops[e].past,
                    ops[r].target \in f.readers[e]
             PROVE  FALSE
  BY DEF NoKeyAfterRemoval, f
<1>2. \A X : X \subseteq All => ~Back(ops, X, r)
  BY DEF Back
<1>3. \A o \in All : ops[o].past \cup {o} \subseteq All
  BY <1>0 DEF HistoryOK
<1>4. ops[r].target \notin ops[e].wraps
  BY <1>0, <1>1, <1>2, <1>3 DEF VaultInv, KeysOK
<1>5. PICK o \in E : \E w \in ops[o].added : w[1] = e /\ w[2] = ops[r].target
  BY <1>1, <1>4 DEF AddedBy
<1>6. Back(ops, ops[o].past \cup {o}, r)
  BY <1>0, <1>1, <1>5 DEF VaultInv, KeysOK
<1> QED BY <1>1, <1>2, <1>3, <1>5, <1>6

LEMMA VaultIsInvariant == VaultSpec => []VaultInv
<1>1. VaultInit => VaultInv
  <2> SUFFICES ASSUME ops = PrologueOps PROVE VaultInv
    BY DEF VaultInit
  <2>1. HistoryInv /\ Prologue = DOMAIN ops
    BY HistoryInit, DagAssumption
  <2>2. KeysOK(ops)
    BY <2>1, VaultAssumption DEF KeysOK
  <2> QED BY <2>1, <2>2 DEF VaultInv
<1> QED BY <1>1, VaultKeeps, PTL DEF VaultSpec

\* NoKeyAfterRemoval: no epoch minted by a removal, or by somebody who knew of it, opens
\* to whom it removed, whatever reseals and backfills any device seals on whatever view,
\* until somebody who knew of it adds them again (remove_member, backfill_rrk).
THEOREM KeysStayRevoked == VaultSpec => []NoKeyAfterRemoval
<1>1. VaultInv => NoKeyAfterRemoval
  BY NoKeyIs
<1> QED BY <1>1, VaultIsInvariant, PTL

\* OwnersRemovalStands and DemotionDisarms, of the operations the vault mints.
THEOREM VaultRemovalsStand == VaultSpec => [](OwnersRemovalStands /\ DemotionDisarms)
<1>1. VaultInv => OwnersRemovalStands /\ DemotionDisarms
  BY RemovalStands, Disarms DEF VaultInv, HistoryInv
<1> QED BY <1>1, VaultIsInvariant, PTL
=============================================================================
