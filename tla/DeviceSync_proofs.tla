-------------------------- MODULE DeviceSync_proofs --------------------------
(***************************************************************************)
(* DeviceSync's safety properties hold for any devices, replicas, entries, *)
(* crashes and failed calls, with the collector running.                   *)
(*                                                                         *)
(* The argument: nothing ever leaves a device's log, live or durable, and  *)
(* every counter a device acts on (its stores' heads, its client's         *)
(* frontier, what it reported) counts only objects that are in a log: a    *)
(* mirror copies what it passes, a scan passes what is there, and adoption *)
(* passes only what is absent, which below a backed head is nothing.       *)
(***************************************************************************)
EXTENDS DeviceSync, Lemmas

\* The heads of a store pass only objects of its log.
HeadsBacked(st) == \A x \in Dot : IsBelow(x, st.head) => x \in st.log
\* ... and so does a client's frontier.
PullBacked(cl, st) == \A x \in Dot : IsBelow(x, cl.frontier) => x \in st.log

-----------------------------------------------------------------------------
(* Mirroring.                                                              *)

\* A mirrored head moves up, over objects the source has or had.
LEMMA MirroredHeadBounds ==
    ASSUME NEW from, NEW to, IsStore(from), IsStore(to), NEW r \in Replica
    PROVE  /\ MirroredHead(from, to, r) \in Nat
           /\ At(to.head, r) <= MirroredHead(from, to, r)
           /\ \A n \in Nat : At(to.head, r) <= n /\ n < MirroredHead(from, to, r) =>
                 <<r, n>> \in from.log \cup from.gone
<1> DEFINE f == At(from.head, r)
           t == At(to.head, r)
           S == {n \in t..f : n = f \/ <<r, n>> \notin from.log \cup from.gone}
<1>1. f \in Nat /\ t \in Nat
  BY AtIsNat DEF IsStore
<1>2. CASE t < f
  <2>1. S \in SUBSET Nat /\ f \in S
    BY <1>1, <1>2
  <2>2. MirroredHead(from, to, r) = Min(S)
    BY <1>2 DEF MirroredHead
  <2>3. Min(S) \in S /\ \A y \in S : Min(S) <= y
    <3> HIDE DEF S
    <3> QED BY <2>1, MinProperties
  <2> HIDE DEF f, t
  <2>4. \A n \in Nat : t <= n /\ n < Min(S) => <<r, n>> \in from.log \cup from.gone
    BY <1>1, <2>1, <2>3
  <2> QED BY <1>1, <2>1, <2>2, <2>3, <2>4 DEF f, t
<1>3. CASE ~(t < f)
  BY <1>1, <1>3 DEF MirroredHead
<1> QED BY <1>2, <1>3

\* A mirror only adds to the log it fills.
LEMMA MirrorTypes ==
    ASSUME NEW from, NEW to, IsStore(from), IsStore(to)
    PROVE  LET m == Mirror(from, to) IN
           /\ IsStore(m)
           /\ m.gone = to.gone
           /\ to.log \subseteq m.log /\ m.log \subseteq to.log \cup from.log
           /\ \A r \in Replica : At(m.head, r) = IF r \in DOMAIN from.head
                                                THEN MirroredHead(from, to, r)
                                                ELSE At(to.head, r)
           /\ m.log = to.log \cup {x \in from.log : /\ x[1] \in DOMAIN from.head
                                                    /\ x[2] >= At(to.head, x[1])
                                                    /\ x[2] < MirroredHead(from, to, x[1])}
<1> DEFINE moved == {r \in DOMAIN from.head : MirroredHead(from, to, r) > At(to.head, r)}
           log == to.log \cup {x \in from.log : /\ x[1] \in DOMAIN from.head
                                                /\ x[2] >= At(to.head, x[1])
                                                /\ x[2] < MirroredHead(from, to, x[1])}
           head == [r \in DOMAIN to.head \cup moved |->
                       IF r \in moved THEN MirroredHead(from, to, r) ELSE to.head[r]]
           snap == IF from.snap.id \in {0, to.snap.id} THEN to.snap ELSE from.snap
           m == Mirror(from, to)
<1>1. to \in StoreSet /\ from \in StoreSet /\ IsFrontier(from.head) /\ IsFrontier(to.head)
  BY StoreIs DEF IsStore
<1>2. m = [to EXCEPT !.log = log, !.head = head, !.snap = snap]
  BY <1>1 DEF Mirror, StoreSet
<1>3. log \subseteq Dot /\ snap \in SnapshotSet
  BY <1>1 DEF StoreSet
<1>4. \A r \in Replica : MirroredHead(from, to, r) \in Nat /\ At(to.head, r) <= MirroredHead(from, to, r)
  BY MirroredHeadBounds
<1>5. moved \subseteq Replica
  BY <1>1 DEF IsFrontier
<1>6. IsFrontier(head)
  BY <1>1, <1>4, <1>5 DEF IsFrontier
<1>7. head \in Frontier
  BY <1>6, FrontierIs
<1>8. \A r \in Replica : At(head, r) = IF r \in DOMAIN from.head THEN MirroredHead(from, to, r)
                                      ELSE At(to.head, r)
  <2> SUFFICES ASSUME NEW r \in Replica
               PROVE At(head, r) = IF r \in DOMAIN from.head THEN MirroredHead(from, to, r)
                                   ELSE At(to.head, r)
    OBVIOUS
  <2>1. At(to.head, r) \in Nat /\ At(to.head, r) <= MirroredHead(from, to, r)
        /\ MirroredHead(from, to, r) \in Nat
    BY <1>1, <1>4, AtIsNat
  <2>2. CASE r \in moved
    BY <2>2 DEF At
  <2>3. CASE r \in DOMAIN from.head \ moved
    <3>1. MirroredHead(from, to, r) = At(to.head, r)
      BY <2>1, <2>3
    <3> QED BY <2>3, <3>1 DEF At
  <2>4. CASE r \notin DOMAIN from.head
    BY <2>4 DEF At
  <2> QED BY <2>2, <2>3, <2>4
<1> HIDE DEF log, head, snap, m
<1>9. /\ m \in StoreSet /\ m.log = log /\ m.head = head /\ m.gone = to.gone
  BY <1>1, <1>2, <1>3, <1>7 DEF StoreSet
<1> QED BY <1>8, <1>9, StoreIs DEF log, m

\* A store filled from one with nothing reaped keeps its heads backed.
LEMMA MirrorBacked ==
    ASSUME NEW from, NEW to, IsStore(from), IsStore(to), from.gone = {}, HeadsBacked(to)
    PROVE  HeadsBacked(Mirror(from, to))
<1> SUFFICES ASSUME NEW x \in Dot, IsBelow(x, Mirror(from, to).head)
             PROVE  x \in Mirror(from, to).log
  BY DEF HeadsBacked
<1> DEFINE r == x[1]
           n == x[2]
<1>1. r \in Replica /\ n \in Nat /\ x = <<r, n>> /\ At(to.head, r) \in Nat
  BY AtIsNat DEF Dot, IsStore
<1>2. CASE n < At(to.head, r)
  BY <1>1, <1>2, MirrorTypes DEF HeadsBacked, IsBelow
<1>3. CASE At(to.head, r) <= n
  <2>1. r \in DOMAIN from.head /\ n < MirroredHead(from, to, r)
    BY <1>1, <1>3, MirrorTypes DEF IsBelow
  <2>2. x \in from.log
    BY <1>1, <1>3, <2>1, MirroredHeadBounds
  <2> QED BY <1>3, <2>1, <2>2, MirrorTypes
<1> QED BY <1>1, <1>2, <1>3

-----------------------------------------------------------------------------
(* The client over a backed store.                                         *)

\* A fold passes only what is in the store.
LEMMA FoldBacked ==
    ASSUME NEW cl, NEW st, IsClient(cl), IsStore(st), PullBacked(cl, st)
    PROVE  IsClient(Fold(cl, st)) /\ Fold(cl, st).next = cl.next /\ PullBacked(Fold(cl, st), st)
<1> DEFINE d == [x \in ToJudge(cl, st) |-> "absorb"]
           p == Fold(cl, st)
<1>1. d \in [ToJudge(cl, st) -> Disposition]
  BY DEF Disposition
<1>2. IsClient(p) /\ p.next = cl.next /\ p.frontier = Scanned(cl, st)
  BY <1>1, PullVerifiedTypes DEF Fold
<1>3. ASSUME NEW x \in Dot, IsBelow(x, Scanned(cl, st)), ~IsBelow(x, cl.frontier)
      PROVE  x \in st.log
  BY <1>3, PassedIsJudged, GapBounds
<1> HIDE DEF p
<1> QED BY <1>2, <1>3 DEF PullBacked, p

\* Adoption passes nothing when every head is backed: what is below a head is there.
LEMMA AdoptBacked ==
    ASSUME NEW cl, NEW st, IsClient(cl), IsStore(st), HeadsBacked(st), PullBacked(cl, st)
    PROVE  LET a == AdoptSnapshotBaseline(cl, st, TRUE)
           IN  IsClient(a) /\ a.next = cl.next /\ PullBacked(a, st)
<1>1. CASE ~TrustsSnapshot(cl, st)
  BY <1>1 DEF AdoptSnapshotBaseline
<1>2. CASE TrustsSnapshot(cl, st)
  <2> DEFINE m == MergeSnapshot(cl, st)
  <2>1. AdoptSnapshotBaseline(cl, st, TRUE) = m
    BY <1>2 DEF AdoptSnapshotBaseline
  <2>2. IsClient(m) /\ m.next = cl.next
    BY MergeTypes
  <2>3. ASSUME NEW x \in Dot, IsBelow(x, m.frontier), ~IsBelow(x, cl.frontier)
        PROVE  FALSE
    <3> DEFINE r == x[1]
    <3>1. r \in Replica /\ x[2] \in Nat
      BY DEF Dot
    <3>2. x \notin st.log
      BY <2>3, SkippedIsCovered
    <3>3. r \in DOMAIN st.snap.covered /\ x[2] < Advanced(cl, st, r)
      BY <2>3, <3>1, MergeTypes DEF IsBelow
    <3>4. At(cl.frontier, r) \in Nat /\ At(st.head, r) \in Nat
      BY AtIsNat DEF IsClient, IsStore
    <3>5. x[2] < At(st.head, r)
      BY <2>3, <3>1, <3>3, <3>4, AdvancedBounds DEF IsBelow
    <3> QED BY <3>2, <3>5 DEF HeadsBacked, IsBelow
  <2> HIDE DEF m
  <2> QED BY <2>1, <2>2, <2>3 DEF PullBacked
<1> QED BY <1>1, <1>2

LEMMA BootstrapBacked ==
    ASSUME NEW cl, NEW st, IsClient(cl), IsStore(st), HeadsBacked(st), PullBacked(cl, st)
    PROVE  /\ IsClient(Bootstrap(cl, st)) /\ Bootstrap(cl, st).next = cl.next
           /\ PullBacked(Bootstrap(cl, st), st)
BY AdoptBacked, FoldBacked DEF Bootstrap

LEMMA AdoptOrFoldBacked ==
    ASSUME NEW cl, NEW st, IsClient(cl), IsStore(st), HeadsBacked(st), PullBacked(cl, st)
    PROVE  /\ IsClient(AdoptOrFold(cl, st)) /\ AdoptOrFold(cl, st).next = cl.next
           /\ PullBacked(AdoptOrFold(cl, st), st)
BY BootstrapBacked, FoldBacked DEF AdoptOrFold

\* Compaction rewrites only the snapshot and the baseline.
LEMMA CompactionKeeps ==
    ASSUME NEW cl, NEW st, IsClient(cl), IsStore(st), IsFiniteSet(st.log), FreshEtag \in Nat
    PROVE  /\ IsStore(Compacted(cl, st))
           /\ Compacted(cl, st).log = st.log /\ Compacted(cl, st).head = st.head
           /\ Compacted(cl, st).gone = st.gone
           /\ IsClient(Rebased(cl, st)) /\ Rebased(cl, st).next = cl.next
           /\ Rebased(cl, st).frontier = cl.frontier
<1>1. cl \in ClientSet /\ st \in StoreSet /\ Cardinality(st.log) \in Nat
  BY ClientIs, StoreIs, FS_CardinalityType
<1>2. Rebase(cl, st) \in ClientSet /\ Rebase(cl, st).next = cl.next
      /\ Rebase(cl, st).frontier = cl.frontier
  BY <1>1 DEF Rebase, ClientSet
<1>3. SubsumedFrontier(cl) \in Frontier
  BY SubsumedBounds, FrontierIs
<1> DEFINE snap == [id |-> FreshEtag, covered |-> SubsumedFrontier(cl), content |-> cl.engine]
           p == PublishSnapshot(cl, st, FreshEtag)
<1>4. snap \in SnapshotSet /\ p = [st EXCEPT !.snap = snap]
  BY <1>1, <1>3 DEF SnapshotSet, ClientSet, PublishSnapshot
<1> HIDE DEF snap, p
<1>5. p \in StoreSet /\ p.log = st.log /\ p.head = st.head /\ p.gone = st.gone
  BY <1>1, <1>4 DEF StoreSet
<1> QED BY <1>1, <1>2, <1>5, ClientIs, StoreIs DEF Compacted, Rebased, p

-----------------------------------------------------------------------------
(* The inductive invariant.                                                *)

Upload == ({"log"} \X Dot) \cup ({"head"} \X Replica \X Nat)
              \cup ({"snapshot"} \X SnapshotSet \X Frontier)
Keys == [log : SUBSET Dot, heads : SUBSET Replica, snapshot : BOOLEAN]
Tick == [at : {"idle", "heads", "log", "snapshot", "put", "report"}, keys : Keys,
         view : StoreSet, puts : SUBSET Upload]

SyncTypes ==
    /\ remote \in StoreSet /\ covered \in Frontier /\ floor \in Frontier
    /\ seen \in [Device -> Frontier] /\ opened \in [Device -> Seq(Replica)]
    /\ local \in [Device -> StoreSet] /\ disk \in [Device -> StoreSet]
    /\ client \in [Device -> ClientSet] /\ tick \in [Device -> Tick]
    /\ unsaved \subseteq Device /\ mishaps \in 0..MaxMishaps

\* Logs are finite; a listed head stays listed; a view has nothing reaped, and a
\* tick goes on only when its uploads are through.
TicksStand ==
    /\ IsFiniteSet(remote.log)
    /\ \A d \in Device :
          /\ IsFiniteSet(local[d].log) /\ IsFiniteSet(disk[d].log)
          /\ IsFiniteSet(tick[d].view.log) /\ tick[d].view.gone = {}
          /\ tick[d].keys.heads \subseteq DOMAIN remote.head
          /\ IsFiniteSet(tick[d].keys.log)
          /\ tick[d].at # "put" => tick[d].puts = {}

\* The durable log is in the live one; heads, frontiers and a session's own
\* counter pass only what is there.
StoresBacked ==
    \A d \in Device :
        /\ disk[d].log \subseteq local[d].log
        /\ HeadsBacked(local[d]) /\ HeadsBacked(disk[d])
        /\ PullBacked(client[d], local[d])
        /\ \A n \in Nat : IsOpen(d) /\ n < client[d].next => <<Me(d), n>> \in local[d].log

\* What a device has reported, or is about to, is its own or on its disk.
Durable(d, x) == x[1] \in Own(d) \/ x \in disk[d].log
ReportsBacked ==
    \A d \in Device, x \in Dot :
        /\ IsBelow(x, seen[d]) => Durable(d, x)
        /\ tick[d].at = "report" /\ IsBelow(x, client[d].frontier) => Durable(d, x)

SyncInv == SyncTypes /\ TicksStand /\ StoresBacked /\ ReportsBacked

-----------------------------------------------------------------------------
(* The types of what a step writes.                                        *)

\* The etag of a new snapshot is a natural number.
LEMMA FreshEtagIsNat == ASSUME SyncTypes PROVE FreshEtag \in Nat
<1> DEFINE L == {local[d].snap.id : d \in Device}
           D == {disk[d].snap.id : d \in Device}
           S == {remote.snap.id} \cup L \cup D
           fl == [d \in Device |-> local[d].snap.id]
           fd == [d \in Device |-> disk[d].snap.id]
<1>1. remote.snap.id \in Nat /\ \A d \in Device : local[d].snap.id \in Nat /\ disk[d].snap.id \in Nat
  BY DEF SyncTypes, StoreSet, SnapshotSet
<1>2. fl \in [Device -> Nat] /\ fd \in [Device -> Nat]
  BY <1>1
<1>3. L = {fl[d] : d \in Device} /\ D = {fd[d] : d \in Device}
  OBVIOUS
<1>4. IsFiniteSet(L) /\ IsFiniteSet(D)
  <2> HIDE DEF fl, fd, L, D
  <2>1. IsFiniteSet(Device)
    BY DeviceSyncAssumption
  <2>2. IsFiniteSet({fl[d] : d \in Device}) /\ IsFiniteSet({fd[d] : d \in Device})
    BY <1>2, <2>1, ImageIsFinite
  <2> QED BY <1>3, <2>2
<1>5. IsFiniteSet(S)
  <2>1. IsFiniteSet({remote.snap.id})
    BY FS_Singleton
  <2> HIDE DEF L, D
  <2>2. IsFiniteSet({remote.snap.id} \cup L)
    BY <1>4, <2>1, FS_Union
  <2> QED BY <1>4, <2>2, FS_Union
<1>6. S \in SUBSET Nat /\ S # {}
  BY <1>1
<1>7. FreshEtag = 1 + Max(S)
  BY DEF FreshEtag
<1> HIDE DEF S
<1>8. Max(S) \in Nat
  BY <1>5, <1>6, MaxProperties
<1> QED BY <1>7, <1>8

\* The larger of two naturals.
LEMMA LargerOfTwo ==
    ASSUME NEW a \in Nat, NEW b \in Nat
    PROVE  Max({a, b}) \in {a, b} /\ a <= Max({a, b}) /\ b <= Max({a, b})
<1>1. IsFiniteSet({a, b}) /\ {a, b} \in SUBSET Nat
  <2>1. IsFiniteSet({a} \cup {b})
    BY FS_Singleton, FS_Union
  <2>2. {a} \cup {b} = {a, b}
    OBVIOUS
  <2> QED BY <2>1, <2>2
<1> QED BY <1>1, MaxProperties

\* What an entry, and a head pointer, make of a store.
LEMMA PutEntryType ==
    ASSUME NEW st \in StoreSet, NEW x \in Dot, IsFiniteSet(st.log)
    PROVE  /\ PutEntry(st, x) \in StoreSet
           /\ PutEntry(st, x).log = st.log \cup {x} /\ PutEntry(st, x).head = st.head
           /\ PutEntry(st, x).gone = st.gone /\ IsFiniteSet(PutEntry(st, x).log)
<1>1. IsFiniteSet(st.log \cup {x})
  BY FS_AddElement
<1> QED BY <1>1 DEF PutEntry, StoreSet

LEMMA WithHeadType ==
    ASSUME NEW st \in StoreSet, NEW r \in Replica, NEW n \in Nat
    PROVE  /\ WithHead(st, r, n) \in StoreSet
           /\ WithHead(st, r, n).log = st.log /\ WithHead(st, r, n).gone = st.gone
           /\ DOMAIN st.head \subseteq DOMAIN WithHead(st, r, n).head
           /\ \A q : At(WithHead(st, r, n).head, q) = IF q = r THEN n ELSE At(st.head, q)
<1> DEFINE f == WithCounter(st.head, r, n)
<1>1. IsFrontier(st.head)
  BY FrontierIs DEF StoreSet
<1>2. f \in Frontier
  BY <1>1, WithCounterType, FrontierIs
<1>3. DOMAIN st.head \subseteq DOMAIN f /\ \A q : At(f, q) = IF q = r THEN n ELSE At(st.head, q)
  BY DEF WithCounter, At
<1> HIDE DEF f
<1>4. WithHead(st, r, n) = [st EXCEPT !.head = f]
  BY DEF WithHead, f
<1>5. WithHead(st, r, n) \in StoreSet /\ WithHead(st, r, n).log = st.log
      /\ WithHead(st, r, n).gone = st.gone /\ WithHead(st, r, n).head = f
  BY <1>2, <1>4 DEF StoreSet
<1> QED BY <1>3, <1>5

\* The tick of a device between two ticks.
LEMMA IdleType ==
    Idle \in Tick /\ Idle.view.gone = {} /\ IsFiniteSet(Idle.view.log) /\ Idle.keys.heads = {}
    /\ IsFiniteSet(Idle.keys.log) /\ Idle.puts = {} /\ Idle.at = "idle"
<1>1. EmptyStore \in StoreSet /\ IsFiniteSet(EmptyStore.log) /\ EmptyStore.gone = {}
  BY InitialTypes, StoreIs, FS_EmptySet DEF EmptyStore
<1>2. IsFiniteSet({})
  BY FS_EmptySet
<1> QED BY <1>1, <1>2 DEF Idle, Tick, Keys

-----------------------------------------------------------------------------
(* The invariant holds at first and every step keeps it.                   *)

LEMMA InitSync == Init => SyncInv
<1> SUFFICES ASSUME Init PROVE SyncInv
  OBVIOUS
<1>1. /\ EmptyStore \in StoreSet /\ NewClient \in ClientSet /\ EmptyFrontier \in Frontier
      /\ 0 \in 0..MaxMishaps
  BY InitialTypes, EmptyIsFrontier, FrontierIs, StoreIs, ClientIs, DeviceSyncAssumption
<1>2. EmptyStore.log = {} /\ EmptyStore.head = EmptyFrontier /\ NewClient.frontier = EmptyFrontier
  BY DEF EmptyStore, NewClient
<1>3. \A x \in Dot : ~IsBelow(x, EmptyFrontier)
  BY EmptyIsFrontier DEF IsBelow, Dot
<1>4. SyncTypes
  <2>1. <<>> \in Seq(Replica) /\ Idle \in Tick
    BY IdleType
  <2> HIDE DEF EmptyStore, NewClient, EmptyFrontier, Idle
  <2> QED BY <1>1, <2>1 DEF Init, SyncTypes
<1>5. TicksStand
  BY <1>2, IdleType, FS_EmptySet DEF Init, TicksStand
<1>6. StoresBacked
  <2> SUFFICES ASSUME NEW d \in Device
               PROVE /\ disk[d].log \subseteq local[d].log
                     /\ HeadsBacked(local[d]) /\ HeadsBacked(disk[d])
                     /\ PullBacked(client[d], local[d])
                     /\ ~IsOpen(d)
    BY DEF StoresBacked
  <2>1. local[d] = EmptyStore /\ disk[d] = EmptyStore /\ client[d] = NewClient /\ opened[d] = <<>>
    BY DEF Init
  <2> QED BY <1>2, <1>3, <2>1 DEF HeadsBacked, PullBacked, IsOpen
<1>7. ReportsBacked
  <2>1. \A d \in Device : seen[d] = EmptyFrontier /\ tick[d].at = "idle"
    BY IdleType DEF Init
  <2> QED BY <1>3, <2>1 DEF ReportsBacked
<1> QED BY <1>4, <1>5, <1>6, <1>7 DEF SyncInv

\* A step of a tick that reads the server, and a call that fails.
LEMMA ReadingKeeps ==
    ASSUME SyncInv, NEW d \in Device, NEW t \in Tick, tick' = [tick EXCEPT ![d] = t],
           t.view.gone = {}, IsFiniteSet(t.view.log), IsFiniteSet(t.keys.log),
           t.keys.heads \subseteq DOMAIN remote.head, t.puts = {}, t.at # "report",
           UNCHANGED <<serverVars, deviceVars>>, mishaps' \in 0..MaxMishaps
    PROVE  SyncInv'
<1> USE DEF SyncInv, serverVars, deviceVars
<1>1. tick' \in [Device -> Tick] /\ tick'[d] = t /\ \A e \in Device \ {d} : tick'[e] = tick[e]
  BY DEF SyncTypes
<1>2. SyncTypes'
  BY <1>1 DEF SyncTypes
<1>3. TicksStand'
  BY <1>1 DEF TicksStand
<1>4. StoresBacked'
  BY DEF StoresBacked, IsOpen, Me
<1>5. ReportsBacked'
  BY <1>1 DEF ReportsBacked, Durable, Own
<1> QED BY <1>2, <1>3, <1>4, <1>5

LEMMA ListKeeps == ASSUME SyncInv, NEW d \in Device, List(d) PROVE SyncInv'
<1> DEFINE k == [log |-> remote.log, heads |-> DOMAIN remote.head, snapshot |-> remote.snap.id # 0]
           t == [tick[d] EXCEPT !.at = "heads", !.keys = k]
<1>1. tick[d] \in Tick /\ tick \in [Device -> Tick] /\ remote \in StoreSet
  BY DEF SyncInv, SyncTypes
<1>2. k \in Keys
  <2>1. DOMAIN remote.head \subseteq Replica
    BY <1>1, FrontierIs DEF StoreSet, IsFrontier
  <2> QED BY <1>1, <2>1 DEF Keys, StoreSet
<1>3. k.log = remote.log /\ k.heads = DOMAIN remote.head
  OBVIOUS
<1>4. tick' = [tick EXCEPT ![d] = t]
  BY <1>1 DEF List
<1> HIDE DEF k
<1>5. t \in Tick /\ t.view = tick[d].view /\ t.keys = k /\ t.puts = tick[d].puts /\ t.at = "heads"
  BY <1>1, <1>2 DEF Tick
<1>6. tick[d].at = "idle" /\ mishaps' \in 0..MaxMishaps /\ UNCHANGED <<serverVars, deviceVars>>
  BY DEF List, SyncInv, SyncTypes
<1> HIDE DEF t
<1>7. /\ t.view.gone = {} /\ IsFiniteSet(t.view.log) /\ IsFiniteSet(t.keys.log)
      /\ t.keys.heads \subseteq DOMAIN remote.head /\ t.puts = {} /\ t.at # "report"
  BY <1>3, <1>5, <1>6 DEF SyncInv, TicksStand
<1> QED BY <1>4, <1>5, <1>6, <1>7, ReadingKeeps

LEMMA GetHeadsKeeps == ASSUME SyncInv, NEW d \in Device, GetHeads(d) PROVE SyncInv'
<1> DEFINE h == [r \in tick[d].keys.heads |-> remote.head[r]]
           v == [tick[d].view EXCEPT !.head = h]
           t == [tick[d] EXCEPT !.at = "log", !.view = v]
<1>1. tick[d] \in Tick /\ tick \in [Device -> Tick] /\ remote \in StoreSet
      /\ tick[d].keys.heads \subseteq DOMAIN remote.head /\ tick[d].view \in StoreSet
  BY DEF SyncInv, SyncTypes, TicksStand, Tick
<1>2. h \in Frontier
  <2>1. IsFrontier(remote.head)
    BY <1>1, FrontierIs DEF StoreSet
  <2>2. IsFrontier(h)
    BY <1>1, <2>1 DEF IsFrontier
  <2> QED BY <2>2, FrontierIs
<1>3. tick' = [tick EXCEPT ![d] = t]
  BY <1>1 DEF GetHeads, Tick
<1> HIDE DEF h
<1>4. v \in StoreSet /\ v.gone = tick[d].view.gone /\ v.log = tick[d].view.log
  BY <1>1, <1>2 DEF StoreSet
<1> HIDE DEF v
<1>5. t \in Tick /\ t.view = v /\ t.keys = tick[d].keys /\ t.puts = tick[d].puts /\ t.at = "log"
  BY <1>1, <1>4 DEF Tick
<1>6. tick[d].at = "heads" /\ mishaps' \in 0..MaxMishaps /\ UNCHANGED <<serverVars, deviceVars>>
  BY DEF GetHeads, SyncInv, SyncTypes
<1> HIDE DEF t
<1>7. /\ t.view.gone = {} /\ IsFiniteSet(t.view.log) /\ IsFiniteSet(t.keys.log)
      /\ t.keys.heads \subseteq DOMAIN remote.head /\ t.puts = {} /\ t.at # "report"
  BY <1>1, <1>4, <1>5, <1>6 DEF SyncInv, TicksStand
<1> QED BY <1>3, <1>5, <1>6, <1>7, ReadingKeeps

\* A tick that ends.
LEMMA IdleKeeps ==
    ASSUME SyncInv, NEW d \in Device, tick' = [tick EXCEPT ![d] = Idle],
           UNCHANGED <<serverVars, deviceVars>>, mishaps' \in 0..MaxMishaps
    PROVE  SyncInv'
<1> HIDE DEF Idle
<1> QED BY IdleType, ReadingKeeps

LEMMA GetLogKeeps == ASSUME SyncInv, NEW d \in Device, GetLog(d) PROVE SyncInv'
<1> DEFINE v == [tick[d].view EXCEPT !.log = Wanted(d)]
           t == [tick[d] EXCEPT !.at = "snapshot", !.view = v]
<1>1. /\ tick[d] \in Tick /\ tick \in [Device -> Tick] /\ tick[d].view \in StoreSet
      /\ tick[d].keys \in Keys /\ IsFiniteSet(tick[d].keys.log)
  BY DEF SyncInv, SyncTypes, TicksStand, Tick
<1>2. Wanted(d) \subseteq tick[d].keys.log /\ Wanted(d) \subseteq Dot
  BY <1>1 DEF Wanted, Keys
<1>3. IsFiniteSet(Wanted(d))
  BY <1>1, <1>2, FS_Subset
<1>4. tick[d].at = "log" /\ mishaps' \in 0..MaxMishaps /\ UNCHANGED <<serverVars, deviceVars>>
  BY DEF GetLog, SyncInv, SyncTypes
<1>5. CASE Wanted(d) \subseteq remote.log
  <2>1. tick' = [tick EXCEPT ![d] = t]
    BY <1>1, <1>5 DEF GetLog, Tick
  <2>2. v \in StoreSet /\ v.gone = tick[d].view.gone /\ v.log = Wanted(d)
    BY <1>1, <1>2 DEF StoreSet
  <2> HIDE DEF v
  <2>3. t \in Tick /\ t.view = v /\ t.keys = tick[d].keys /\ t.puts = tick[d].puts /\ t.at = "snapshot"
    BY <1>1, <2>2 DEF Tick
  <2> HIDE DEF t
  <2>4. /\ t.view.gone = {} /\ IsFiniteSet(t.view.log) /\ IsFiniteSet(t.keys.log)
        /\ t.keys.heads \subseteq DOMAIN remote.head /\ t.puts = {} /\ t.at # "report"
    BY <1>1, <1>3, <1>4, <2>2, <2>3 DEF SyncInv, TicksStand
  <2> QED BY <1>4, <2>1, <2>3, <2>4, ReadingKeeps
<1>6. CASE ~(Wanted(d) \subseteq remote.log)
  <2>1. tick' = [tick EXCEPT ![d] = Idle]
    BY <1>6 DEF GetLog
  <2> QED BY <1>4, <2>1, IdleKeeps
<1> QED BY <1>5, <1>6

LEMMA FailKeeps == ASSUME SyncInv, NEW d \in Device, Fail(d) PROVE SyncInv'
<1>1. mishaps' \in 0..MaxMishaps
  BY DeviceSyncAssumption DEF Fail, SyncInv, SyncTypes
<1> QED BY <1>1, IdleKeeps DEF Fail

\* A session starts from the durable store.
LEMMA OpenKeeps == ASSUME SyncInv, NEW d \in Device, Open(d) PROVE SyncInv'
<1> DEFINE h == Hydrated(disk[d])
<1>1. /\ disk[d] \in StoreSet /\ HeadsBacked(disk[d]) /\ IsStore(disk[d]) /\ IsClient(NewClient)
      /\ IsFiniteSet(disk[d].log)
  BY StoreIs, InitialTypes DEF SyncInv, SyncTypes, StoresBacked, TicksStand
<1>2. PullBacked(NewClient, disk[d])
  <2>1. NewClient.frontier = EmptyFrontier
    BY DEF NewClient
  <2> QED BY <2>1, EmptyIsFrontier DEF PullBacked, IsBelow, Dot
<1>3. h \in ClientSet /\ h.next = 0 /\ PullBacked(h, disk[d])
  <2>1. NewClient.next = 0
    BY DEF NewClient
  <2> QED BY <1>1, <1>2, <2>1, BootstrapBacked, ClientIs DEF Hydrated
<1> HIDE DEF h
<1>4. PICK r \in Replica : opened' = [opened EXCEPT ![d] = Append(@, r)]
  BY DEF Open
<1>5. /\ opened' \in [Device -> Seq(Replica)]
      /\ opened'[d] = Append(opened[d], r)
      /\ \A e \in Device \ {d} : opened'[e] = opened[e]
      /\ \A e \in Device : Own(e) \subseteq Own(e)'
  <2>1. opened \in [Device -> Seq(Replica)]
    BY DEF SyncInv, SyncTypes
  <2> QED BY <1>4, <2>1 DEF Own
<1>6. /\ local' = [local EXCEPT ![d] = disk[d]] /\ client' = [client EXCEPT ![d] = h]
      /\ tick' = [tick EXCEPT ![d] = Idle] /\ unsaved' \subseteq unsaved
      /\ mishaps' \in 0..MaxMishaps /\ UNCHANGED <<remote, covered, floor, seen, disk>>
  BY DeviceSyncAssumption DEF Open, serverVars, h, SyncInv, SyncTypes
<1>7. SyncTypes'
  BY <1>1, <1>3, <1>5, <1>6, IdleType DEF SyncInv, SyncTypes
<1> USE DEF SyncInv
<1>8. /\ local \in [Device -> StoreSet] /\ client \in [Device -> ClientSet]
      /\ tick \in [Device -> Tick]
  BY DEF SyncTypes
<1>9. /\ local'[d] = disk[d] /\ client'[d] = h /\ tick'[d] = Idle
      /\ \A e \in Device \ {d} : local'[e] = local[e] /\ client'[e] = client[e] /\ tick'[e] = tick[e]
  BY <1>6, <1>8
<1>10. TicksStand'
  BY <1>1, <1>6, <1>9, IdleType DEF TicksStand
<1>11. StoresBacked'
  BY <1>1, <1>3, <1>5, <1>6, <1>9 DEF StoresBacked, IsOpen, Me
<1>12. ReportsBacked'
  <2>1. \A e \in Device, x \in Dot : Durable(e, x) => Durable(e, x)'
    BY <1>5, <1>6 DEF Durable
  <2> QED BY <1>6, <1>9, <2>1, IdleType DEF ReportsBacked
<1> QED BY <1>7, <1>10, <1>11, <1>12

\* The entry is in the log before the head and the counter pass it.
LEMMA CommitKeeps == ASSUME SyncInv, NEW d \in Device, Commit(d) PROVE SyncInv'
<1> USE DEF SyncInv
<1> DEFINE cl == client[d]
           me == Me(d)
           x == <<me, cl.next>>
           st == PutEntry(local[d], x)
           st2 == WithHead(st, me, cl.next + 1)
           a == Appended(cl, me, "delta")
           c2 == SawOwn(a, me)
           n2 == IF At(cl.frontier, me) < cl.next + 1 THEN cl.next + 1 ELSE At(cl.frontier, me)
<1>1. /\ local \in [Device -> StoreSet] /\ client \in [Device -> ClientSet]
      /\ opened \in [Device -> Seq(Replica)] /\ cl.next \in Nat /\ IsClient(cl)
      /\ IsFiniteSet(local[d].log) /\ HeadsBacked(local[d]) /\ PullBacked(cl, local[d])
  BY ClientIs DEF SyncTypes, ClientSet, TicksStand, StoresBacked
<1>2. opened[d] # <<>> /\ me \in Replica /\ me \in Own(d)
  BY <1>1 DEF Commit, IsOpen, Me, Own
<1>3. x \in Dot /\ cl.next + 1 \in Nat
  BY <1>1, <1>2 DEF Dot
<1>4. \A n \in Nat : n < cl.next => <<me, n>> \in local[d].log
  BY <1>2 DEF StoresBacked, IsOpen
<1>5. /\ local' = [local EXCEPT ![d] = st2] /\ client' = [client EXCEPT ![d] = c2]
      /\ unsaved' = unsaved \cup {d}
      /\ UNCHANGED <<remote, covered, floor, seen, opened, disk, tick, mishaps>>
  BY DEF Commit, serverVars
<1>6. /\ st \in StoreSet /\ st.log = local[d].log \cup {x} /\ st.head = local[d].head
      /\ IsFiniteSet(st.log)
  BY <1>1, <1>3, PutEntryType
<1>7. /\ st2 \in StoreSet /\ st2.log = st.log
      /\ \A q : At(st2.head, q) = IF q = me THEN cl.next + 1 ELSE At(st.head, q)
  <2> HIDE DEF st
  <2> QED BY <1>2, <1>3, <1>6, WithHeadType
<1>8. /\ c2 \in ClientSet /\ c2.next = cl.next + 1
      /\ \A q : At(c2.frontier, q) = IF q = me THEN n2 ELSE At(cl.frontier, q)
  <2> DEFINE e == cl.engine \cup {x}
             f == WithCounter(cl.frontier, me, n2)
  <2>1. cl \in ClientSet /\ IsFrontier(cl.frontier) /\ e \in SUBSET Dot
    BY <1>1, <1>3, ClientIs DEF IsClient
  <2>2. n2 \in Nat
    BY <1>1, <1>3, <2>1, AtIsNat
  <2>3. f \in Frontier
    BY <1>2, <2>1, <2>2, WithCounterType, FrontierIs
  <2>4. \A q : At(f, q) = IF q = me THEN n2 ELSE At(cl.frontier, q)
    BY DEF WithCounter, At
  <2>5. a = [cl EXCEPT !.next = cl.next + 1, !.engine = e]
    BY <2>1 DEF Appended, ClientSet
  <2> HIDE DEF e, f, a, x
  <2>6. a \in ClientSet /\ a.next = cl.next + 1 /\ a.frontier = cl.frontier
    BY <1>3, <2>1, <2>5 DEF ClientSet
  <2> HIDE DEF cl, n2
  <2>7. c2 = [a EXCEPT !.frontier = f]
    BY <2>6 DEF SawOwn, ClientSet, f, n2
  <2>8. c2 \in ClientSet /\ c2.next = a.next /\ c2.frontier = f
    BY <2>3, <2>6, <2>7 DEF ClientSet
  <2> QED BY <2>4, <2>6, <2>8
<1> HIDE DEF st, st2, a, c2
<1>9. SyncTypes'
  BY <1>1, <1>5, <1>7, <1>8 DEF SyncTypes
<1>10. /\ local'[d] = st2 /\ client'[d] = c2
       /\ \A e \in Device \ {d} : local'[e] = local[e] /\ client'[e] = client[e]
  BY <1>1, <1>5
<1>11. TicksStand'
  BY <1>5, <1>6, <1>7, <1>10 DEF TicksStand
<1>12. \A n \in Nat : n < cl.next + 1 => <<me, n>> \in st2.log
  BY <1>1, <1>4, <1>6, <1>7
<1>13. HeadsBacked(st2)
  <2> SUFFICES ASSUME NEW y \in Dot, IsBelow(y, st2.head) PROVE y \in st2.log
    BY DEF HeadsBacked
  <2>1. y = <<y[1], y[2]>> /\ y[2] \in Nat
    BY DEF Dot
  <2>2. CASE y[1] = me
    BY <1>7, <1>12, <2>1, <2>2 DEF IsBelow
  <2>3. CASE y[1] # me
    BY <1>1, <1>6, <1>7, <2>1, <2>3 DEF IsBelow, HeadsBacked
  <2> QED BY <2>2, <2>3
<1>14. PullBacked(c2, st2)
  <2> SUFFICES ASSUME NEW y \in Dot, IsBelow(y, c2.frontier) PROVE y \in st2.log
    BY DEF PullBacked
  <2>1. y = <<y[1], y[2]>> /\ y[2] \in Nat
    BY DEF Dot
  <2>2. CASE IsBelow(y, cl.frontier)
    BY <1>1, <1>6, <1>7, <2>2 DEF PullBacked
  <2>3. CASE ~IsBelow(y, cl.frontier)
    <3>1. y[1] = me
      BY <1>8, <2>3 DEF IsBelow
    <3>2. At(cl.frontier, me) \in Nat /\ y[2] < n2 /\ ~(y[2] < At(cl.frontier, me))
      BY <1>1, <1>8, <2>3, <3>1, AtIsNat DEF IsBelow, IsClient
    <3>3. y[2] < cl.next + 1
      BY <1>1, <2>1, <3>2
    <3> QED BY <1>12, <2>1, <3>1, <3>3
  <2> QED BY <2>2, <2>3
<1>15. StoresBacked'
  <2>1. disk[d].log \subseteq st2.log
    BY <1>6, <1>7 DEF StoresBacked
  <2> QED BY <1>5, <1>8, <1>10, <1>12, <1>13, <1>14, <2>1 DEF StoresBacked, IsOpen, Me
<1>16. ReportsBacked'
  <2>1. \A e \in Device, y \in Dot : Durable(e, y) <=> Durable(e, y)'
    BY <1>5 DEF Durable, Own
  <2>2. ASSUME NEW y \in Dot, IsBelow(y, c2.frontier)
        PROVE  IsBelow(y, cl.frontier) \/ y[1] \in Own(d)
    BY <1>2, <1>8, <2>2 DEF IsBelow
  <2> HIDE DEF cl
  <2> QED BY <1>5, <1>10, <2>1, <2>2 DEF ReportsBacked, Durable, cl
<1> QED BY <1>9, <1>11, <1>15, <1>16

\* The durable copy is the live store, which is no smaller.
LEMMA SavingKeeps ==
    ASSUME SyncInv, NEW d \in Device, NEW t \in Tick, tick' = [tick EXCEPT ![d] = t],
           t = tick[d] \/ (t = [tick[d] EXCEPT !.at = "report"] /\ tick[d].puts = {}),
           disk' = [disk EXCEPT ![d] = local[d]], unsaved' \subseteq Device,
           UNCHANGED <<serverVars, opened, local, client, mishaps>>
    PROVE  SyncInv'
<1> USE DEF SyncInv, serverVars
<1>1. /\ disk \in [Device -> StoreSet] /\ local \in [Device -> StoreSet] /\ tick \in [Device -> Tick]
      /\ tick[d] \in Tick
  BY DEF SyncTypes
<1>2. /\ disk'[d] = local[d] /\ tick'[d] = t
      /\ \A e \in Device \ {d} : disk'[e] = disk[e] /\ tick'[e] = tick[e]
  BY <1>1
<1>3. t.view = tick[d].view /\ t.keys = tick[d].keys /\ t.puts = tick[d].puts
      /\ (t.at # "put" => t.puts = {})
  BY <1>1 DEF Tick, TicksStand
<1>4. SyncTypes'
  BY <1>1 DEF SyncTypes
<1>5. TicksStand'
  BY <1>2, <1>3 DEF TicksStand
<1>6. StoresBacked'
  BY <1>2 DEF StoresBacked, IsOpen, Me
<1>7. ReportsBacked'
  <2>1. \A e \in Device, x \in Dot : Durable(e, x) => Durable(e, x)'
    BY <1>2 DEF Durable, Own, StoresBacked
  <2>2. \A x \in Dot : IsBelow(x, client[d].frontier) => Durable(d, x)'
    BY <1>2 DEF Durable, StoresBacked, PullBacked
  <2> QED BY <1>2, <2>1, <2>2 DEF ReportsBacked
<1> QED BY <1>4, <1>5, <1>6, <1>7

LEMMA PersistKeeps == ASSUME SyncInv, NEW d \in Device, Persist(d) PROVE SyncInv'
<1>1. tick[d] \in Tick /\ tick' = [tick EXCEPT ![d] = tick[d]] /\ unsaved' \subseteq Device
  BY DEF Persist, SyncInv, SyncTypes
<1> QED BY <1>1, SavingKeeps DEF Persist

LEMMA FinishKeeps == ASSUME SyncInv, NEW d \in Device, Finish(d) PROVE SyncInv'
<1> DEFINE t == [tick[d] EXCEPT !.at = "report"]
<1>1. t \in Tick /\ tick' = [tick EXCEPT ![d] = t] /\ unsaved' \subseteq Device
  BY DEF Finish, SyncInv, SyncTypes, Tick
<1> QED BY <1>1, SavingKeeps DEF Finish

\* What is reported is on disk since the copy that ended the uploads.
LEMMA ReportKeeps == ASSUME SyncInv, NEW d \in Device, Report(d) PROVE SyncInv'
<1> USE DEF SyncInv
<1> DEFINE f == client[d].frontier
           g == [r \in DOMAIN seen[d] \cup DOMAIN f |-> IF r \in DOMAIN f THEN f[r] ELSE seen[d][r]]
<1>1. /\ seen \in [Device -> Frontier] /\ tick \in [Device -> Tick]
      /\ IsFrontier(f) /\ IsFrontier(seen[d])
  BY FrontierIs DEF SyncTypes, ClientSet
<1>2. g \in Frontier /\ \A r : At(g, r) = At(f, r) \/ At(g, r) = At(seen[d], r)
  <2>1. IsFrontier(g)
    BY <1>1 DEF IsFrontier
  <2> QED BY <2>1, FrontierIs DEF At
<1>3. /\ seen' = [seen EXCEPT ![d] = g] /\ tick' = [tick EXCEPT ![d] = Idle]
      /\ tick[d].at = "report" /\ UNCHANGED <<remote, covered, floor, deviceVars, mishaps>>
  BY <1>1 DEF Report
<1> HIDE DEF g
<1>4. /\ seen'[d] = g /\ tick'[d] = Idle
      /\ \A e \in Device \ {d} : seen'[e] = seen[e] /\ tick'[e] = tick[e]
  BY <1>1, <1>3
<1>5. SyncTypes'
  BY <1>1, <1>2, <1>3, IdleType DEF SyncTypes, deviceVars
<1>6. TicksStand'
  BY <1>3, <1>4, IdleType DEF TicksStand, deviceVars
<1>7. StoresBacked'
  BY <1>3 DEF StoresBacked, IsOpen, Me, deviceVars
<1>8. ReportsBacked'
  <2>1. \A e \in Device, x \in Dot : Durable(e, x) <=> Durable(e, x)'
    BY <1>3 DEF Durable, Own, deviceVars
  <2>2. \A x \in Dot : IsBelow(x, g) => IsBelow(x, f) \/ IsBelow(x, seen[d])
    BY <1>2 DEF IsBelow
  <2>3. \A x \in Dot : IsBelow(x, g) => Durable(d, x)
    BY <1>3, <2>2 DEF ReportsBacked
  <2> QED BY <1>3, <1>4, <2>1, <2>3, IdleType DEF ReportsBacked, deviceVars
<1> QED BY <1>5, <1>6, <1>7, <1>8

\* What the core step asks to upload.
LEMMA UploadsType ==
    ASSUME NEW d \in Device, NEW view \in StoreSet, NEW pushed \in StoreSet, NEW cl, IsClient(cl)
    PROVE  Uploads(d, view, pushed, cl) \subseteq Upload
<1>1. IsFrontier(pushed.head) /\ pushed.log \subseteq Dot /\ pushed.snap \in SnapshotSet
      /\ SubsumedFrontier(cl) \in Frontier
  BY SubsumedBounds, FrontierIs DEF StoreSet
<1>2. \A r \in DOMAIN pushed.head : r \in Replica /\ pushed.head[r] \in Nat
  BY <1>1 DEF IsFrontier
<1>3. ASSUME NEW u \in Uploads(d, view, pushed, cl) PROVE u \in Upload
  <2>1. CASE \E x \in pushed.log : u = <<"log", x>>
    BY <1>1, <2>1 DEF Upload
  <2>2. CASE \E r \in DOMAIN pushed.head : u = <<"head", r, pushed.head[r]>>
    BY <1>2, <2>2 DEF Upload
  <2>3. CASE u = <<"snapshot", pushed.snap, SubsumedFrontier(cl)>>
    BY <1>1, <2>3 DEF Upload
  <2> QED BY <2>1, <2>2, <2>3 DEF Uploads
<1> QED BY <1>3

\* The core step: what it pulls in backs the heads and the frontier it moves.
LEMMA SyncKeeps == ASSUME SyncInv, NEW d \in Device, Sync(d) PROVE SyncInv'
<1> USE DEF SyncInv
<1> DEFINE sn == IF tick[d].keys.snapshot THEN remote.snap ELSE tick[d].view.snap
           view == [tick[d].view EXCEPT !.snap = sn]
           pulled == Mirror(view, local[d])
           folded == AdoptOrFold(client[d], pulled)
           st == Compacted(folded, pulled)
           cl == Rebased(folded, pulled)
           us == Uploads(d, view, Mirror(st, view), folded)
           t == [Idle EXCEPT !.at = "put", !.puts = us]
<1>1. /\ remote \in StoreSet /\ local \in [Device -> StoreSet] /\ client \in [Device -> ClientSet]
      /\ tick \in [Device -> Tick] /\ tick[d].view \in StoreSet /\ tick[d] \in Tick
  BY DEF SyncTypes, Tick
<1>2. /\ tick[d].at = "snapshot"
      /\ local' = [local EXCEPT ![d] = st] /\ client' = [client EXCEPT ![d] = cl]
      /\ tick' = [tick EXCEPT ![d] = t]
      /\ UNCHANGED <<remote, covered, floor, seen, opened, disk, unsaved, mishaps>>
  <2>1. local'[d] = st /\ local' = [local EXCEPT ![d] = st]
    BY <1>1, Zenon DEF Sync, StoreSet
  <2> QED BY <2>1, Zenon DEF Sync, serverVars
<1>3. /\ view \in StoreSet /\ IsStore(view) /\ view.gone = {} /\ view.log = tick[d].view.log
      /\ IsFiniteSet(view.log)
  <2>1. sn \in SnapshotSet
    BY <1>1 DEF StoreSet
  <2> HIDE DEF sn
  <2>2. view \in StoreSet /\ view.gone = tick[d].view.gone /\ view.log = tick[d].view.log
    BY <1>1, <2>1 DEF StoreSet
  <2> QED BY <2>2, StoreIs DEF TicksStand
<1> HIDE DEF view
<1>4. /\ IsStore(local[d]) /\ HeadsBacked(local[d]) /\ IsFiniteSet(local[d].log)
      /\ IsClient(client[d]) /\ PullBacked(client[d], local[d])
  BY <1>1, StoreIs, ClientIs DEF StoresBacked, TicksStand
<1>5. /\ IsStore(pulled) /\ HeadsBacked(pulled) /\ local[d].log \subseteq pulled.log
      /\ IsFiniteSet(pulled.log)
  <2>1. /\ IsStore(pulled) /\ local[d].log \subseteq pulled.log
        /\ pulled.log \subseteq local[d].log \cup view.log
    BY <1>3, <1>4, MirrorTypes
  <2>2. IsFiniteSet(local[d].log \cup view.log)
    BY <1>3, <1>4, FS_Union
  <2>3. IsFiniteSet(pulled.log)
    <3> HIDE DEF pulled
    <3> QED BY <2>1, <2>2, FS_Subset
  <2> QED BY <1>3, <1>4, <2>1, <2>3, MirrorBacked
<1> HIDE DEF pulled
<1>6. PullBacked(client[d], pulled)
  BY <1>4, <1>5 DEF PullBacked
<1>7. IsClient(folded) /\ folded.next = client[d].next /\ PullBacked(folded, pulled)
  BY <1>4, <1>5, <1>6, AdoptOrFoldBacked
<1> HIDE DEF folded
<1>8. /\ IsStore(st) /\ st.log = pulled.log /\ st.head = pulled.head
      /\ IsClient(cl) /\ cl.next = client[d].next /\ cl.frontier = folded.frontier
  BY <1>5, <1>7, FreshEtagIsNat, CompactionKeeps
<1> HIDE DEF st, cl
<1>9. us \subseteq Upload
  <2>1. Mirror(st, view) \in StoreSet
    BY <1>3, <1>8, MirrorTypes, StoreIs
  <2> QED BY <1>3, <1>7, <2>1, UploadsType
<1> HIDE DEF us
<1>10. /\ t \in Tick /\ t.view = Idle.view /\ t.keys = Idle.keys /\ t.at = "put"
  BY <1>9, IdleType DEF Tick
<1> HIDE DEF t
<1>11. /\ local'[d] = st /\ client'[d] = cl /\ tick'[d] = t
       /\ \A e \in Device \ {d} : local'[e] = local[e] /\ client'[e] = client[e] /\ tick'[e] = tick[e]
  BY <1>1, <1>2
<1>12. SyncTypes'
  <2>1. st \in StoreSet /\ cl \in ClientSet
    BY <1>8, StoreIs, ClientIs
  <2> QED BY <1>1, <1>2, <1>10, <2>1 DEF SyncTypes
<1>13. TicksStand'
  BY <1>2, <1>5, <1>8, <1>10, <1>11, IdleType DEF TicksStand
<1>14. HeadsBacked(st) /\ PullBacked(cl, st) /\ local[d].log \subseteq st.log
  BY <1>5, <1>7, <1>8 DEF HeadsBacked, PullBacked
<1>15. StoresBacked'
  BY <1>2, <1>8, <1>11, <1>14 DEF StoresBacked, IsOpen, Me
<1>16. ReportsBacked'
  <2>1. \A e \in Device, x \in Dot : Durable(e, x) <=> Durable(e, x)'
    BY <1>2 DEF Durable, Own
  <2> QED BY <1>2, <1>10, <1>11, <2>1 DEF ReportsBacked
<1> QED BY <1>12, <1>13, <1>15, <1>16

\* The server's rows change, and nothing of a device but what is left to send.
LEMMA ServingKeeps ==
    ASSUME SyncInv, remote' \in StoreSet, covered' \in Frontier, floor' \in Frontier,
           IsFiniteSet(remote'.log), DOMAIN remote.head \subseteq DOMAIN remote'.head,
           tick' \in [Device -> Tick],
           \A e \in Device : \/ tick'[e] \in {tick[e], Idle}
                             \/ /\ tick[e].at = "put"
                                /\ \E u \in tick[e].puts :
                                       tick'[e] = [tick[e] EXCEPT !.puts = @ \ {u}],
           UNCHANGED <<seen, deviceVars, mishaps>>
    PROVE  SyncInv'
<1> USE DEF SyncInv, deviceVars
<1>1. SyncTypes'
  BY DEF SyncTypes
<1>2. \A e \in Device :
          /\ tick'[e].view \in {tick[e].view, Idle.view} /\ tick'[e].keys \in {tick[e].keys, Idle.keys}
          /\ tick'[e].at # "put" => tick'[e].puts = {}
          /\ tick'[e].at = "report" => tick[e].at = "report"
  <2> SUFFICES ASSUME NEW e \in Device
               PROVE /\ tick'[e].view \in {tick[e].view, Idle.view}
                     /\ tick'[e].keys \in {tick[e].keys, Idle.keys}
                     /\ tick'[e].at # "put" => tick'[e].puts = {}
                     /\ tick'[e].at = "report" => tick[e].at = "report"
    OBVIOUS
  <2>1. tick[e] \in Tick /\ (tick[e].at # "put" => tick[e].puts = {})
    BY DEF SyncTypes, TicksStand
  <2>2. CASE tick'[e] \in {tick[e], Idle}
    <3> HIDE DEF Idle
    <3> QED BY <2>1, <2>2, IdleType
  <2>3. CASE /\ tick[e].at = "put"
             /\ \E u \in tick[e].puts : tick'[e] = [tick[e] EXCEPT !.puts = @ \ {u}]
    BY <2>1, <2>3 DEF Tick
  <2> QED BY <2>2, <2>3
<1>3. TicksStand'
  <2> HIDE DEF Idle
  <2> QED BY <1>2, IdleType DEF TicksStand
<1>4. StoresBacked'
  BY DEF StoresBacked, IsOpen, Me
<1>5. ReportsBacked'
  BY <1>2 DEF ReportsBacked, Durable, Own
<1> QED BY <1>1, <1>3, <1>4, <1>5

LEMMA PutKeeps == ASSUME SyncInv, NEW d \in Device, Put(d) PROVE SyncInv'
<1> USE DEF SyncInv
<1>1. PICK u \in tick[d].puts :
          PutLogUpload(d, u) \/ PutHeadUpload(d, u) \/ PutSnapshotUpload(d, u)
  BY DEF Put
<1>2. /\ tick[d].at = "put" /\ UNCHANGED <<deviceVars, mishaps>>
      /\ tick \in [Device -> Tick] /\ tick[d] \in Tick /\ u \in Upload
      /\ remote \in StoreSet /\ covered \in Frontier /\ floor \in Frontier /\ IsFiniteSet(remote.log)
  BY DEF Put, SyncTypes, TicksStand, Tick
<1>3. ASSUME Refused(d) PROVE SyncInv'
  <2>1. mishaps' \in 0..MaxMishaps
    BY <1>2 DEF SyncTypes
  <2> QED BY <1>2, <1>3, <2>1, IdleKeeps DEF Refused
<1>4. ASSUME Sent(d, u), remote' \in StoreSet, covered' \in Frontier, IsFiniteSet(remote'.log),
             DOMAIN remote.head \subseteq DOMAIN remote'.head, UNCHANGED <<floor, seen>>
      PROVE  SyncInv'
  <2> DEFINE t == [tick[d] EXCEPT !.puts = tick[d].puts \ {u}]
  <2>1. tick' = [tick EXCEPT ![d] = t]
    BY <1>2, <1>4 DEF Sent
  <2>2. t \in Tick
    BY <1>2 DEF Tick
  <2>3. tick' \in [Device -> Tick] /\ tick'[d] = t /\ \A e \in Device \ {d} : tick'[e] = tick[e]
    BY <1>2, <2>1, <2>2
  <2>4. \A e \in Device : \/ tick'[e] \in {tick[e], Idle}
                          \/ /\ tick[e].at = "put"
                             /\ \E v \in tick[e].puts :
                                    tick'[e] = [tick[e] EXCEPT !.puts = @ \ {v}]
    BY <1>2, <2>3
  <2> QED BY <1>2, <1>4, <2>3, <2>4, ServingKeeps
<1>5. CASE PutLogUpload(d, u)
  <2>1. CASE Refused(d)
    BY <1>3, <2>1
  <2>2. CASE remote' = PutEntry(remote, u[2]) /\ Sent(d, u) /\ UNCHANGED <<covered, floor, seen>>
    <3>1. u[2] \in Dot
      BY <1>2, <1>5 DEF PutLogUpload, Upload
    <3> QED BY <1>2, <1>4, <2>2, <3>1, PutEntryType
  <2> QED BY <1>5, <2>1, <2>2 DEF PutLogUpload
<1>6. CASE PutHeadUpload(d, u)
  <2>1. CASE Refused(d)
    BY <1>3, <2>1
  <2>2. CASE remote' = WithHead(remote, u[2], u[3]) /\ Sent(d, u) /\ UNCHANGED <<covered, floor, seen>>
    <3>1. u[2] \in Replica /\ u[3] \in Nat
      BY <1>2, <1>6 DEF PutHeadUpload, Upload
    <3> QED BY <1>2, <1>4, <2>2, <3>1, WithHeadType
  <2> QED BY <1>6, <2>1, <2>2 DEF PutHeadUpload
<1>7. CASE PutSnapshotUpload(d, u)
  <2>1. CASE Refused(d)
    BY <1>3, <2>1
  <2>2. CASE /\ remote' = [remote EXCEPT !.snap = u[2]] /\ covered' = u[3]
             /\ Sent(d, u) /\ UNCHANGED <<floor, seen>>
    <3>1. u[2] \in SnapshotSet /\ u[3] \in Frontier
      BY <1>2, <1>7 DEF PutSnapshotUpload, Upload
    <3>2. remote' \in StoreSet /\ remote'.log = remote.log /\ remote'.head = remote.head
      BY <1>2, <2>2, <3>1 DEF StoreSet
    <3> QED BY <1>2, <1>4, <2>2, <3>1, <3>2
  <2> QED BY <1>7, <2>1, <2>2 DEF PutSnapshotUpload
<1> QED BY <1>1, <1>5, <1>6, <1>7

\* The floor moves to what every device that reports has reached, and no further.
LEMMA RaisedFloor ==
    ASSUME SyncInv, RaiseFloor
    PROVE  /\ floor' \in Frontier
           /\ \A x \in Dot, d \in Reporters :
                  IsBelow(x, floor') /\ ~IsBelow(x, floor) => IsBelow(x, seen[d])
<1> DEFINE S(r) == {covered[r]} \cup {At(seen[d], r) : d \in Reporters}
<1>1. /\ IsFrontier(covered) /\ IsFrontier(floor) /\ \A d \in Device : IsFrontier(seen[d])
      /\ Reporters \subseteq Device
  BY FrontierIs DEF SyncInv, SyncTypes, Reporters
<1>2. ASSUME NEW r \in DOMAIN covered
      PROVE  /\ Lowered(r) \in Nat /\ \A d \in Reporters : Lowered(r) <= At(seen[d], r)
             /\ Max({At(floor, r), Lowered(r)}) \in {At(floor, r), Lowered(r)}
  <2>1. S(r) \in SUBSET Nat /\ S(r) # {}
    BY <1>1, AtIsNat DEF IsFrontier
  <2>2. Lowered(r) = Min(S(r))
    BY DEF Lowered
  <2>3. \A d \in Reporters : At(seen[d], r) \in S(r)
    OBVIOUS
  <2> HIDE DEF S
  <2>4. Lowered(r) \in Nat /\ \A d \in Reporters : Lowered(r) <= At(seen[d], r)
    BY <2>1, <2>2, <2>3, MinProperties
  <2> QED BY <1>1, <2>4, AtIsNat, LargerOfTwo
<1>3. floor' = [r \in DOMAIN floor \cup DOMAIN covered |->
                    IF r \in DOMAIN covered THEN Max({At(floor, r), Lowered(r)}) ELSE floor[r]]
  BY DEF RaiseFloor
<1>4. \A r \in DOMAIN covered : Max({At(floor, r), Lowered(r)}) \in Nat
  BY <1>1, <1>2, AtIsNat
<1>5. floor' \in Frontier
  <2>1. IsFrontier(floor')
    BY <1>1, <1>3, <1>4 DEF IsFrontier
  <2> QED BY <2>1, FrontierIs
<1>6. ASSUME NEW x \in Dot, NEW d \in Reporters, IsBelow(x, floor'), ~IsBelow(x, floor)
      PROVE  IsBelow(x, seen[d])
  <2> DEFINE r == x[1]
  <2>1. r \in DOMAIN covered
    BY <1>3, <1>6 DEF IsBelow, At
  <2>2. At(floor', r) = Max({At(floor, r), Lowered(r)})
    BY <1>3, <2>1 DEF At
  <2>3. At(floor', r) = Lowered(r)
    BY <1>2, <1>6, <2>1, <2>2 DEF IsBelow
  <2>4. x[2] < Lowered(r) /\ Lowered(r) <= At(seen[d], r)
    BY <1>2, <1>6, <2>1, <2>3 DEF IsBelow
  <2>5. Lowered(r) \in Nat /\ At(seen[d], r) \in Nat /\ x[2] \in Nat
    BY <1>1, <1>2, <2>1, AtIsNat DEF Dot
  <2> QED BY <2>4, <2>5 DEF IsBelow
<1> QED BY <1>5, <1>6

LEMMA RaiseFloorKeeps == ASSUME SyncInv, RaiseFloor PROVE SyncInv'
<1>1. floor' \in Frontier
  BY RaisedFloor
<1>2. /\ UNCHANGED <<remote, covered, seen, deviceVars, tick, mishaps>>
  BY DEF RaiseFloor
<1>3. /\ remote \in StoreSet /\ covered \in Frontier /\ IsFiniteSet(remote.log)
      /\ tick \in [Device -> Tick]
  BY DEF SyncInv, SyncTypes, TicksStand
<1> QED BY <1>1, <1>2, <1>3, ServingKeeps

LEMMA ReapKeeps == ASSUME SyncInv, NEW x \in remote.log, Reap(x) PROVE SyncInv'
<1>1. UNCHANGED <<covered, floor, seen, deviceVars, tick, mishaps>>
  BY DEF Reap
<1>2. /\ remote \in StoreSet /\ covered \in Frontier /\ floor \in Frontier
      /\ IsFiniteSet(remote.log) /\ tick \in [Device -> Tick] /\ x \in Dot
  BY DEF SyncInv, SyncTypes, TicksStand, StoreSet
<1>3. remote' = [remote EXCEPT !.log = remote.log \ {x}, !.gone = remote.gone \cup {x}]
  BY <1>2 DEF Reap, StoreSet
<1>4. /\ remote' \in StoreSet /\ remote'.head = remote.head /\ remote'.log = remote.log \ {x}
  BY <1>2, <1>3 DEF StoreSet
<1>5. IsFiniteSet(remote.log \ {x})
  BY <1>2, FS_RemoveElement
<1> QED BY <1>1, <1>2, <1>4, <1>5, ServingKeeps

LEMMA SyncStep == SyncInv /\ [Next]_vars => SyncInv'
<1> SUFFICES ASSUME SyncInv, [Next]_vars PROVE SyncInv'
  OBVIOUS
<1>1. ASSUME NEW d \in Device, Open(d) PROVE SyncInv'
  BY <1>1, OpenKeeps
<1>2. ASSUME NEW d \in Device, Commit(d) PROVE SyncInv'
  BY <1>2, CommitKeeps
<1>3. ASSUME NEW d \in Device, Persist(d) PROVE SyncInv'
  BY <1>3, PersistKeeps
<1>4. ASSUME NEW d \in Device, TickStep(d) PROVE SyncInv'
  BY <1>4, ListKeeps, GetHeadsKeeps, GetLogKeeps, SyncKeeps, PutKeeps, FinishKeeps, ReportKeeps
  DEF TickStep
<1>5. ASSUME NEW d \in Device, Fail(d) PROVE SyncInv'
  BY <1>5, FailKeeps
<1>6. CASE RaiseFloor
  BY <1>6, RaiseFloorKeeps
<1>7. ASSUME NEW x \in remote.log, Reap(x) PROVE SyncInv'
  BY <1>7, ReapKeeps
<1>8. CASE UNCHANGED vars
  <2>1. UNCHANGED <<serverVars, deviceVars, mishaps, tick>>
    BY <1>8 DEF vars
  <2>2. /\ remote \in StoreSet /\ covered \in Frontier /\ floor \in Frontier
        /\ IsFiniteSet(remote.log) /\ tick \in [Device -> Tick]
    BY DEF SyncInv, SyncTypes, TicksStand
  <2> QED BY <2>1, <2>2, ServingKeeps DEF serverVars
<1> QED BY <1>1, <1>2, <1>3, <1>4, <1>5, <1>6, <1>7, <1>8 DEF Next

-----------------------------------------------------------------------------
(* The theorems.                                                           *)

LEMMA HeadsBackedInv == SyncInv => LocalHeadIsBacked
<1> SUFFICES ASSUME SyncInv, NEW d \in Device, NEW st \in {local[d], disk[d]},
                    NEW r \in DOMAIN st.head, NEW n \in 0..(st.head[r] - 1)
             PROVE  <<r, n>> \in st.log
  BY DEF LocalHeadIsBacked
<1>1. st \in StoreSet /\ HeadsBacked(st)
  BY DEF SyncInv, SyncTypes, StoresBacked
<1>2. r \in Replica /\ st.head[r] \in Nat
  BY <1>1, FrontierIs DEF StoreSet, IsFrontier
<1>3. <<r, n>> \in Dot /\ IsBelow(<<r, n>>, st.head)
  BY <1>2 DEF Dot, IsBelow, At
<1> QED BY <1>1, <1>3 DEF HeadsBacked

\* Sync's mirror and append: whatever a listing missed, whatever was reaped and
\* wherever a crash fell, a device's head pointers, live and durable, pass only
\* objects that are in the same store.
THEOREM HeadsStayBacked == Spec => []LocalHeadIsBacked
<1>1. Init => SyncInv
  BY InitSync
<1>2. SyncInv /\ [Next]_vars => SyncInv'
  BY SyncStep
<1>3. SyncInv => LocalHeadIsBacked
  BY HeadsBackedInv
<1> QED BY <1>1, <1>2, <1>3, PTL DEF Spec

LEMMA FloorStep == SyncInv /\ [Next]_vars => FloorSparesUnpulled
<1> SUFFICES ASSUME SyncInv, [Next]_vars, NEW x \in remote.log, NEW d \in Reporters,
                    IsBelow(x, floor'), ~IsBelow(x, floor)
             PROVE  Durable(d, x)
  BY DEF FloorSparesUnpulled, Durable
<1>1. x \in Dot /\ d \in Device
  BY DEF SyncInv, SyncTypes, StoreSet, Reporters
<1>2. CASE RaiseFloor
  <2>1. IsBelow(x, seen[d])
    BY <1>1, <1>2, RaisedFloor
  <2> QED BY <1>1, <2>1 DEF SyncInv, ReportsBacked
<1>3. CASE floor' = floor
  BY <1>3
<1>4. RaiseFloor \/ floor' = floor
  BY DEF Next, vars, serverVars, Open, Commit, Persist, TickStep, List, GetHeads, GetLog, Sync,
         Put, PutLogUpload, PutHeadUpload, PutSnapshotUpload, Refused, Finish, Report, Fail, Reap
<1> QED BY <1>2, <1>3, <1>4

\* The collector's floor, moved on what was reported: no device that reports
\* loses an entry it has neither written nor stored durably.
THEOREM UnpulledStaysKept == Spec => UnpulledIsKept
<1>1. Init => SyncInv
  BY InitSync
<1>2. SyncInv /\ [Next]_vars => SyncInv'
  BY SyncStep
<1>3. SyncInv /\ [Next]_vars => FloorSparesUnpulled
  BY FloorStep
<1> QED BY <1>1, <1>2, <1>3, PTL DEF Spec, UnpulledIsKept

=============================================================================
