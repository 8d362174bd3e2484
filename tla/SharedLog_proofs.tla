-------------------------- MODULE SharedLog_proofs --------------------------
(***************************************************************************)
(* SharedLog's safety properties hold for every set of sessions, every     *)
(* behaviour of the caller and any number of entries and snapshots.        *)
(*                                                                         *)
(* The argument is one of accounting.  A client accounts for every written *)
(* delta below its frontier: it folded the delta, holds it, stalled it or  *)
(* waived it.  A scan passes only objects it judges, and adoption skips    *)
(* only absent ones the snapshot covers; so what a client publishes below  *)
(* its subsumed frontier, which no held or stalled dot lies under, is in   *)
(* its engine, and what a snapshot claims to cover is contained in it.     *)
(***************************************************************************)
EXTENDS SharedLog, Lemmas

Waivers(w) == w.evicted \cup w.unreviewed \cup w.discarded \cup w.inherited

\* The client cl, having waived w, accounts for the deltas D below its frontier.
Accounts(cl, w, D) ==
    \A x \in D : IsBelow(x, cl.frontier) =>
        x \in cl.engine \cup cl.held \cup cl.stalled \cup cl.dropped \cup w

-----------------------------------------------------------------------------
(* What each operation of the client does to the books.                    *)

\* A verified pull judges every dot it passes, and every held one.
LEMMA PullVerifiedAccounts ==
    ASSUME NEW cl, NEW st, IsClient(cl), IsStore(st), NEW w, NEW cov, NEW D,
           D \subseteq Dot, D \cap cov = {}, Accounts(cl, w, D),
           NEW d \in [ToJudge(cl, st) -> Disposition]
    PROVE  Accounts(PullVerified(cl, st, d, cov), w, D)
<1> DEFINE p == PullVerified(cl, st, d, cov)
<1>1. /\ p.frontier = Scanned(cl, st)
      /\ p.held = Sorted(d, "hold")
      /\ p.stalled = cl.stalled \cup Sorted(d, "stall") \cup (cl.held \ st.log)
      /\ p.dropped = cl.dropped \cup Sorted(d, "drop")
      /\ p.engine = cl.engine \cup (Sorted(d, "absorb") \ cov)
  BY PullVerifiedTypes
<1>2. \A x \in ToJudge(cl, st) : x \in Sorted(d, "absorb") \cup Sorted(d, "hold")
                                         \cup Sorted(d, "stall") \cup Sorted(d, "drop")
  BY DEF Sorted, Disposition
<1> HIDE DEF p
<1> SUFFICES ASSUME NEW x \in D, IsBelow(x, p.frontier)
             PROVE  x \in p.engine \cup p.held \cup p.stalled \cup p.dropped \cup w
  BY DEF Accounts, p
<1>3. CASE IsBelow(x, cl.frontier)
  <2>1. x \in cl.engine \cup cl.held \cup cl.stalled \cup cl.dropped \cup w
    BY <1>3 DEF Accounts
  <2>2. x \in cl.held => x \in ToJudge(cl, st) \/ x \in cl.held \ st.log
    BY DEF ToJudge
  <2> QED BY <1>1, <1>2, <2>1, <2>2
<1>4. CASE ~IsBelow(x, cl.frontier)
  <2>1. x \in ToJudge(cl, st)
    BY <1>1, <1>4, PassedIsJudged DEF ToJudge
  <2> QED BY <1>1, <1>2, <2>1
<1> QED BY <1>3, <1>4

\* Retrying the stalled dots moves them between buckets.
LEMMA RetryPreserves ==
    ASSUME NEW cl, NEW st, IsClient(cl), IsStore(st), Clamped(cl), NEW cov,
           NEW d \in [cl.stalled \cap st.log -> Disposition]
    PROVE  LET p == RetryStalled(cl, st, d, cov) IN
           /\ IsClient(p) /\ Clamped(p)
           /\ p.next = cl.next /\ p.frontier = cl.frontier /\ p.rejected = cl.rejected
           /\ cl.engine \subseteq p.engine
           /\ \A w, D : D \cap cov = {} /\ Accounts(cl, w, D) => Accounts(p, w, D)
<1> DEFINE p == RetryStalled(cl, st, d, cov)
<1>1. cl \in ClientSet
  BY ClientIs
<1>2. \A k : Sorted(d, k) \subseteq cl.stalled \cap st.log
  BY DEF Sorted
<1>3. cl.stalled \cap st.log = Sorted(d, "absorb") \cup Sorted(d, "hold")
                                   \cup Sorted(d, "stall") \cup Sorted(d, "drop")
  BY DEF Sorted, Disposition
<1>4. /\ Sorted(d, "hold") \cap Sorted(d, "stall") = {}
      /\ Sorted(d, "hold") \cap Sorted(d, "drop") = {}
      /\ Sorted(d, "stall") \cap Sorted(d, "drop") = {}
  BY DEF Sorted
<1>5. /\ p.next = cl.next /\ p.frontier = cl.frontier /\ p.rejected = cl.rejected
      /\ p.baseline = cl.baseline
      /\ p.held = cl.held \cup Sorted(d, "hold")
      /\ p.stalled = (cl.stalled \ st.log) \cup Sorted(d, "stall")
      /\ p.dropped = cl.dropped \cup Sorted(d, "drop")
      /\ p.engine = cl.engine \cup (Sorted(d, "absorb") \ cov)
      /\ p \in ClientSet
  BY <1>1, <1>2 DEF RetryStalled, ClientSet
<1> HIDE DEF p
<1>6. Clamped(p)
  BY <1>2, <1>4, <1>5 DEF Clamped
<1>7. ASSUME NEW w, NEW D, D \cap cov = {}, Accounts(cl, w, D)
      PROVE  Accounts(p, w, D)
  <2> SUFFICES ASSUME NEW x \in D, IsBelow(x, cl.frontier)
               PROVE  x \in p.engine \cup p.held \cup p.stalled \cup p.dropped \cup w
    BY <1>5 DEF Accounts
  <2>1. x \in cl.engine \cup cl.held \cup cl.stalled \cup cl.dropped \cup w
    BY <1>7 DEF Accounts
  <2>2. x \in cl.stalled => x \in cl.stalled \ st.log \/ x \in cl.stalled \cap st.log
    OBVIOUS
  <2> QED BY <1>3, <1>5, <1>7, <2>1, <2>2
<1> QED BY <1>5, <1>6, <1>7, ClientIs DEF p

\* cl after an append of its own: the books but for the new dot are as before.
AfterAppend(cl, a, c, kind) ==
    /\ IsClient(a) /\ a.next = cl.next + 1 /\ a.rejected = cl.rejected
    /\ a.engine = IF kind = "delta" THEN cl.engine \cup {<<c, cl.next>>} ELSE cl.engine
    /\ a.held = cl.held /\ a.stalled = cl.stalled /\ a.dropped = cl.dropped
    /\ \A r \in Replica \ {c} : At(a.frontier, r) = At(cl.frontier, r)
    /\ At(cl.frontier, c) <= At(a.frontier, c)
    /\ At(a.frontier, c) = cl.next + 1 \/ At(a.frontier, c) = At(cl.frontier, c)

\* append_entry: its own delta is in its engine, whether or not it saw it.
LEMMA AppendedFacts ==
    ASSUME NEW cl, IsClient(cl), NEW c \in Replica, NEW kind
    PROVE  /\ AfterAppend(cl, Appended(cl, c, kind), c, kind)
           /\ AfterAppend(cl, SawOwn(Appended(cl, c, kind), c), c, kind)
<1> DEFINE a == Appended(cl, c, kind)
           n == IF At(cl.frontier, c) < cl.next + 1 THEN cl.next + 1 ELSE At(cl.frontier, c)
           s == SawOwn(a, c)
<1>1. cl \in ClientSet /\ IsFrontier(cl.frontier)
  BY ClientIs DEF IsClient
<1>2. cl.next \in Nat /\ <<c, cl.next>> \in Dot
  BY <1>1 DEF ClientSet, Dot
<1>3. a \in ClientSet /\ a.next = cl.next + 1 /\ a.frontier = cl.frontier
      /\ a.engine = (IF kind = "delta" THEN cl.engine \cup {<<c, cl.next>>} ELSE cl.engine)
      /\ a.held = cl.held /\ a.stalled = cl.stalled /\ a.dropped = cl.dropped
      /\ a.rejected = cl.rejected
  <2> DEFINE e == IF kind = "delta" THEN cl.engine \cup {<<c, cl.next>>} ELSE cl.engine
  <2>1. e \in SUBSET Dot
    BY <1>1, <1>2 DEF ClientSet
  <2>2. a = [cl EXCEPT !.next = cl.next + 1, !.engine = e]
    BY <1>1 DEF Appended, ClientSet
  <2> HIDE DEF a, e
  <2>3. a \in ClientSet
    <3>1. cl.next + 1 \in Nat
      BY <1>2
    <3> QED BY <1>1, <2>1, <2>2, <3>1 DEF ClientSet
  <2>5. a.engine = e
    BY <1>1, <2>2 DEF ClientSet
  <2>4. a.next = cl.next + 1 /\ a.frontier = cl.frontier
        /\ a.held = cl.held /\ a.stalled = cl.stalled /\ a.dropped = cl.dropped
        /\ a.rejected = cl.rejected
    BY <1>1, <2>2 DEF ClientSet
  <2> QED BY <2>3, <2>4, <2>5 DEF e
<1> HIDE DEF a
<1>4. At(cl.frontier, c) \in Nat
  BY <1>1, AtIsNat
<1>5. n \in Nat /\ WithCounter(cl.frontier, c, n) \in Frontier
  BY <1>1, <1>2, <1>4, WithCounterType, FrontierIs
<1>6. s = [a EXCEPT !.frontier = WithCounter(@, c, n)]
  BY <1>3 DEF SawOwn, ClientSet
<1>7. \A r : At(WithCounter(cl.frontier, c, n), r) = IF r = c THEN n ELSE At(cl.frontier, r)
  BY DEF At, WithCounter
<1> HIDE DEF s
<1>8. s \in ClientSet /\ s.next = cl.next + 1 /\ s.engine = a.engine
      /\ s.held = cl.held /\ s.stalled = cl.stalled /\ s.dropped = cl.dropped
      /\ s.rejected = cl.rejected
      /\ s.frontier = WithCounter(cl.frontier, c, n)
  BY <1>3, <1>5, <1>6 DEF ClientSet
<1>9. At(cl.frontier, c) <= n /\ (n = cl.next + 1 \/ n = At(cl.frontier, c))
  BY <1>2, <1>4
<1> QED BY <1>3, <1>4, <1>7, <1>8, <1>9, ClientIs DEF a, s, AfterAppend

\* Adoption skips only what the snapshot contains or its publisher had waived;
\* what it purges unfolded is waived.
LEMMA MergeAccounts ==
    ASSUME NEW cl, NEW st, IsClient(cl), IsStore(st), NEW w, NEW v, NEW D, NEW ex,
           D \subseteq Dot, Accounts(cl, w, D),
           \A x \in D : IsBelow(x, st.snap.covered) => x \in st.snap.content \cup ex,
           LET m == MergeSnapshot(cl, st) IN
               w \cup ((cl.held \ m.held) \ m.engine) \cup ((cl.stalled \ m.stalled) \ m.engine)
                 \cup ((cl.dropped \ m.dropped) \ m.engine) \cup ex \subseteq v
    PROVE  Accounts(MergeSnapshot(cl, st), v, D)
<1> DEFINE m == MergeSnapshot(cl, st)
<1> SUFFICES ASSUME NEW x \in D, IsBelow(x, m.frontier)
             PROVE  x \in m.engine \cup m.held \cup m.stalled \cup m.dropped \cup v
  BY DEF Accounts
<1>1. m.engine = cl.engine \cup st.snap.content
  BY MergeTypes
<1>2. CASE IsBelow(x, cl.frontier)
  <2>1. x \in cl.engine \cup cl.held \cup cl.stalled \cup cl.dropped \cup w
    BY <1>2 DEF Accounts
  <2> HIDE DEF m
  <2> QED BY <1>1, <2>1 DEF m
<1>3. CASE ~IsBelow(x, cl.frontier)
  <2>1. x \in st.snap.content \cup ex
    BY <1>3, SkippedIsCovered
  <2> QED BY <1>1, <2>1
<1> QED BY <1>2, <1>3

\* A frontier within the counters n stays within them when a scan moves it up.
LEMMA ScanStaysBehind ==
    ASSUME NEW cl, NEW st, IsClient(cl), IsStore(st), NEW r \in Replica, NEW n \in Nat,
           At(cl.frontier, r) <= n, At(st.head, r) <= n
    PROVE  At(Scanned(cl, st), r) <= n
<1>1. At(cl.frontier, r) \in Nat /\ At(st.head, r) \in Nat
  BY AtIsNat DEF IsClient, IsStore
<1> QED BY <1>1, ScannedBounds, StopBounds

\* ... and when adoption moves it up.
LEMMA MergeStaysBehind ==
    ASSUME NEW cl, NEW st, IsClient(cl), IsStore(st), NEW r \in Replica, NEW n \in Nat,
           At(cl.frontier, r) <= n, At(st.head, r) <= n
    PROVE  At(MergeSnapshot(cl, st).frontier, r) <= n
<1>1. At(cl.frontier, r) \in Nat /\ At(st.head, r) \in Nat
  BY AtIsNat DEF IsClient, IsStore
<1>2. CASE r \in DOMAIN st.snap.covered
  BY <1>1, <1>2, MergeTypes, AdvancedBounds
<1>3. CASE r \notin DOMAIN st.snap.covered
  BY <1>3, MergeTypes
<1> QED BY <1>2, <1>3

-----------------------------------------------------------------------------
(* The inductive invariant.                                                *)

\* Counters only grow: nobody is ahead of the writer.
NobodyIsAhead ==
    \A r \in Client :
        /\ At(store.head, r) <= client[r].next
        /\ At(store.snap.covered, r) <= client[r].next
        /\ \A c \in Client : At(client[c].frontier, r) <= client[r].next

\* A session's log has no holes, whatever became of its head pointer, ...
LogIsDense == \A r \in Client : \A n \in Nat : n < client[r].next => <<r, n>> \in Written

\* ... and its own deltas are in its engine.
OwnDeltasAreFolded ==
    \A c \in Client : \A n \in Nat :
        n < client[c].next => <<c, n>> \in client[c].engine \cup covers

LogInv ==
    /\ TypeOK
    /\ \A c \in Client : Clamped(client[c])
    /\ NobodyIsAhead
    /\ LogIsDense
    /\ OwnDeltasAreFolded
    /\ \A c \in Client : Accounts(client[c], Waivers(waiver[c]), Deltas(Written))
    /\ CoverageIsContained
    /\ IsFiniteSet(store.log)

\* The invariant holds of a fresh store and fresh sessions.
LEMMA LogInvInit == Init => LogInv
<1> SUFFICES ASSUME Init PROVE LogInv
  OBVIOUS
<1> USE DEF Init, Client
<1>1. TypeOK
  BY InitialTypes DEF TypeOK, NoWaiver, Waiver
<1>2. \A f : f = EmptyFrontier => \A x \in Dot : ~IsBelow(x, f)
  BY EmptyIsFrontier DEF IsBelow, Dot
<1>3. \A c \in Client : Clamped(client[c])
  BY DEF Clamped, NewClient
<1>4. NobodyIsAhead
  BY EmptyIsFrontier DEF NobodyIsAhead, NewClient, EmptyStore, NoSnapshot
<1>5. LogIsDense /\ OwnDeltasAreFolded
  BY DEF LogIsDense, OwnDeltasAreFolded, NewClient
<1>6. Deltas(Written) = {}
  BY DEF Deltas, Written, EmptyStore
<1>7. IsFiniteSet(store.log)
  BY FS_EmptySet DEF EmptyStore
<1> QED BY <1>1, <1>3, <1>4, <1>5, <1>6, <1>7 DEF LogInv, Accounts, CoverageIsContained

\* A step of one client that writes nothing to the store.
LEMMA ClientStep ==
    ASSUME LogInv, NEW c \in Client, NEW cl, IsClient(cl), Clamped(cl),
           client' = [client EXCEPT ![c] = cl], cl.next = client[c].next,
           client[c].engine \subseteq cl.engine,
           \A r \in Client : At(cl.frontier, r) <= client[r].next,
           waiver' \in [Client -> Waiver],
           \A e \in Client \ {c} : waiver'[e] = waiver[e],
           Accounts(cl, Waivers(waiver'[c]), Deltas(Written)),
           UNCHANGED <<store, covers, snapshots, excuse>>
    PROVE  LogInv'
<1> USE DEF LogInv
<1>1. DOMAIN client = Client /\ \A e \in Client : IsClient(client[e])
  BY DEF TypeOK
<1>2. client'[c] = cl /\ \A e \in Client \ {c} : client'[e] = client[e]
  BY <1>1
<1>3. \A e \in Client : client'[e].next = client[e].next
  BY <1>2
<1>4. TypeOK'
  BY <1>1, <1>2 DEF TypeOK
<1>5. NobodyIsAhead'
  BY <1>2, <1>3 DEF NobodyIsAhead
<1>6. LogIsDense' /\ OwnDeltasAreFolded'
  BY <1>2, <1>3 DEF LogIsDense, OwnDeltasAreFolded, Written
<1>7. Deltas(Written)' = Deltas(Written)
  BY DEF Deltas, Written
<1>8. \A e \in Client : Accounts(client[e], Waivers(waiver[e]), Deltas(Written))'
  BY <1>2, <1>7 DEF Accounts
<1>9. CoverageIsContained'
  BY <1>7 DEF CoverageIsContained
<1>10. (\A e \in Client : Clamped(client[e]))'
  BY <1>2
<1> QED BY <1>4, <1>5, <1>6, <1>8, <1>9, <1>10

\* A caller's judgement is a disposition for every dot.
LEMMA JudgementType ==
    ASSUME NEW S, NEW d \in Judgements(S)
    PROVE  d \in [S -> Disposition]
BY SharedLogAssumption DEF Judgements

\* What the invariant says of one session, in the form the lemmas take it.
LEMMA SessionFacts ==
    ASSUME LogInv, NEW c \in Client
    PROVE  /\ IsStore(store) /\ IsClient(client[c]) /\ Clamped(client[c])
           /\ client[c].next \in Nat
           /\ waiver \in [Client -> Waiver] /\ DOMAIN client = Client
           /\ Deltas(Written) \subseteq Dot /\ Deltas(Written) \cap covers = {}
           /\ \A r \in Client : /\ client[r].next \in Nat
                                /\ At(store.head, r) <= client[r].next
                                /\ At(store.snap.covered, r) <= client[r].next
                                /\ At(client[c].frontier, r) <= client[r].next
           /\ Accounts(client[c], Waivers(waiver[c]), Deltas(Written))
BY DEF LogInv, TypeOK, IsStore, IsClient, Deltas, Written, NobodyIsAhead

\* Fold: pull_verified.
LEMMA FoldPreserves ==
    ASSUME LogInv, NEW c \in Client, Fold(c)
    PROVE  LogInv'
<1> PICK d \in Judgements(ToJudge(client[c], store)) :
         client' = [client EXCEPT ![c] = PullVerified(client[c], store, d, covers)]
  BY DEF Fold
<1> DEFINE cl == PullVerified(client[c], store, d, covers)
<1>1. d \in [ToJudge(client[c], store) -> Disposition]
  BY JudgementType
<1>2. IsClient(cl) /\ cl.next = client[c].next /\ client[c].engine \subseteq cl.engine
      /\ cl.frontier = Scanned(client[c], store)
  BY <1>1, SessionFacts, PullVerifiedTypes
<1>3. Clamped(cl)
  BY <1>1, SessionFacts, PullVerifiedClamped
<1>4. \A r \in Client : At(cl.frontier, r) <= client[r].next
  BY <1>2, SessionFacts, ScanStaysBehind DEF Client
<1>5. Accounts(cl, Waivers(waiver[c]), Deltas(Written))
  BY <1>1, SessionFacts, PullVerifiedAccounts
<1> HIDE DEF cl
<1>6. client' = [client EXCEPT ![c] = cl] /\ UNCHANGED <<store, covers, snapshots, waiver, excuse>>
  BY DEF Fold, cl
<1> QED BY <1>2, <1>3, <1>4, <1>5, <1>6, SessionFacts, ClientStep

\* Adopting a snapshot, or refusing it, keeps the books.
LEMMA AdoptionAccounts ==
    ASSUME LogInv, NEW c \in Client, NEW accept \in BOOLEAN, NEW v,
           LET cl == client[c]
               a == AdoptSnapshotBaseline(cl, store, accept) IN
               Waivers(waiver[c]) \cup ((cl.held \ a.held) \ a.engine)
                 \cup ((cl.stalled \ a.stalled) \ a.engine)
                 \cup ((cl.dropped \ a.dropped) \ a.engine)
                 \cup (IF accept /\ TrustsSnapshot(cl, store) THEN excuse ELSE {}) \subseteq v
    PROVE  LET cl == client[c]
               a == AdoptSnapshotBaseline(cl, store, accept) IN
           /\ IsClient(a) /\ Clamped(a) /\ a.next = cl.next /\ cl.engine \subseteq a.engine
           /\ \A r \in Client : At(a.frontier, r) <= client[r].next
           /\ Accounts(a, v, Deltas(Written))
<1> DEFINE cl == client[c]
           a == AdoptSnapshotBaseline(cl, store, accept)
           m == MergeSnapshot(cl, store)
<1>1. CASE TrustsSnapshot(cl, store) /\ accept
  <2>1. a = m
    BY <1>1 DEF AdoptSnapshotBaseline
  <2>2. IsClient(m) /\ m.next = cl.next /\ cl.engine \subseteq m.engine
    BY SessionFacts, MergeTypes
  <2>3. Clamped(m)
    BY SessionFacts, MergeClamped
  <2>4. \A r \in Client : At(m.frontier, r) <= client[r].next
    BY SessionFacts, MergeStaysBehind DEF Client
  <2>5. \A x \in Deltas(Written) :
            IsBelow(x, store.snap.covered) => x \in store.snap.content \cup excuse
    BY DEF LogInv, CoverageIsContained
  <2>6. Waivers(waiver[c]) \cup ((cl.held \ m.held) \ m.engine)
          \cup ((cl.stalled \ m.stalled) \ m.engine)
          \cup ((cl.dropped \ m.dropped) \ m.engine) \cup excuse \subseteq v
    BY <1>1, <2>1
  <2>7. Accounts(m, v, Deltas(Written))
    <3> HIDE DEF cl
    <3> QED BY <2>5, <2>6, SessionFacts, MergeAccounts DEF cl
  <2> QED BY <2>1, <2>2, <2>3, <2>4, <2>7
<1>2. CASE ~(TrustsSnapshot(cl, store) /\ accept)
  <2>1. a = cl \/ a = [cl EXCEPT !.rejected = store.snap.id]
    BY <1>2 DEF AdoptSnapshotBaseline
  <2>2. cl \in ClientSet /\ store.snap.id \in Nat
    BY SessionFacts, ClientIs DEF IsStore, IsSnapshot
  <2>3. a \in ClientSet /\ a.next = cl.next /\ a.frontier = cl.frontier /\ a.held = cl.held
        /\ a.stalled = cl.stalled /\ a.dropped = cl.dropped /\ a.engine = cl.engine
    <3> HIDE DEF cl, a
    <3> QED BY <2>1, <2>2 DEF ClientSet
  <2>4. IsClient(a)
    BY <2>3, ClientIs
  <2>5. Clamped(a)
    BY <2>3, SessionFacts DEF Clamped
  <2>6. Accounts(cl, Waivers(waiver[c]), Deltas(Written)) /\ Waivers(waiver[c]) \subseteq v
    BY SessionFacts
  <2>7. Accounts(a, v, Deltas(Written))
    <3> HIDE DEF cl, a
    <3> QED BY <2>3, <2>6 DEF Accounts
  <2> QED BY <2>3, <2>4, <2>5, <2>7, SessionFacts
<1> QED BY <1>1, <1>2

\* Bootstrap: bootstrap_verified.
LEMMA BootstrapPreserves ==
    ASSUME LogInv, NEW c \in Client, Bootstrap(c)
    PROVE  LogInv'
<1> PICK accept \in SnapshotVerdicts :
      LET cl == client[c]
          adopted == AdoptSnapshotBaseline(cl, store, accept)
      IN  /\ \E d \in Judgements(ToJudge(adopted, store)) :
                 client' = [client EXCEPT ![c] = PullVerified(adopted, store, d, covers)]
          /\ waiver' = [waiver EXCEPT
                 ![c].evicted = @ \cup ((cl.held \ adopted.held) \ adopted.engine)
                                  \cup ((cl.stalled \ adopted.stalled) \ adopted.engine),
                 ![c].unreviewed = @ \cup ((cl.dropped \ adopted.dropped) \ adopted.engine),
                 ![c].inherited = IF accept /\ TrustsSnapshot(cl, store)
                                  THEN @ \cup excuse ELSE @]
  BY DEF Bootstrap
<1> DEFINE cl == client[c]
           a == AdoptSnapshotBaseline(cl, store, accept)
           w == waiver[c]
           ev == ((cl.held \ a.held) \ a.engine) \cup ((cl.stalled \ a.stalled) \ a.engine)
           un == (cl.dropped \ a.dropped) \ a.engine
           inh == IF accept /\ TrustsSnapshot(cl, store) THEN excuse ELSE {}
           v == Waivers(w) \cup ev \cup un \cup inh
<1>1. accept \in BOOLEAN
  BY SharedLogAssumption
<1>2. /\ IsClient(a) /\ Clamped(a) /\ a.next = cl.next /\ cl.engine \subseteq a.engine
      /\ \A r \in Client : At(a.frontier, r) <= client[r].next
      /\ Accounts(a, v, Deltas(Written))
  BY <1>1, AdoptionAccounts
<1>3. cl \in ClientSet /\ w \in Waiver /\ excuse \subseteq Dot /\ waiver \in [Client -> Waiver]
  BY SessionFacts, ClientIs DEF LogInv, TypeOK
<1>4. ev \subseteq Dot /\ un \subseteq Dot /\ inh \subseteq Dot
  <2> HIDE DEF a, cl
  <2> QED BY <1>3 DEF ClientSet
<1>5. /\ waiver' \in [Client -> Waiver] /\ \A e \in Client \ {c} : waiver'[e] = waiver[e]
      /\ Waivers(waiver'[c]) = v
  <2> DEFINE u == [w EXCEPT !.evicted = @ \cup ev, !.unreviewed = @ \cup un,
                            !.inherited = @ \cup inh]
  <2> HIDE DEF ev, un, inh, w
  <2>1. u \in Waiver /\ Waivers(u) = Waivers(w) \cup ev \cup un \cup inh
    BY <1>3, <1>4 DEF Waiver, Waivers
  <2>2. waiver' = [waiver EXCEPT ![c] = u]
    BY <1>3 DEF ev, un, inh, w, Waiver
  <2> HIDE DEF u
  <2> QED BY <1>3, <2>1, <2>2
<1> HIDE DEF v
<1> PICK d \in Judgements(ToJudge(a, store)) :
      client' = [client EXCEPT ![c] = PullVerified(a, store, d, covers)]
  OBVIOUS
<1> DEFINE p == PullVerified(a, store, d, covers)
<1>6. d \in [ToJudge(a, store) -> Disposition]
  BY JudgementType
<1> HIDE DEF a
<1>7. IsClient(p) /\ p.next = cl.next /\ cl.engine \subseteq p.engine
      /\ p.frontier = Scanned(a, store)
  BY <1>2, <1>6, SessionFacts, PullVerifiedTypes
<1>8. Clamped(p)
  BY <1>2, <1>6, SessionFacts, PullVerifiedClamped
<1>9. \A r \in Client : At(p.frontier, r) <= client[r].next
  BY <1>2, <1>7, SessionFacts, ScanStaysBehind DEF Client
<1>10. Accounts(p, v, Deltas(Written))
  BY <1>2, <1>6, SessionFacts, PullVerifiedAccounts
<1> HIDE DEF p
<1>11. client' = [client EXCEPT ![c] = p] /\ UNCHANGED <<store, covers, snapshots, excuse>>
  BY DEF Bootstrap, p
<1> QED BY <1>5, <1>7, <1>8, <1>9, <1>10, <1>11, ClientStep

\* Retry: retry_stalled.
LEMMA RetryStepPreserves ==
    ASSUME LogInv, NEW c \in Client, Retry(c)
    PROVE  LogInv'
<1> PICK d \in Judgements(client[c].stalled \cap store.log) :
         client' = [client EXCEPT ![c] = RetryStalled(client[c], store, d, covers)]
  BY DEF Retry
<1> DEFINE cl == RetryStalled(client[c], store, d, covers)
<1>1. d \in [client[c].stalled \cap store.log -> Disposition]
  BY JudgementType
<1>2. /\ IsClient(cl) /\ Clamped(cl) /\ cl.next = client[c].next
      /\ client[c].engine \subseteq cl.engine /\ cl.frontier = client[c].frontier
      /\ \A w, D : D \cap covers = {} /\ Accounts(client[c], w, D) => Accounts(cl, w, D)
  <2>1. IsClient(client[c]) /\ IsStore(store) /\ Clamped(client[c])
    BY SessionFacts
  <2> QED BY ONLY <1>1, <2>1, RetryPreserves
<1>4. Accounts(cl, Waivers(waiver[c]), Deltas(Written))
  BY <1>2, SessionFacts
<1> HIDE DEF cl
<1>3. client' = [client EXCEPT ![c] = cl] /\ UNCHANGED <<store, covers, snapshots, waiver, excuse>>
  BY DEF Retry, cl
<1> QED BY <1>2, <1>3, <1>4, SessionFacts, ClientStep

\* A dropped dot leaves the books for the engine, or for the waivers.
LEMMA UndropPreserves ==
    ASSUME LogInv, NEW c \in Client, NEW x \in client[c].dropped, NEW E,
           E = client[c].engine \/ E = client[c].engine \cup {x},
           client' = [client EXCEPT ![c] = [client[c] EXCEPT !.dropped = @ \ {x}, !.engine = E]],
           \/ waiver' = waiver /\ x \in E
           \/ waiver' = [waiver EXCEPT ![c].discarded = @ \cup {x}],
           UNCHANGED <<store, covers, snapshots, excuse>>
    PROVE  LogInv'
<1> DEFINE cl == [client[c] EXCEPT !.dropped = @ \ {x}, !.engine = E]
           w == waiver[c]
           u == [w EXCEPT !.discarded = @ \cup {x}]
<1>1. client[c] \in ClientSet /\ w \in Waiver /\ waiver \in [Client -> Waiver]
  BY SessionFacts, ClientIs
<1>2. x \in Dot /\ E \in SUBSET Dot
  BY <1>1 DEF ClientSet
<1>3. /\ cl \in ClientSet /\ cl.next = client[c].next /\ cl.frontier = client[c].frontier
      /\ cl.held = client[c].held /\ cl.stalled = client[c].stalled
      /\ cl.dropped = client[c].dropped \ {x} /\ cl.engine = E
  BY <1>1, <1>2 DEF ClientSet
<1>4. Clamped(cl)
  BY <1>3, SessionFacts DEF Clamped
<1>5. u \in Waiver /\ Waivers(u) = Waivers(w) \cup {x}
  BY <1>1, <1>2 DEF Waiver, Waivers
<1>6. /\ waiver' \in [Client -> Waiver] /\ \A e \in Client \ {c} : waiver'[e] = waiver[e]
      /\ Waivers(w) \subseteq Waivers(waiver'[c])
      /\ x \in E \cup Waivers(waiver'[c])
  <2>1. CASE waiver' = waiver /\ x \in E
    BY <1>1, <2>1
  <2>2. CASE waiver' = [waiver EXCEPT ![c].discarded = @ \cup {x}]
    <3>1. waiver' = [waiver EXCEPT ![c] = u]
      BY <1>1, <2>2 DEF Waiver
    <3> HIDE DEF u
    <3> QED BY <1>1, <1>5, <3>1
  <2> QED BY <2>1, <2>2
<1> HIDE DEF cl, w, u
<1>7. Accounts(cl, Waivers(waiver'[c]), Deltas(Written))
  <2>1. Accounts(client[c], Waivers(w), Deltas(Written))
    BY SessionFacts DEF w
  <2> QED BY <1>3, <1>6, <2>1 DEF Accounts
<1>8. IsClient(cl) /\ client[c].engine \subseteq cl.engine
  BY <1>3, ClientIs
<1>9. client' = [client EXCEPT ![c] = cl]
  BY DEF cl
<1> QED BY <1>3, <1>4, <1>6, <1>7, <1>8, <1>9, SessionFacts, ClientStep

\* ReadmitDropped and Forget: readmit_dropped, forget_dropped.
LEMMA DroppedStepsPreserve ==
    ASSUME LogInv, NEW c \in Client, ReadmitDropped(c) \/ Forget(c)
    PROVE  LogInv'
<1>1. client[c] \in ClientSet /\ waiver \in [Client -> Waiver]
  BY SessionFacts, ClientIs
<1>2. CASE ReadmitDropped(c)
  <2> PICK x \in client[c].dropped :
        /\ client' = [client EXCEPT ![c] = Readmit(client[c], store, x)]
        /\ waiver' = [waiver EXCEPT ![c].discarded = IF x \in store.log THEN @ ELSE @ \cup {x}]
    BY <1>2 DEF ReadmitDropped
  <2> DEFINE E == IF x \in store.log THEN client[c].engine \cup {x} ELSE client[c].engine
  <2>1. Readmit(client[c], store, x) = [client[c] EXCEPT !.dropped = @ \ {x}, !.engine = E]
    BY <1>1 DEF Readmit, ClientSet
  <2>2. \/ waiver' = waiver /\ x \in E
        \/ waiver' = [waiver EXCEPT ![c].discarded = @ \cup {x}]
    BY <1>1 DEF Waiver
  <2>3. UNCHANGED <<store, covers, snapshots, excuse>>
    BY <1>2 DEF ReadmitDropped
  <2> QED BY <2>1, <2>2, <2>3, UndropPreserves
<1>3. CASE Forget(c)
  <2> PICK x \in client[c].dropped :
        /\ client' = [client EXCEPT ![c] = ForgetDropped(client[c], x)]
        /\ waiver' = [waiver EXCEPT ![c].discarded = @ \cup {x}]
    BY <1>3 DEF Forget
  <2>1. ForgetDropped(client[c], x) =
            [client[c] EXCEPT !.dropped = @ \ {x}, !.engine = client[c].engine]
    BY <1>1 DEF ForgetDropped, ClientSet
  <2>2. UNCHANGED <<store, covers, snapshots, excuse>>
    BY <1>3 DEF Forget
  <2> QED BY <2>1, <2>2, UndropPreserves
<1> QED BY <1>2, <1>3

\* Re-counting the log (compact, maybe_compact) changes nothing else.
LEMMA RebaseFacts ==
    ASSUME LogInv, NEW c \in Client
    PROVE  LET b == Rebase(client[c], store)
               cl == client[c] IN
           /\ IsClient(b) /\ Clamped(b) /\ b.next = cl.next /\ b.frontier = cl.frontier
           /\ b.engine = cl.engine /\ b.rejected = cl.rejected
           /\ \A w, D : Accounts(cl, w, D) => Accounts(b, w, D)
<1> DEFINE b == Rebase(client[c], store)
           cl == client[c]
<1>1. cl \in ClientSet
  BY SessionFacts, ClientIs
<1>2. Cardinality(store.log) \in Nat
  BY FS_CardinalityType DEF LogInv
<1>3. /\ b \in ClientSet /\ b.next = cl.next /\ b.frontier = cl.frontier
      /\ b.engine = cl.engine /\ b.held = cl.held /\ b.stalled = cl.stalled
      /\ b.dropped = cl.dropped /\ b.rejected = cl.rejected
  <2> HIDE DEF cl
  <2>1. b = [cl EXCEPT !.baseline = Cardinality(store.log)]
    BY DEF Rebase, cl
  <2> HIDE DEF b
  <2> QED BY <1>1, <1>2, <2>1 DEF ClientSet
<1> HIDE DEF b
<1>4. Clamped(b)
  BY <1>3, SessionFacts DEF Clamped
<1>5. \A w, D : Accounts(cl, w, D) => Accounts(b, w, D)
  BY <1>3 DEF Accounts
<1> QED BY <1>3, <1>4, <1>5, ClientIs DEF b

\* SkipCompaction: maybe_compact, when a peer has covered the client.
LEMMA SkipPreserves ==
    ASSUME LogInv, NEW c \in Client, SkipCompaction(c)
    PROVE  LogInv'
<1> DEFINE b == Rebase(client[c], store)
<1>1. IsClient(b) /\ Clamped(b) /\ b.next = client[c].next /\ b.frontier = client[c].frontier
      /\ b.engine = client[c].engine
      /\ Accounts(b, Waivers(waiver[c]), Deltas(Written))
  BY RebaseFacts, SessionFacts
<1> HIDE DEF b
<1>2. client' = [client EXCEPT ![c] = b] /\ UNCHANGED <<store, covers, snapshots, waiver, excuse>>
  BY DEF SkipCompaction, b
<1> QED BY <1>1, <1>2, SessionFacts, ClientStep

\* C3, for one client: a delta below its subsumed frontier is in its engine, or
\* waived.
LEMMA SubsumedIsAccounted ==
    ASSUME LogInv, NEW c \in Client, NEW x \in Deltas(Written),
           IsBelow(x, SubsumedFrontier(client[c]))
    PROVE  x \in client[c].engine \cup Waived(c)
<1> DEFINE cl == client[c]
<1>1. IsClient(cl) /\ x \in Dot
  BY SessionFacts
<1>2. IsFrontier(cl.frontier) /\ IsFrontier(SubsumedFrontier(cl))
  BY <1>1, SubsumedBounds DEF IsClient
<1>3. IsBelow(x, cl.frontier)
  BY <1>1, <1>2, SubsumedBounds, IsBelowMonotone
<1>4. x \notin cl.held \cup cl.stalled
  BY <1>1, SubsumedBounds
<1> QED BY <1>3, <1>4, SessionFacts DEF Accounts, Waived, Waivers

\* Compact: the new snapshot's coverage is the publisher's subsumed frontier.
LEMMA CompactPreserves ==
    ASSUME LogInv, NEW c \in Client, Compact(c)
    PROVE  LogInv'
<1> DEFINE b == Rebase(client[c], store)
           snap == [id |-> snapshots + 1, covered |-> SubsumedFrontier(client[c]),
                    content |-> client[c].engine]
<1>1. /\ client' = [client EXCEPT ![c] = b]
      /\ store' = [store EXCEPT !.snap = snap]
      /\ snapshots' = snapshots + 1 /\ excuse' = Waived(c)
      /\ covers' = covers /\ waiver' = waiver
  BY DEF Compact, PublishSnapshot
<1>2. store \in StoreSet /\ client[c] \in ClientSet /\ snapshots \in Nat
      /\ waiver \in [Client -> Waiver] /\ DOMAIN client = Client
      /\ covers \subseteq Dot /\ (\A e \in Client : IsClient(client[e]))
  BY SessionFacts, StoreIs, ClientIs DEF LogInv, TypeOK
<1>3. IsFrontier(SubsumedFrontier(client[c]))
      /\ \A r : At(SubsumedFrontier(client[c]), r) <= At(client[c].frontier, r)
  BY SessionFacts, SubsumedBounds
<1>4. snap \in SnapshotSet
  <2>1. SubsumedFrontier(client[c]) \in Frontier
    BY <1>3, FrontierIs
  <2> QED BY <1>2, <2>1 DEF SnapshotSet, ClientSet
<1>5. IsClient(b) /\ Clamped(b) /\ b.next = client[c].next /\ b.frontier = client[c].frontier
      /\ b.engine = client[c].engine
      /\ Accounts(b, Waivers(waiver[c]), Deltas(Written))
  BY RebaseFacts, SessionFacts
<1>6. store'.snap.covered = SubsumedFrontier(client[c]) /\ store'.snap.content = client[c].engine
  BY <1>1, <1>2 DEF StoreSet
<1> HIDE DEF b, snap
<1>7. store' \in StoreSet /\ store'.log = store.log /\ store'.gone = store.gone
      /\ store'.head = store.head
  BY <1>1, <1>2, <1>4 DEF StoreSet
<1>8. client'[c] = b /\ \A e \in Client \ {c} : client'[e] = client[e]
  BY <1>1, <1>2
<1>9. TypeOK'
  <2>1. Waived(c) \subseteq Dot
    BY <1>2 DEF Waived, Waiver, ClientSet
  <2>2. IsStore(store')
    BY <1>7, StoreIs
  <2>3. DOMAIN client' = Client /\ \A e \in Client : IsClient(client'[e])
    BY <1>1, <1>2, <1>5, <1>8
  <2> QED BY <1>1, <1>2, <2>1, <2>2, <2>3 DEF TypeOK
<1>10. NobodyIsAhead'
  <2> SUFFICES ASSUME NEW r \in Client
               PROVE  /\ At(store'.head, r) <= client'[r].next
                      /\ At(store'.snap.covered, r) <= client'[r].next
                      /\ \A e \in Client : At(client'[e].frontier, r) <= client'[r].next
    BY DEF NobodyIsAhead
  <2>1. client'[r].next = client[r].next
    BY <1>5, <1>8
  <2>2. At(SubsumedFrontier(client[c]), r) \in Nat /\ At(client[c].frontier, r) \in Nat
        /\ client[r].next \in Nat /\ At(client[c].frontier, r) <= client[r].next
        /\ At(SubsumedFrontier(client[c]), r) <= At(client[c].frontier, r)
    BY <1>3, SessionFacts, AtIsNat DEF IsClient
  <2>3. At(store'.snap.covered, r) <= client'[r].next
    BY <1>6, <2>1, <2>2
  <2>4. \A e \in Client : At(client'[e].frontier, r) <= client'[r].next
    BY <1>5, <1>8, <2>1, SessionFacts
  <2>5. At(store'.head, r) <= client'[r].next
    BY <1>7, <2>1, SessionFacts
  <2> QED BY <2>3, <2>4, <2>5
<1>11. (Written)' = Written /\ Deltas(Written)' = Deltas(Written)
  BY <1>1, <1>7 DEF Written, Deltas
<1>12. LogIsDense' /\ OwnDeltasAreFolded'
  <2>1. LogIsDense /\ OwnDeltasAreFolded
    BY DEF LogInv
  <2>2. \A e \in Client : client'[e].next = client[e].next /\ client'[e].engine = client[e].engine
    BY <1>5, <1>8
  <2> QED BY <1>1, <1>11, <2>1, <2>2 DEF LogIsDense, OwnDeltasAreFolded
<1>13. (\A e \in Client : Clamped(client[e]))'
  BY <1>5, <1>8 DEF LogInv
<1>14. (\A e \in Client : Accounts(client[e], Waivers(waiver[e]), Deltas(Written)))'
  <2>1. \A e \in Client : Accounts(client[e], Waivers(waiver[e]), Deltas(Written))
    BY DEF LogInv
  <2>2. \A e \in Client : Accounts(client'[e], Waivers(waiver'[e]), Deltas(Written))
    BY <1>1, <1>5, <1>8, <2>1
  <2> QED BY <1>11, <2>2 DEF Accounts
<1>15. CoverageIsContained'
  <2>1. \A x \in Deltas(Written) :
            IsBelow(x, store'.snap.covered) => x \in store'.snap.content \cup excuse'
    BY <1>1, <1>6, SubsumedIsAccounted
  <2> QED BY <1>11, <2>1 DEF CoverageIsContained
<1>16. IsFiniteSet(store.log)'
  BY <1>7 DEF LogInv
<1> QED BY <1>9, <1>10, <1>12, <1>13, <1>14, <1>15, <1>16 DEF LogInv

\* Append and AppendHeadLost: the new dot is above every frontier, and whatever
\* a session skips in its own log it wrote itself.
LEMMA AppendPreserves ==
    ASSUME LogInv, NEW c \in Client, NEW kind \in Kinds,
           Append(c, kind) \/ AppendHeadLost(c, kind)
    PROVE  LogInv'
<1> DEFINE old == client[c]
           x == <<c, old.next>>
           cl == client'[c]
<1>1. /\ store \in StoreSet /\ old.next \in Nat /\ c \in Replica
      /\ DOMAIN client = Client /\ (\A e \in Client : IsClient(client[e]))
      /\ IsClient(old) /\ IsFrontier(store.head) /\ IsFrontier(old.frontier)
      /\ covers \subseteq Dot /\ waiver \in [Client -> Waiver] /\ excuse \subseteq Dot
      /\ snapshots \in Nat
  BY SessionFacts, StoreIs DEF LogInv, TypeOK, Client, IsStore, IsClient
<1>2. x \in Dot /\ old.next + 1 \in Nat
  BY <1>1 DEF Dot
<1>3. /\ UNCHANGED <<snapshots, waiver, excuse>>
      /\ covers' = IF kind = "cover" THEN covers \cup {x} ELSE covers
      /\ \E k : client' = [client EXCEPT ![c] = k]
  BY DEF Append, AppendHeadLost
<1>4. \A e \in Client \ {c} : client'[e] = client[e]
  BY <1>1, <1>3
<1>5. DOMAIN client' = Client
  BY <1>1, <1>3
<1>6. /\ IsClient(cl) /\ cl.next = old.next + 1
      /\ cl.engine = IF kind = "delta" THEN old.engine \cup {x} ELSE old.engine
      /\ cl.held = old.held /\ cl.stalled = old.stalled /\ cl.dropped = old.dropped
      /\ \A r \in Replica \ {c} : At(cl.frontier, r) = At(old.frontier, r)
      /\ At(old.frontier, c) <= At(cl.frontier, c)
      /\ At(cl.frontier, c) = old.next + 1 \/ At(cl.frontier, c) = At(old.frontier, c)
  <2>1. \/ cl = Appended(old, c, kind)
        \/ cl = SawOwn(Appended(old, c, kind), c)
    BY <1>1 DEF Append, AppendHeadLost
  <2>2. AfterAppend(old, cl, c, kind)
    <3> HIDE DEF old, cl
    <3> QED BY <1>1, <2>1, AppendedFacts
  <2> HIDE DEF old, cl
  <2> QED BY <2>2 DEF AfterAppend
<1>7. /\ store' \in StoreSet /\ store'.log = store.log \cup {x} /\ store'.gone = store.gone
      /\ store'.snap = store.snap
      /\ store'.head = store.head \/ store'.head = WithCounter(store.head, c, old.next + 1)
  <2> DEFINE h == WithCounter(store.head, c, old.next + 1)
  <2>1. h \in Frontier
    BY <1>1, <1>2, WithCounterType, FrontierIs
  <2>2. \/ store' = [store EXCEPT !.log = @ \cup {x}]
        \/ store' = [store EXCEPT !.log = @ \cup {x}, !.head = h]
    BY <1>1 DEF Append, AppendHeadLost, PutEntry, WithHead, StoreSet
  <2> HIDE DEF x, h
  <2>3. store' \in StoreSet /\ store'.log = store.log \cup {x} /\ store'.gone = store.gone
        /\ store'.snap = store.snap /\ (store'.head = store.head \/ store'.head = h)
    BY <1>1, <1>2, <2>1, <2>2 DEF StoreSet
  <2> QED BY <2>3 DEF h
<1>8. \A r : At(store'.head, r) = At(store.head, r) \/ (r = c /\ At(store'.head, r) = old.next + 1)
  BY <1>7 DEF At, WithCounter
<1>9. (Written)' = Written \cup {x}
  BY <1>7 DEF Written
<1> HIDE DEF cl, old, x
<1>10. covers \subseteq covers' /\ Deltas(Written)' \subseteq Deltas(Written) \cup {x}
       /\ (x \in Deltas(Written)' => kind = "delta")
  <2>1. Deltas(Written)' = (Written)' \ covers'
    BY DEF Deltas
  <2>2. Deltas(Written) = Written \ covers
    BY DEF Deltas
  <2>3. kind \in {"delta", "cover"}
    BY SharedLogAssumption
  <2> QED BY <1>3, <1>9, <2>1, <2>2, <2>3
<1>11. \A r \in Client : client[r].next \in Nat /\ client[r].next <= client'[r].next
                         /\ client'[r].next \in Nat
  BY <1>1, <1>2, <1>4, <1>6, SessionFacts DEF cl, old
<1>12. TypeOK'
  <2>1. covers' \subseteq Dot
    BY <1>1, <1>2, <1>3
  <2>2. IsStore(store')
    BY <1>7, StoreIs
  <2>3. \A e \in Client : IsClient(client'[e])
    BY <1>1, <1>4, <1>6 DEF cl
  <2> QED BY <1>1, <1>3, <1>5, <2>1, <2>2, <2>3 DEF TypeOK
<1>13. (\A e \in Client : Clamped(client[e]))'
  <2>1. \A r \in Replica : At(old.frontier, r) <= At(cl.frontier, r)
    BY <1>1, <1>6, AtIsNat
  <2>2. old.held \cup old.stalled \cup old.dropped \subseteq Dot /\ IsFrontier(cl.frontier)
    BY <1>1, <1>6 DEF IsClient
  <2>3. Clamped(old)
    BY SessionFacts DEF old
  <2>4. \A y \in old.held \cup old.stalled \cup old.dropped : IsBelow(y, cl.frontier)
    BY <1>1, <2>1, <2>2, <2>3, IsBelowMonotone DEF Clamped, Dot
  <2>5. Clamped(cl)
    BY <1>6, <2>3, <2>4 DEF Clamped
  <2> QED BY <1>4, <2>5 DEF LogInv, cl
<1>14. NobodyIsAhead'
  <2> SUFFICES ASSUME NEW r \in Client
               PROVE  /\ At(store'.head, r) <= client'[r].next
                      /\ At(store'.snap.covered, r) <= client'[r].next
                      /\ \A e \in Client : At(client'[e].frontier, r) <= client'[r].next
    BY DEF NobodyIsAhead
  <2>1. /\ At(store.head, r) \in Nat /\ At(store.snap.covered, r) \in Nat
        /\ At(store.head, r) <= client[r].next /\ At(store.snap.covered, r) <= client[r].next
    BY SessionFacts, AtIsNat DEF IsStore, IsSnapshot
  <2>2. \A e \in Client : /\ At(client[e].frontier, r) \in Nat
                          /\ At(client[e].frontier, r) <= client[r].next
    BY <1>1, SessionFacts, AtIsNat DEF IsClient
  <2>3. client'[c].next = old.next + 1
    BY <1>6 DEF cl
  <2>4. At(store'.head, r) <= client'[r].next
    BY <1>8, <1>11, <2>1, <2>3, <1>2
  <2>5. At(store'.snap.covered, r) <= client'[r].next
    BY <1>7, <1>11, <2>1
  <2>6. At(cl.frontier, r) <= client'[r].next
    <3>1. At(old.frontier, r) \in Nat /\ At(old.frontier, r) <= client[r].next
      BY <2>2 DEF old
    <3>2. At(cl.frontier, r) = At(old.frontier, r) \/ (r = c /\ At(cl.frontier, r) = old.next + 1)
      BY <1>6 DEF Client
    <3> QED BY <1>2, <1>11, <2>3, <3>1, <3>2
  <2>7. \A e \in Client \ {c} : At(client'[e].frontier, r) <= client'[r].next
    BY <1>4, <1>11, <2>2
  <2> QED BY <2>4, <2>5, <2>6, <2>7 DEF cl
<1>15. LogIsDense'
  <2> SUFFICES ASSUME NEW r \in Client, NEW n \in Nat, n < client'[r].next
               PROVE  <<r, n>> \in (Written)'
    BY DEF LogIsDense
  <2>1. CASE n < client[r].next
    BY <1>9, <2>1 DEF LogInv, LogIsDense
  <2>2. CASE ~(n < client[r].next)
    <3>1. r = c
      BY <1>4, <2>2
    <3>2. n = old.next
      BY <1>1, <1>6, <2>2, <3>1 DEF cl, old
    <3> QED BY <1>9, <3>1, <3>2 DEF x
  <2> QED BY <2>1, <2>2
<1>16. OwnDeltasAreFolded'
  <2> SUFFICES ASSUME NEW e \in Client, NEW n \in Nat, n < client'[e].next
               PROVE  <<e, n>> \in client'[e].engine \cup covers'
    BY DEF OwnDeltasAreFolded
  <2>1. OwnDeltasAreFolded
    BY DEF LogInv
  <2>2. CASE e # c
    BY <1>4, <1>10, <2>1, <2>2 DEF OwnDeltasAreFolded
  <2>3. CASE e = c /\ n < old.next
    BY <1>6, <1>10, <2>1, <2>3 DEF OwnDeltasAreFolded, cl, old
  <2>4. CASE e = c /\ ~(n < old.next)
    <3>1. n = old.next
      BY <1>1, <1>6, <2>4 DEF cl
    <3>2. kind \in {"delta", "cover"}
      BY SharedLogAssumption
    <3>3. x \in cl.engine \cup covers'
      BY <1>3, <1>6, <3>2
    <3> QED BY <2>4, <3>1, <3>3 DEF cl, x
  <2> QED BY <2>2, <2>3, <2>4
<1>17. (\A e \in Client : Accounts(client[e], Waivers(waiver[e]), Deltas(Written)))'
  <2> SUFFICES ASSUME NEW e \in Client, NEW y \in Deltas(Written)', IsBelow(y, client'[e].frontier)
               PROVE  y \in client'[e].engine \cup client'[e].held \cup client'[e].stalled
                             \cup client'[e].dropped \cup Waivers(waiver[e])
    BY <1>3 DEF Accounts
  <2>1. Accounts(client[e], Waivers(waiver[e]), Deltas(Written))
    BY SessionFacts
  <2>2. At(client[e].frontier, c) \in Nat /\ At(client[e].frontier, c) <= old.next
    BY <1>1, SessionFacts, AtIsNat DEF old, IsClient
  <2>3. ~IsBelow(x, client[e].frontier)
    BY <1>1, <2>2 DEF IsBelow, x
  <2>4. CASE e # c
    BY <1>4, <1>10, <2>1, <2>3, <2>4 DEF Accounts
  <2>5. CASE e = c /\ y = x
    BY <1>6, <1>10, <2>5 DEF cl
  <2>6. CASE e = c /\ y # x
    <3>1. y \in Deltas(Written) /\ y \in Dot /\ y \in (Written)' /\ y \notin covers
      <4>1. y \in Deltas(Written)
        BY <1>10, <2>6
      <4>2. Deltas(Written) \subseteq Dot
        BY SessionFacts
      <4> QED BY <1>9, <4>1, <4>2 DEF Deltas
    <3>2. CASE IsBelow(y, old.frontier)
      BY <1>6, <2>1, <2>6, <3>1, <3>2 DEF Accounts, old, cl
    <3>3. CASE ~IsBelow(y, old.frontier)
      <4>1. y[1] \in Replica /\ y[2] \in Nat /\ y = <<y[1], y[2]>>
        BY <3>1 DEF Dot
      <4>2. y[1] = c /\ y[2] < old.next + 1
        BY <1>6, <2>6, <3>3, <4>1 DEF IsBelow, cl
      <4>3. y[2] # old.next
        BY <2>6, <4>1, <4>2 DEF x
      <4>4. y[2] < old.next
        BY <1>1, <4>1, <4>2, <4>3
      <4>5. y \in old.engine \cup covers
        BY <4>1, <4>2, <4>4 DEF LogInv, OwnDeltasAreFolded, old
      <4> QED BY <1>6, <2>6, <3>1, <4>5 DEF cl
    <3> QED BY <3>2, <3>3
  <2> QED BY <2>4, <2>5, <2>6
<1>18. CoverageIsContained'
  <2> SUFFICES ASSUME NEW y \in Deltas(Written)', IsBelow(y, store.snap.covered)
               PROVE  y \in store.snap.content \cup excuse
    BY <1>3, <1>7 DEF CoverageIsContained
  <2>1. At(store.snap.covered, c) \in Nat /\ At(store.snap.covered, c) <= old.next
    BY SessionFacts, AtIsNat DEF IsStore, IsSnapshot, old
  <2>2. y # x
    BY <1>1, <2>1 DEF IsBelow, x
  <2> QED BY <1>10, <2>2 DEF LogInv, CoverageIsContained
<1>19. IsFiniteSet(store.log)'
  BY <1>7, FS_AddElement DEF LogInv
<1> QED BY <1>12, <1>13, <1>14, <1>15, <1>16, <1>17, <1>18, <1>19 DEF LogInv

\* Reap: an object that was there is still accounted as written.
LEMMA ReapPreserves ==
    ASSUME LogInv, Reap
    PROVE  LogInv'
<1> PICK x \in store.log :
      /\ IsBelow(x, store.snap.covered)
      /\ store' = [store EXCEPT !.log = @ \ {x}, !.gone = @ \cup {x}]
  BY DEF Reap
<1>1. UNCHANGED <<client, covers, snapshots, waiver, excuse>>
  BY DEF Reap
<1>2. store \in StoreSet
  BY StoreIs DEF LogInv, TypeOK
<1>3. /\ store' \in StoreSet /\ store'.log = store.log \ {x} /\ store'.gone = store.gone \cup {x}
      /\ store'.head = store.head /\ store'.snap = store.snap
  BY <1>2 DEF StoreSet
<1>4. (Written)' = Written
  BY <1>3 DEF Written
<1>5. Deltas(Written)' = Deltas(Written)
  BY <1>1, <1>4 DEF Deltas
<1>6. TypeOK'
  BY <1>1, <1>3, StoreIs DEF LogInv, TypeOK
<1>7. NobodyIsAhead'
  BY <1>1, <1>3 DEF LogInv, NobodyIsAhead
<1>8. LogIsDense' /\ OwnDeltasAreFolded' /\ CoverageIsContained'
  BY <1>1, <1>3, <1>4, <1>5 DEF LogInv, LogIsDense, OwnDeltasAreFolded, CoverageIsContained
<1>9. (\A c \in Client : Clamped(client[c]))'
  BY <1>1 DEF LogInv
<1>10. (\A c \in Client : Accounts(client[c], Waivers(waiver[c]), Deltas(Written)))'
  BY <1>1, <1>5 DEF LogInv
<1>11. IsFiniteSet(store.log)'
  BY <1>3, FS_RemoveElement DEF LogInv
<1> QED BY <1>6, <1>7, <1>8, <1>9, <1>10, <1>11 DEF LogInv

\* Every step preserves the invariant.
LEMMA LogInvNext == LogInv /\ [Next]_vars => LogInv'
<1> SUFFICES ASSUME LogInv, [Next]_vars PROVE LogInv'
  OBVIOUS
<1>1. ASSUME NEW c \in Client, NEW kind \in Kinds, Append(c, kind) \/ AppendHeadLost(c, kind)
      PROVE  LogInv'
  BY <1>1, AppendPreserves
<1>2. ASSUME NEW c \in Client, Fold(c) PROVE LogInv'
  BY <1>2, FoldPreserves
<1>3. ASSUME NEW c \in Client, Bootstrap(c) PROVE LogInv'
  BY <1>3, BootstrapPreserves
<1>4. ASSUME NEW c \in Client, Retry(c) PROVE LogInv'
  BY <1>4, RetryStepPreserves
<1>5. ASSUME NEW c \in Client, MaybeCompact(c) \/ Compact(c) PROVE LogInv'
  BY <1>5, CompactPreserves DEF MaybeCompact
<1>6. ASSUME NEW c \in Client, SkipCompaction(c) PROVE LogInv'
  BY <1>6, SkipPreserves
<1>7. ASSUME NEW c \in Client, ReadmitDropped(c) \/ Forget(c) PROVE LogInv'
  BY <1>7, DroppedStepsPreserve
<1>8. CASE Reap
  BY <1>8, ReapPreserves
<1>9. CASE UNCHANGED vars
  BY <1>9 DEF LogInv, TypeOK, NobodyIsAhead, LogIsDense, OwnDeltasAreFolded,
              CoverageIsContained, Written, Deltas, vars
<1> QED BY <1>1, <1>2, <1>3, <1>4, <1>5, <1>6, <1>7, <1>8, <1>9 DEF Next

\* In every behaviour the books balance.
LEMMA LogCorrect == Spec => []LogInv
<1>1. Init => LogInv
  BY LogInvInit
<1>2. LogInv /\ [Next]_vars => LogInv'
  BY LogInvNext
<1> QED BY <1>1, <1>2, PTL DEF Spec

-----------------------------------------------------------------------------
(* Theorems.                                                               *)

\* The store, the sessions and the history keep their types.
THEOREM TypeCorrect == Spec => []TypeOK
<1>1. LogInv => TypeOK
  BY DEF LogInv
<1> QED BY <1>1, LogCorrect, PTL

\* Every held, stalled or dropped dot stays below its client's frontier, in one
\* bucket: the clamp of subsumed_frontier never skips a blocker.
THEOREM BlockersStayClamped == Spec => []BlockersAreClamped
<1>1. LogInv => BlockersAreClamped
  BY DEF LogInv, BlockersAreClamped, Clamped
<1> QED BY <1>1, LogCorrect, PTL

\* A head pointer never announces an entry that was not stored.
THEOREM HeadStaysBacked == Spec => []HeadIsBacked
<1>1. LogInv => HeadIsBacked
  <2> SUFFICES ASSUME LogInv, NEW r \in DOMAIN store.head, NEW n \in 0..(store.head[r] - 1)
               PROVE  <<r, n>> \in Written
    BY DEF HeadIsBacked
  <2>1. IsFrontier(store.head)
    BY DEF LogInv, TypeOK, IsStore
  <2>2. r \in Client /\ store.head[r] \in Nat /\ At(store.head, r) = store.head[r]
    BY <2>1 DEF IsFrontier, At, Client
  <2>3. client[r].next \in Nat /\ store.head[r] <= client[r].next
    BY <2>2, SessionFacts
  <2>4. n \in Nat /\ n < client[r].next
    BY <2>2, <2>3
  <2> QED BY <2>2, <2>4 DEF LogInv, LogIsDense
<1> QED BY <1>1, LogCorrect, PTL

\* C3: what a client's subsumed frontier claims, its engine holds, up to what
\* the client explicitly waived.
THEOREM SubsumedStaysFolded == Spec => []SubsumedIsFolded
<1>1. LogInv => SubsumedIsFolded
  BY SubsumedIsAccounted DEF SubsumedIsFolded
<1> QED BY <1>1, LogCorrect, PTL

\* A published snapshot contains what its covered frontier claims: compaction
\* loses nothing its publisher had not waived, whoever publishes.
THEOREM CoverageStaysContained == Spec => []CoverageIsContained
<1>1. LogInv => CoverageIsContained
  BY DEF LogInv
<1> QED BY <1>1, LogCorrect, PTL

-----------------------------------------------------------------------------
(* Coverage is monotone, and without refusals nothing reaped is lost.      *)

\* No object, no claim.
AbsentClaimsNothing == store.snap.id = 0 => DOMAIN store.snap.covered = {}

\* What a step does to the snapshot: nothing, unless it is a compaction.
LEMMA SnapshotSteps ==
    ASSUME LogInv, [Next]_vars
    PROVE  \/ store'.snap = store.snap
           \/ \E c \in Client :
                /\ MayPublish(client[c], store)
                /\ store'.snap = [id |-> snapshots + 1,
                                  covered |-> SubsumedFrontier(client[c]),
                                  content |-> client[c].engine]
                /\ store'.gone = store.gone
                /\ snapshots' = snapshots + 1
                /\ client' = [client EXCEPT ![c] = Rebase(client[c], store)]
<1>1. store \in StoreSet
  BY StoreIs DEF LogInv, TypeOK
<1>2. ASSUME NEW c \in Client, NEW kind \in Kinds, Append(c, kind) \/ AppendHeadLost(c, kind)
      PROVE  store'.snap = store.snap
  BY <1>1, <1>2 DEF Append, AppendHeadLost, PutEntry, WithHead, StoreSet
<1>3. ASSUME NEW c \in Client,
             Fold(c) \/ Bootstrap(c) \/ Retry(c) \/ SkipCompaction(c) \/ ReadmitDropped(c) \/ Forget(c)
      PROVE  store'.snap = store.snap
  BY <1>3 DEF Fold, Bootstrap, Retry, SkipCompaction, ReadmitDropped, Forget
<1>4. CASE Reap
  BY <1>1, <1>4 DEF Reap, StoreSet
<1>5. ASSUME NEW c \in Client, Compact(c)
      PROVE  /\ MayPublish(client[c], store)
             /\ store'.snap = [id |-> snapshots + 1, covered |-> SubsumedFrontier(client[c]),
                               content |-> client[c].engine]
             /\ store'.gone = store.gone
             /\ snapshots' = snapshots + 1
             /\ client' = [client EXCEPT ![c] = Rebase(client[c], store)]
  BY <1>1, <1>5 DEF Compact, PublishSnapshot, StoreSet
<1>6. CASE UNCHANGED vars
  BY <1>6 DEF vars
<1> QED BY <1>2, <1>3, <1>4, <1>5, <1>6 DEF Next, MaybeCompact

\* A snapshot object is named by its etag; there is no claim without one.
LEMMA AbsentStep == LogInv /\ AbsentClaimsNothing /\ [Next]_vars => AbsentClaimsNothing'
<1> SUFFICES ASSUME LogInv, AbsentClaimsNothing, [Next]_vars PROVE AbsentClaimsNothing'
  OBVIOUS
<1>1. snapshots + 1 # 0
  BY DEF LogInv, TypeOK
<1>2. CASE store'.snap = store.snap
  BY <1>2 DEF AbsentClaimsNothing
<1>3. CASE store'.snap.id = snapshots + 1
  BY <1>1, <1>3 DEF AbsentClaimsNothing
<1>4. ASSUME NEW c \in Client,
             store'.snap = [id |-> snapshots + 1, covered |-> SubsumedFrontier(client[c]),
                            content |-> client[c].engine]
      PROVE  store'.snap.id = snapshots + 1
  BY <1>4
<1> QED BY <1>2, <1>3, <1>4, SnapshotSteps

\* compact's covered-monotonicity guard: the published frontier is replaced by
\* a lower one only by a client that refused the snapshot.
THEOREM CoverageIsMonotone == Spec => CoverageNeverRegresses
<1> DEFINE Grows == store.snap.id # store'.snap.id =>
                      \/ LeqFrontier(store.snap.covered, store'.snap.covered)
                      \/ \E c \in Client : client[c].rejected = store.snap.id
<1>1. Init => LogInv /\ AbsentClaimsNothing
  BY LogInvInit DEF Init, EmptyStore, NoSnapshot, EmptyFrontier, AbsentClaimsNothing
<1>2. (LogInv /\ AbsentClaimsNothing) /\ [Next]_vars => (LogInv /\ AbsentClaimsNothing)' /\ Grows
  <2> SUFFICES ASSUME LogInv, AbsentClaimsNothing, [Next]_vars
               PROVE  Grows
    BY LogInvNext, AbsentStep
  <2>1. CASE store'.snap = store.snap
    BY <2>1
  <2>2. ASSUME NEW c \in Client, MayPublish(client[c], store),
               store'.snap = [id |-> snapshots + 1, covered |-> SubsumedFrontier(client[c]),
                              content |-> client[c].engine]
        PROVE  Grows
    <3>1. CASE TrustsSnapshot(client[c], store)
      BY <2>2, <3>1 DEF MayPublish
    <3>2. CASE store.snap.id = 0
      BY <3>2 DEF AbsentClaimsNothing, LeqFrontier
    <3>3. CASE store.snap.id = client[c].rejected
      BY <3>3
    <3> QED BY <3>1, <3>2, <3>3 DEF TrustsSnapshot
  <2> QED BY <2>1, <2>2, SnapshotSteps
<1>3. Grows => (store.snap.id # store'.snap.id =>
                  \/ LeqFrontier(store.snap.covered, store'.snap.covered)
                  \/ \E c \in Client : client[c].rejected = store.snap.id)
  OBVIOUS
<1> HIDE DEF Grows
<1> QED BY <1>1, <1>2, <1>3, PTL DEF Spec, CoverageNeverRegresses

\* While no session has refused a snapshot, all that was deleted is covered.
RefusalFree == NobodyRefused => \A x \in store.gone : IsBelow(x, store.snap.covered)

\* A refusal is never forgotten: a session that remembers none never refused.
LEMMA RejectedSteps ==
    ASSUME LogInv, [Next]_vars, NEW e \in Client, client'[e].rejected = 0
    PROVE  client[e].rejected = 0
<1>1. DOMAIN client = Client /\ \A c \in Client : client[c] \in ClientSet
  BY ClientIs DEF LogInv, TypeOK
<1>2. ASSUME NEW c \in Client, NEW kind \in Kinds, Append(c, kind) \/ AppendHeadLost(c, kind)
      PROVE  client'[e].rejected = client[e].rejected
  <2>1. IsClient(client[c])
    BY SessionFacts
  <2>2. \/ client' = [client EXCEPT ![c] = Appended(client[c], c, kind)]
        \/ client' = [client EXCEPT ![c] = SawOwn(Appended(client[c], c, kind), c)]
    BY <1>2 DEF Append, AppendHeadLost
  <2>3. /\ AfterAppend(client[c], Appended(client[c], c, kind), c, kind)
        /\ AfterAppend(client[c], SawOwn(Appended(client[c], c, kind), c), c, kind)
    BY <2>1, AppendedFacts DEF Client
  <2>4. /\ Appended(client[c], c, kind).rejected = client[c].rejected
        /\ SawOwn(Appended(client[c], c, kind), c).rejected = client[c].rejected
    BY <2>3 DEF AfterAppend
  <2> QED BY <1>1, <2>2, <2>4
<1>3. ASSUME NEW c \in Client, Fold(c) PROVE client'[e].rejected = client[e].rejected
  <2> PICK d \in Judgements(ToJudge(client[c], store)) :
        client' = [client EXCEPT ![c] = PullVerified(client[c], store, d, covers)]
    BY <1>3 DEF Fold
  <2> QED BY <1>1, JudgementType, SessionFacts, PullVerifiedTypes
<1>4. ASSUME NEW c \in Client, Bootstrap(c) PROVE client[e].rejected = 0
  <2> PICK accept \in SnapshotVerdicts :
        \E d \in Judgements(ToJudge(AdoptSnapshotBaseline(client[c], store, accept), store)) :
           client' = [client EXCEPT ![c] =
               PullVerified(AdoptSnapshotBaseline(client[c], store, accept), store, d, covers)]
    BY <1>4 DEF Bootstrap
  <2> DEFINE cl == client[c]
             a == AdoptSnapshotBaseline(cl, store, accept)
  <2>1. PICK d \in Judgements(ToJudge(a, store)) :
           client' = [client EXCEPT ![c] = PullVerified(a, store, d, covers)]
    OBVIOUS
  <2>2. IsClient(cl) /\ IsStore(store)
    BY SessionFacts
  <2>3. \/ a = cl
        \/ a = MergeSnapshot(cl, store)
        \/ a = [cl EXCEPT !.rejected = store.snap.id] /\ store.snap.id # 0
    BY DEF AdoptSnapshotBaseline, TrustsSnapshot
  <2>4. IsClient(a) /\ (a.rejected = cl.rejected \/ a.rejected # 0)
    <3> HIDE DEF a, cl
    <3>1. CASE a = cl
      BY <2>2, <3>1
    <3>2. CASE a = MergeSnapshot(cl, store)
      <4>1. /\ IsClient(MergeSnapshot(cl, store))
            /\ MergeSnapshot(cl, store).rejected = cl.rejected
        BY <2>2, MergeTypes
      <4> QED BY <3>2, <4>1
    <3>3. CASE a = [cl EXCEPT !.rejected = store.snap.id] /\ store.snap.id # 0
      <4>1. cl \in ClientSet /\ store.snap.id \in Nat
        BY <2>2, ClientIs DEF IsStore, IsSnapshot
      <4>2. a \in ClientSet /\ a.rejected = store.snap.id
        BY <3>3, <4>1 DEF ClientSet
      <4> QED BY <3>3, <4>2, ClientIs
    <3> QED BY <2>3, <3>1, <3>2, <3>3
  <2> HIDE DEF a
  <2>5. PullVerified(a, store, d, covers).rejected = a.rejected
    BY <2>2, <2>4, JudgementType, PullVerifiedTypes
  <2> QED BY <1>1, <2>1, <2>4, <2>5
<1>5. ASSUME NEW c \in Client, Retry(c) PROVE client'[e].rejected = client[e].rejected
  <2> PICK d \in Judgements(client[c].stalled \cap store.log) :
        client' = [client EXCEPT ![c] = RetryStalled(client[c], store, d, covers)]
    BY <1>5 DEF Retry
  <2>1. RetryStalled(client[c], store, d, covers).rejected = client[c].rejected
    BY <1>1 DEF RetryStalled, ClientSet
  <2> QED BY <1>1, <2>1
<1>6. ASSUME NEW c \in Client, MaybeCompact(c) \/ Compact(c) \/ SkipCompaction(c)
      PROVE  client'[e].rejected = client[e].rejected
  <2>1. client' = [client EXCEPT ![c] = Rebase(client[c], store)]
    BY <1>6 DEF MaybeCompact, Compact, SkipCompaction
  <2>2. Rebase(client[c], store).rejected = client[c].rejected
    BY RebaseFacts
  <2> QED BY <1>1, <2>1, <2>2
<1>7. ASSUME NEW c \in Client, ReadmitDropped(c) \/ Forget(c)
      PROVE  client'[e].rejected = client[e].rejected
  <2>1. \E x : \/ client' = [client EXCEPT ![c] = Readmit(client[c], store, x)]
               \/ client' = [client EXCEPT ![c] = ForgetDropped(client[c], x)]
    BY <1>7 DEF ReadmitDropped, Forget
  <2>2. \A x : /\ Readmit(client[c], store, x).rejected = client[c].rejected
               /\ ForgetDropped(client[c], x).rejected = client[c].rejected
    BY <1>1 DEF Readmit, ForgetDropped, ClientSet
  <2> QED BY <1>1, <2>1, <2>2
<1>8. CASE Reap \/ UNCHANGED vars
  BY <1>8 DEF Reap, vars
<1> QED BY <1>2, <1>3, <1>4, <1>5, <1>6, <1>7, <1>8 DEF Next

\* While no session has refused a snapshot, the collector never deletes what only
\* the log had: every reaped delta is in the live snapshot, or waived by its
\* publisher.
THEOREM NothingReapedIsLost == Spec => []ReapedIsSnapshotted
<1>1. Init => LogInv /\ AbsentClaimsNothing /\ RefusalFree
  BY LogInvInit DEF Init, EmptyStore, NoSnapshot, EmptyFrontier, RefusalFree,
                    AbsentClaimsNothing
<1>2. (LogInv /\ AbsentClaimsNothing /\ RefusalFree) /\ [Next]_vars
          => (LogInv /\ AbsentClaimsNothing /\ RefusalFree)'
  <2> SUFFICES ASSUME LogInv, AbsentClaimsNothing, RefusalFree, [Next]_vars PROVE RefusalFree'
    BY LogInvNext, AbsentStep
  <2> SUFFICES ASSUME NobodyRefused' PROVE (\A x \in store.gone : IsBelow(x, store.snap.covered))'
    BY DEF RefusalFree
  <2>1. NobodyRefused
    BY RejectedSteps DEF NobodyRefused
  <2>2. (\A x \in store.gone : IsBelow(x, store.snap.covered))'
    <3>1. CASE store'.snap = store.snap
      <4>1. \A x \in store'.gone : x \in store.gone \/ IsBelow(x, store.snap.covered)
        <5>1. store \in StoreSet
          BY StoreIs DEF LogInv, TypeOK
        <5>2. ASSUME NEW c \in Client, NEW kind \in Kinds,
                     Append(c, kind) \/ AppendHeadLost(c, kind)
              PROVE  store'.gone = store.gone
          BY <5>1, <5>2 DEF Append, AppendHeadLost, PutEntry, WithHead, StoreSet
        <5>3. ASSUME NEW c \in Client,
                     Fold(c) \/ Bootstrap(c) \/ Retry(c) \/ SkipCompaction(c)
                       \/ ReadmitDropped(c) \/ Forget(c)
              PROVE  store'.gone = store.gone
          BY <5>3 DEF Fold, Bootstrap, Retry, SkipCompaction, ReadmitDropped, Forget
        <5>4. CASE Reap
          BY <5>1, <5>4 DEF Reap, StoreSet
        <5>5. ASSUME NEW c \in Client, MaybeCompact(c) \/ Compact(c)
              PROVE  store'.gone = store.gone
          BY <5>1, <5>5 DEF MaybeCompact, Compact, PublishSnapshot, StoreSet
        <5>6. CASE UNCHANGED vars
          BY <5>6 DEF vars
        <5> QED BY <5>2, <5>3, <5>4, <5>5, <5>6 DEF Next
      <4> QED BY <2>1, <3>1, <4>1 DEF RefusalFree
    <3>2. ASSUME NEW c \in Client, MayPublish(client[c], store),
                 store'.snap = [id |-> snapshots + 1, covered |-> SubsumedFrontier(client[c]),
                                content |-> client[c].engine],
                 store'.gone = store.gone
          PROVE  \A x \in store'.gone : IsBelow(x, store'.snap.covered)
      <4> SUFFICES ASSUME NEW x \in store.gone PROVE IsBelow(x, SubsumedFrontier(client[c]))
        BY <3>2
      <4>1. IsStore(store) /\ IsClient(client[c])
        BY SessionFacts
      <4>2. IsFrontier(store.snap.covered) /\ IsFrontier(SubsumedFrontier(client[c])) /\ x \in Dot
        BY <4>1, SubsumedBounds DEF IsStore, IsSnapshot
      <4>3. CASE TrustsSnapshot(client[c], store)
        <5>1. LeqFrontier(store.snap.covered, SubsumedFrontier(client[c]))
          BY <3>2, <4>3 DEF MayPublish
        <5> QED BY <2>1, <4>2, <5>1, LeqFrontierAt, IsBelowMonotone DEF RefusalFree
      <4>4. CASE store.snap.id = 0
        <5>1. IsBelow(x, store.snap.covered)
          BY <2>1 DEF RefusalFree
        <5> QED BY <4>2, <4>4, <5>1 DEF AbsentClaimsNothing, IsBelow, At, Dot
      <4> QED BY <2>1, <4>3, <4>4 DEF TrustsSnapshot, NobodyRefused
    <3> QED BY <3>1, <3>2, SnapshotSteps
  <2> QED BY <2>2
<1>3. LogInv /\ RefusalFree => ReapedIsSnapshotted
  BY DEF LogInv, RefusalFree, CoverageIsContained, ReapedIsSnapshotted, Deltas, Written
<1> QED BY <1>1, <1>2, <1>3, PTL DEF Spec
=============================================================================
