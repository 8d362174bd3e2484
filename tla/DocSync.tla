------------------------------ MODULE DocSync ------------------------------
(***************************************************************************)
(* The sync client of packages/docsync (BlobSyncClient) as operators on    *)
(* two records: a client and the blob store it works over.                 *)
(*                                                                         *)
(* A log object is named by its dot <<replica, counter>>; its bytes are    *)
(* opaque here, so a store's log is a set of dots.  `gone` holds the dots  *)
(* a garbage collector deleted (BlobError::Gone).  A snapshot is its etag  *)
(* (`id`, 0 when there is no object), the covered frontier sealed in its   *)
(* body, and the deltas its engine state contains.                         *)
(*                                                                         *)
(* What the sealer, the engine and the caller's classifier make of an      *)
(* entry is one of four dispositions: it is absorbed into the engine,      *)
(* held, stalled (un-openable, un-mergeable or rejected) or dropped.  They *)
(* are an argument of the operators: every caller is covered.              *)
(***************************************************************************)
EXTENDS Frontiers

Disposition == {"absorb", "hold", "stall", "drop"}

-----------------------------------------------------------------------------
(* The store and the client.                                               *)

IsSnapshot(s) ==
    /\ s = [id |-> s.id, covered |-> s.covered, content |-> s.content]
    /\ s.id \in Nat /\ IsFrontier(s.covered) /\ s.content \subseteq Dot
NoSnapshot == [id |-> 0, covered |-> EmptyFrontier, content |-> {}]

IsStore(st) ==
    /\ st = [log |-> st.log, gone |-> st.gone, head |-> st.head, snap |-> st.snap]
    /\ st.log \subseteq Dot /\ st.gone \subseteq Dot
    /\ IsFrontier(st.head) /\ IsSnapshot(st.snap)
EmptyStore == [log |-> {}, gone |-> {}, head |-> EmptyFrontier, snap |-> NoSnapshot]

\* engine: deltas folded into engine state.  baseline: log_len_at_snapshot.
\* rejected: the etag of the last snapshot refused (0: none).
IsClient(cl) ==
    /\ cl = [next |-> cl.next, frontier |-> cl.frontier, held |-> cl.held,
             stalled |-> cl.stalled, dropped |-> cl.dropped, engine |-> cl.engine,
             baseline |-> cl.baseline, rejected |-> cl.rejected]
    /\ IsFrontier(cl.frontier)
    /\ cl.held \cup cl.stalled \cup cl.dropped \cup cl.engine \subseteq Dot
    /\ {cl.next, cl.baseline, cl.rejected} \subseteq Nat
NewClient == [next |-> 0, frontier |-> EmptyFrontier, held |-> {}, stalled |-> {},
              dropped |-> {}, engine |-> {}, baseline |-> 0, rejected |-> 0]

-----------------------------------------------------------------------------
(* Writing: the entry first, the head pointer last.                        *)

PutEntry(st, x) == [st EXCEPT !.log = @ \cup {x}]
WithHead(st, r, n) == [st EXCEPT !.head = WithCounter(@, r, n)]

\* The client after its entry was stored: the counter moves whatever becomes
\* of the head; a delta is already in the engine that produced it.
Appended(cl, me, kind) ==
    [cl EXCEPT !.next = @ + 1,
               !.engine = IF kind = "delta" THEN @ \cup {<<me, cl.next>>} ELSE @]

\* ... and after the head pointer was stored too: it has seen its own entry.
SawOwn(cl, me) ==
    [cl EXCEPT !.frontier =
        WithCounter(@, me, IF At(@, me) < cl.next THEN cl.next ELSE At(@, me))]

-----------------------------------------------------------------------------
(* Reading.                                                                *)

\* Where the scan of replica r stops: its head, or the first counter past the
\* frontier whose object is not there (unwritten or reaped alike).
Stop(cl, st, r) ==
    LET f == At(cl.frontier, r)
        h == At(st.head, r)
    IN  IF f < h THEN Min({n \in f..h : n = h \/ <<r, n>> \notin st.log}) ELSE f

\* The dots a scan reads, and the frontier it leaves.
Gap(cl, st) == {x \in st.log : /\ x[1] \in DOMAIN st.head
                               /\ x[2] >= At(cl.frontier, x[1])
                               /\ x[2] < Stop(cl, st, x[1])}
Scanned(cl, st) ==
    [r \in DOMAIN cl.frontier \cup DOMAIN st.head |->
        IF r \in DOMAIN st.head THEN Stop(cl, st, r) ELSE cl.frontier[r]]

Sorted(d, k) == {x \in DOMAIN d : d[x] = k}

\* The dots a verified pull judges: the held ones still there, then the gap.
ToJudge(cl, st) == (cl.held \cap st.log) \cup Gap(cl, st)

\* pull_verified: drain the held dots (one whose object vanished is stalled,
\* so that it keeps blocking), then judge the gap.  `covers` are the dots that
\* are covers: they are folded by the caller and never enter the engine.
PullVerified(cl, st, d, covers) ==
    [cl EXCEPT !.frontier = Scanned(cl, st),
               !.held = Sorted(d, "hold"),
               !.stalled = @ \cup Sorted(d, "stall") \cup (cl.held \ st.log),
               !.dropped = @ \cup Sorted(d, "drop"),
               !.engine = @ \cup (Sorted(d, "absorb") \ covers)]

\* Mutant: a dot that is now held stays stalled.
RetryWithoutClearing(cl, st, d, covers) ==
    [cl EXCEPT !.held = @ \cup Sorted(d, "hold"),
               !.dropped = @ \cup Sorted(d, "drop"),
               !.engine = @ \cup (Sorted(d, "absorb") \ covers)]

\* retry_stalled: judge every stalled dot that is still there once more.
RetryStalled(cl, st, d, covers) ==
    [cl EXCEPT !.stalled = (@ \ st.log) \cup Sorted(d, "stall"),
               !.held = @ \cup Sorted(d, "hold"),
               !.dropped = @ \cup Sorted(d, "drop"),
               !.engine = @ \cup (Sorted(d, "absorb") \ covers)]

\* readmit_dropped, admitted by the caller's gate; a vanished object is only
\* forgotten.
Readmit(cl, st, x) ==
    [cl EXCEPT !.dropped = @ \ {x},
               !.engine = IF x \in st.log THEN @ \cup {x} ELSE @]
ForgetDropped(cl, x) == [cl EXCEPT !.dropped = @ \ {x}]

-----------------------------------------------------------------------------
(* Compaction.                                                             *)

\* Mutant: stalled dots do not clamp.
HeldOnlyFrontier(cl) ==
    [r \in DOMAIN cl.frontier |->
        Min({cl.frontier[r]} \cup {x[2] : x \in {y \in cl.held : y[1] = r}})]

\* pull_frontier clamped to the lowest held or stalled counter.
SubsumedFrontier(cl) ==
    [r \in DOMAIN cl.frontier |->
        Min({cl.frontier[r]} \cup {x[2] : x \in {y \in cl.held \cup cl.stalled : y[1] = r}})]

\* snapshot_covered_frontier is Some: a snapshot, not the one just refused.
TrustsSnapshot(cl, st) == st.snap.id # 0 /\ st.snap.id # cl.rejected

\* Mutant: a client that lags behind the snapshot is not asked to adopt it.
OnlyDroppedNeedAdoption(cl, st) ==
    TrustsSnapshot(cl, st) /\ \E x \in cl.dropped : IsBelow(x, st.snap.covered)

NeedsSnapshotAdoption(cl, st) ==
    /\ TrustsSnapshot(cl, st)
    /\ \/ ~LeqFrontier(st.snap.covered, SubsumedFrontier(cl))
       \/ \E x \in cl.dropped : IsBelow(x, st.snap.covered)

\* Mutant: last writer wins.
MayAlwaysPublish(cl, st) == TRUE

\* compact's guard: the write may not regress a coordinate of the snapshot.
MayPublish(cl, st) ==
    TrustsSnapshot(cl, st) => LeqFrontier(st.snap.covered, SubsumedFrontier(cl))
\* Mutant: the snapshot claims everything pulled, folded or not.
PublishPulled(cl, st, id) ==
    [st EXCEPT !.snap = [id |-> id, covered |-> cl.frontier, content |-> cl.engine]]

PublishSnapshot(cl, st, id) ==
    [st EXCEPT !.snap = [id |-> id, covered |-> SubsumedFrontier(cl), content |-> cl.engine]]

\* Mutant: an unsaturated subtraction.
RebaseBelow(cl, st) == [cl EXCEPT !.baseline = Cardinality(st.log) - 1]

Rebase(cl, st) == [cl EXCEPT !.baseline = Cardinality(st.log)]

\* maybe_compact: K objects accrued; nothing to do if a peer covered us.
CompactionDue(cl, st, k) == Cardinality(st.log) >= cl.baseline + k
AlreadyCovered(cl, st) ==
    TrustsSnapshot(cl, st) /\ LeqFrontier(SubsumedFrontier(cl), st.snap.covered)

-----------------------------------------------------------------------------
(* Adopting a snapshot.                                                    *)

\* A claim is believed up to the head this client can see ...
ClaimCap(st, r) == LET c == st.snap.covered[r] h == At(st.head, r) IN IF c < h THEN c ELSE h

\* ... and over absent objects only.
Advanced(cl, st, r) ==
    LET f == At(cl.frontier, r)
        cap == ClaimCap(st, r)
    IN  IF f < cap THEN Min({n \in f..cap : n = cap \/ <<r, n>> \in st.log}) ELSE f

Unpurged(S, bound) == {x \in S : x[1] \in DOMAIN bound => x[2] >= bound[x[1]]}

\* Mutant: the frontier is adopted without the state.
MergeFrontierOnly(cl, st) ==
    LET dom == DOMAIN st.snap.covered
        adv == [r \in dom |-> Advanced(cl, st, r)]
    IN  [cl EXCEPT
            !.frontier = [r \in DOMAIN @ \cup {q \in dom : adv[q] > At(@, q)} |->
                              IF r \in dom THEN adv[r] ELSE @[r]],
            !.held = Unpurged(@, adv)]

MergeSnapshot(cl, st) ==
    LET dom == DOMAIN st.snap.covered
        adv == [r \in dom |-> Advanced(cl, st, r)]
        cap == [r \in dom |-> ClaimCap(st, r)]
    IN  [cl EXCEPT
            !.engine = @ \cup st.snap.content,
            !.frontier = [r \in DOMAIN @ \cup {q \in dom : adv[q] > At(@, q)} |->
                              IF r \in dom THEN adv[r] ELSE @[r]],
            !.held = Unpurged(@, adv),
            !.stalled = Unpurged(@, adv),
            !.dropped = Unpurged(@, cap)]

\* adopt_snapshot_baseline; `accept` is classify_snapshot's verdict.
AdoptSnapshotBaseline(cl, st, accept) ==
    CASE ~TrustsSnapshot(cl, st) -> cl
      [] TrustsSnapshot(cl, st) /\ accept -> MergeSnapshot(cl, st)
      [] OTHER -> [cl EXCEPT !.rejected = st.snap.id]

-----------------------------------------------------------------------------
(* mirror: one-directional anti-entropy between two stores.                *)

\* Mutant: a missing object does not cap the head.
UncappedHead(from, to, r) ==
    IF At(to.head, r) < At(from.head, r) THEN At(from.head, r) ELSE At(to.head, r)

\* The head `to` may advertise for r: a missing source object caps it, a
\* reaped one does not.
MirroredHead(from, to, r) ==
    LET f == At(from.head, r)
        t == At(to.head, r)
    IN  IF t < f THEN Min({n \in t..f : n = f \/ <<r, n>> \notin from.log \cup from.gone})
                 ELSE t

Mirror(from, to) ==
    LET upTo(r) == MirroredHead(from, to, r)
        moved == {r \in DOMAIN from.head : upTo(r) > At(to.head, r)}
    IN  [to EXCEPT
            !.log = @ \cup {x \in from.log : /\ x[1] \in DOMAIN from.head
                                             /\ x[2] >= At(to.head, x[1])
                                             /\ x[2] < upTo(x[1])},
            !.head = [r \in DOMAIN @ \cup moved |-> IF r \in moved THEN upTo(r) ELSE @[r]],
            !.snap = IF from.snap.id \in {0, to.snap.id} THEN @ ELSE from.snap]
=============================================================================
