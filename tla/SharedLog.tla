----------------------------- MODULE SharedLog -----------------------------
(***************************************************************************)
(* Several docsync clients over one blob store: the setting of the crate's *)
(* own tests and of a bring-your-own store.  A client is one open session; *)
(* its replica id is fresh per open, so the session is its replica id.  A  *)
(* session that stops taking steps is a crashed one, and a restart is a    *)
(* session that starts late.                                               *)
(*                                                                         *)
(* A collector may delete any log object below the published snapshot's    *)
(* covered frontier.  The client's caller is left open: any disposition of *)
(* an entry and any verdict on a snapshot may occur, at any time.          *)
(***************************************************************************)
EXTENDS DocSync

CONSTANTS
    Writers,          \* the sessions that append entries
    Kinds,            \* entry kinds that occur: a subset of {"delta", "cover"}
    Dispositions,     \* dispositions that occur: a subset of Disposition
    SnapshotVerdicts, \* verdicts on snapshots that occur: a subset of BOOLEAN
    K,                \* EveryNUpdates(K)
    MaxEntries,       \* bound on the entries a client appends
    MaxSnapshots      \* bound on the snapshots published

ASSUME SharedLogAssumption ==
    /\ Writers \subseteq Replica
    /\ Kinds \subseteq {"delta", "cover"}
    /\ Dispositions \subseteq Disposition
    /\ SnapshotVerdicts \subseteq BOOLEAN
    /\ K \in Nat /\ MaxEntries \in Nat /\ MaxSnapshots \in Nat

Client == Replica

VARIABLES
    store,      \* the shared blob store
    client,     \* the open sessions
    covers,     \* the dots whose entry is a cover
    snapshots,  \* snapshots published so far, which names the next etag
    waiver,     \* history: dots a client no longer accounts for, by reason
    excuse      \* history: what the publisher of the live snapshot had waived

vars == <<store, client, covers, snapshots, waiver, excuse>>

\* Reasons: held or stalled dots adoption purged unfolded; dropped dots it
\* purged unfolded; dropped dots the caller discarded, or found gone; what an
\* adopted snapshot's publisher had waived.
Waiver == [evicted : SUBSET Dot, unreviewed : SUBSET Dot,
           discarded : SUBSET Dot, inherited : SUBSET Dot]
NoWaiver == [evicted |-> {}, unreviewed |-> {}, discarded |-> {}, inherited |-> {}]

Waived(c) == client[c].dropped \cup waiver[c].evicted \cup waiver[c].unreviewed
                 \cup waiver[c].discarded \cup waiver[c].inherited

Init ==
    /\ store = EmptyStore
    /\ client = [c \in Client |-> NewClient]
    /\ covers = {}
    /\ snapshots = 0
    /\ waiver = [c \in Client |-> NoWaiver]
    /\ excuse = {}

\* What the caller may make of the dots in S: a cover is folded or stalled.
Judgements(S) == {d \in [S -> Dispositions] :
                      \A x \in S \cap covers : d[x] \in {"absorb", "stall"}}

-----------------------------------------------------------------------------
\* append_entry, entry and head both stored.
Append(c, kind) ==
    LET cl == client[c] x == <<c, cl.next>> IN
    /\ c \in Writers /\ cl.next < MaxEntries
    /\ store' = WithHead(PutEntry(store, x), c, cl.next + 1)
    /\ client' = [client EXCEPT ![c] = SawOwn(Appended(cl, c, kind), c)]
    /\ covers' = IF kind = "cover" THEN covers \cup {x} ELSE covers
    /\ UNCHANGED <<snapshots, waiver, excuse>>

\* Mutant: the head is stored first.
AppendEntryLost(c, kind) ==
    LET cl == client[c] IN
    /\ c \in Writers /\ cl.next < MaxEntries
    /\ store' = WithHead(store, c, cl.next + 1)
    /\ client' = [client EXCEPT ![c] = Appended(cl, c, kind)]
    /\ UNCHANGED <<covers, snapshots, waiver, excuse>>

\* append_entry failing, or the session crashing, between entry and head.
AppendHeadLost(c, kind) ==
    LET cl == client[c] x == <<c, cl.next>> IN
    /\ c \in Writers /\ cl.next < MaxEntries
    /\ store' = PutEntry(store, x)
    /\ client' = [client EXCEPT ![c] = Appended(cl, c, kind)]
    /\ covers' = IF kind = "cover" THEN covers \cup {x} ELSE covers
    /\ UNCHANGED <<snapshots, waiver, excuse>>

\* pull_verified.
Fold(c) ==
    /\ \E d \in Judgements(ToJudge(client[c], store)) :
           client' = [client EXCEPT ![c] = PullVerified(client[c], store, d, covers)]
    /\ UNCHANGED <<store, covers, snapshots, waiver, excuse>>

\* bootstrap_verified: adopt the snapshot, then a verified pull.
Bootstrap(c) ==
    /\ \E accept \in SnapshotVerdicts :
         LET cl == client[c]
             adopted == AdoptSnapshotBaseline(cl, store, accept)
         IN  /\ \E d \in Judgements(ToJudge(adopted, store)) :
                    client' = [client EXCEPT ![c] = PullVerified(adopted, store, d, covers)]
             /\ waiver' = [waiver EXCEPT
                    ![c].evicted = @ \cup ((cl.held \ adopted.held) \ adopted.engine)
                                     \cup ((cl.stalled \ adopted.stalled) \ adopted.engine),
                    ![c].unreviewed = @ \cup ((cl.dropped \ adopted.dropped) \ adopted.engine),
                    ![c].inherited = IF accept /\ TrustsSnapshot(cl, store)
                                     THEN @ \cup excuse ELSE @]
    /\ UNCHANGED <<store, covers, snapshots, excuse>>

\* retry_stalled, on a membership change or a user's request.
Retry(c) ==
    /\ \E d \in Judgements(client[c].stalled \cap store.log) :
           client' = [client EXCEPT ![c] = RetryStalled(client[c], store, d, covers)]
    /\ UNCHANGED <<store, covers, snapshots, waiver, excuse>>

\* compact, called for its own sake.
Compact(c) ==
    /\ snapshots < MaxSnapshots
    /\ MayPublish(client[c], store)
    /\ store' = PublishSnapshot(client[c], store, snapshots + 1)
    /\ client' = [client EXCEPT ![c] = Rebase(client[c], store)]
    /\ snapshots' = snapshots + 1
    /\ excuse' = Waived(c)
    /\ UNCHANGED <<covers, waiver>>

\* maybe_compact, when a peer's snapshot already covers this client.
SkipCompaction(c) ==
    /\ CompactionDue(client[c], store, K)
    /\ AlreadyCovered(client[c], store)
    /\ client' = [client EXCEPT ![c] = Rebase(client[c], store)]
    /\ UNCHANGED <<store, covers, snapshots, waiver, excuse>>

\* maybe_compact, when it compacts.
MaybeCompact(c) ==
    /\ CompactionDue(client[c], store, K)
    /\ ~AlreadyCovered(client[c], store)
    /\ Compact(c)

\* readmit_dropped, admitted by the caller's gate.
ReadmitDropped(c) ==
    /\ \E x \in client[c].dropped :
         /\ client' = [client EXCEPT ![c] = Readmit(client[c], store, x)]
         /\ waiver' = [waiver EXCEPT ![c].discarded =
                           IF x \in store.log THEN @ ELSE @ \cup {x}]
    /\ UNCHANGED <<store, covers, snapshots, excuse>>

\* forget_dropped.
Forget(c) ==
    /\ \E x \in client[c].dropped :
         /\ client' = [client EXCEPT ![c] = ForgetDropped(client[c], x)]
         /\ waiver' = [waiver EXCEPT ![c].discarded = @ \cup {x}]
    /\ UNCHANGED <<store, covers, snapshots, excuse>>

\* The store's collector deletes an object the snapshot claims to cover.
Reap ==
    /\ \E x \in store.log :
         /\ IsBelow(x, store.snap.covered)
         /\ store' = [store EXCEPT !.log = @ \ {x}, !.gone = @ \cup {x}]
    /\ UNCHANGED <<client, covers, snapshots, waiver, excuse>>

Next ==
    \/ \E c \in Client :
         \/ \E kind \in Kinds : Append(c, kind) \/ AppendHeadLost(c, kind)
         \/ Fold(c) \/ Bootstrap(c) \/ Retry(c)
         \/ MaybeCompact(c) \/ SkipCompaction(c) \/ Compact(c)
         \/ ReadmitDropped(c) \/ Forget(c)
    \/ Reap

Spec == Init /\ [][Next]_vars

\* The tick of a live client: adopt when the snapshot covers state it lacks,
\* fold otherwise (AppCore::sync_against).
Tick(c) ==
    \/ NeedsSnapshotAdoption(client[c], store) /\ Bootstrap(c)
    \/ ~NeedsSnapshotAdoption(client[c], store) /\ Fold(c)

\* Clients that only append, tick and compact.
TickNext ==
    \/ \E c \in Client :
         \/ \E kind \in Kinds : Append(c, kind)
         \/ Tick(c) \/ MaybeCompact(c)
    \/ Reap

TickSpec == Init /\ [][TickNext]_vars

\* A live session keeps ticking.
FairSpec == Spec /\ \A c \in Client : WF_vars(Tick(c))

-----------------------------------------------------------------------------
(* Properties.                                                             *)

Deltas(S) == S \ covers
Written == store.log \cup store.gone

\* Types, for the store, the sessions and the history.
TypeOK ==
    /\ IsStore(store)
    /\ DOMAIN client = Client /\ \A c \in Client : IsClient(client[c])
    /\ covers \subseteq Dot
    /\ snapshots \in Nat
    /\ waiver \in [Client -> Waiver]
    /\ excuse \subseteq Dot

\* "A blocker always sits below pull_frontier[replica], so the entry exists"
\* (subsumed_frontier): otherwise the clamp would skip it and coverage would be
\* claimed over it.  And a dot is in one bucket only.
BlockersAreClamped ==
    \A c \in Client : LET cl == client[c] IN
        /\ \A x \in cl.held \cup cl.stalled \cup cl.dropped : IsBelow(x, cl.frontier)
        /\ cl.held \cap cl.stalled = {}
        /\ cl.dropped \cap (cl.held \cup cl.stalled) = {}

\* The head pointer never runs ahead of the log: every counter below it is an
\* object that is, or was, in the store (append_entry writes the head last).
HeadIsBacked ==
    \A r \in DOMAIN store.head : \A n \in 0..(store.head[r] - 1) : <<r, n>> \in Written

\* C3: a delta below a client's subsumed frontier is in its engine, unless the
\* client waived it.
SubsumedIsFolded ==
    \A c \in Client : \A x \in Deltas(Written) :
        IsBelow(x, SubsumedFrontier(client[c])) => x \in client[c].engine \cup Waived(c)

\* A published snapshot contains every delta below its covered frontier that
\* its publisher had not waived; so deleting the log below it deletes nothing
\* else.
CoverageIsContained ==
    \A x \in Deltas(Written) :
        IsBelow(x, store.snap.covered) => x \in store.snap.content \cup excuse

\* Nothing is lost to the collector: a deleted delta is still in the live
\* snapshot, however many compactions followed, unless its publisher had
\* waived it.  A session that refused a snapshot may overwrite it with less.
NobodyRefused == \A c \in Client : client[c].rejected = 0
ReapedIsSnapshotted ==
    NobodyRefused => Deltas(store.gone) \subseteq store.snap.content \cup excuse

\* A snapshot is only replaced by one that covers at least as much, except by a
\* client that refused it (compact's covered-monotonicity guard).
CoverageNeverRegresses ==
    [][store.snap.id # store'.snap.id =>
         \/ LeqFrontier(store.snap.covered, store'.snap.covered)
         \/ \E c \in Client : client[c].rejected = store.snap.id]_vars

\* Every delta a head pointer announces is folded by every session in the end,
\* even when it was deleted before the session came to it.
EverythingArrives ==
    \A c \in Client, r \in Client : \A n \in 0..(MaxEntries - 1) :
        ((r \in DOMAIN store.head /\ n < store.head[r] /\ <<r, n>> \notin covers)
            ~> <<r, n>> \in client[c].engine)
=============================================================================
