----------------------------- MODULE DeviceSync -----------------------------
(***************************************************************************)
(* Devices that each keep a local blob store and reconcile it, tick by     *)
(* tick, with one tree on the managed server.                              *)
(*                                                                         *)
(* A device is a web worker (appCore.worker.js) around a core (app-core's  *)
(* sync_against over docsync) with a durable copy of its local store.  A   *)
(* tick is LIST, the GETs, the synchronous core step, the PUTs one by one, *)
(* the durable copy and the report of what was seen; every await between   *)
(* them lets the other devices, the collector, the user's commits, a       *)
(* failing call or a crash in.  The server is BlobServer's with its        *)
(* transactions committed in one step; each device is a member.            *)
(*                                                                         *)
(* Every entry is a delta that is absorbed where it is judged, and every   *)
(* snapshot is accepted: SharedLog is about the others.                    *)
(***************************************************************************)
EXTENDS DocSync, Sequences

CONSTANTS
    Device,
    Writers,        \* the devices whose user commits
    K,              \* compact_k; 0 disables compaction
    Collects,       \* whether the server's collector runs
    MaxEntries,     \* bound on the entries of one session
    MaxMishaps      \* bound on the crashes and failed calls

ASSUME DeviceSyncAssumption ==
    /\ IsFiniteSet(Device) /\ Writers \subseteq Device /\ Collects \in BOOLEAN
    /\ {K, MaxEntries, MaxMishaps} \subseteq Nat

VARIABLES
    remote,     \* the server's blobs; gone: the reaped log objects
    covered,    \* tree_snapshot_covered: what x-openom-covered claimed
    floor,      \* tree_gc_floor
    seen,       \* tree_member_seen, by device
    opened,     \* the replica ids a device has had, one per open
    local,      \* the local store, in memory
    disk,       \* its durable copy
    unsaved,    \* devices with a commit that waits for persistBlobs
    client,     \* the BlobSyncClient of the open session
    tick,       \* the running tick
    mishaps     \* crashes and failed calls so far

serverVars == <<remote, covered, floor, seen>>
deviceVars == <<opened, local, disk, unsaved, client>>
vars == <<serverVars, deviceVars, tick, mishaps>>

Own(d) == {opened[d][i] : i \in DOMAIN opened[d]}
IsOpen(d) == opened[d] # <<>>
Me(d) == opened[d][Len(opened[d])]

\* Between ticks.  keys: what LIST returned; view: what the GETs returned;
\* puts: the uploads still to send.
Idle == [at |-> "idle", keys |-> [log |-> {}, heads |-> {}, snapshot |-> FALSE],
         view |-> EmptyStore, puts |-> {}]

Init ==
    /\ remote = EmptyStore
    /\ covered = EmptyFrontier /\ floor = EmptyFrontier
    /\ seen = [d \in Device |-> EmptyFrontier]
    /\ opened = [d \in Device |-> <<>>]
    /\ local = [d \in Device |-> EmptyStore]
    /\ disk = [d \in Device |-> EmptyStore]
    /\ unsaved = {}
    /\ client = [d \in Device |-> NewClient]
    /\ tick = [d \in Device |-> Idle]
    /\ mishaps = 0

-----------------------------------------------------------------------------
(* A session: open, commit, persist.                                       *)

\* pull_verified and bootstrap_verified when every entry is absorbed.
Fold(cl, st) == PullVerified(cl, st, [x \in ToJudge(cl, st) |-> "absorb"], {})
Bootstrap(cl, st) == Fold(AdoptSnapshotBaseline(cl, st, TRUE), st)

\* hydrate: the core of a fresh session over the durable objects.
Hydrated(st) == Bootstrap(NewClient, st)

\* The first open of a device, or a crash and the open after it.
Open(d) ==
    /\ IsOpen(d) => mishaps < MaxMishaps
    /\ \E r \in Replica \ UNION {Own(e) : e \in Device} :
           opened' = [opened EXCEPT ![d] = Append(@, r)]
    /\ local' = [local EXCEPT ![d] = disk[d]]
    /\ client' = [client EXCEPT ![d] = Hydrated(disk[d])]
    /\ unsaved' = unsaved \ {d}
    /\ tick' = [tick EXCEPT ![d] = Idle]
    /\ mishaps' = IF IsOpen(d) THEN mishaps + 1 ELSE mishaps
    /\ UNCHANGED <<serverVars, disk>>

\* commit: append_entry on the local store; persistBlobs follows.
Commit(d) ==
    LET cl == client[d] IN
    /\ d \in Writers /\ IsOpen(d) /\ cl.next < MaxEntries
    /\ local' = [local EXCEPT
           ![d] = WithHead(PutEntry(@, <<Me(d), cl.next>>), Me(d), cl.next + 1)]
    /\ client' = [client EXCEPT ![d] = SawOwn(Appended(@, Me(d), "delta"), Me(d))]
    /\ unsaved' = unsaved \cup {d}
    /\ UNCHANGED <<serverVars, opened, disk, tick, mishaps>>

Persist(d) ==
    /\ d \in unsaved
    /\ disk' = [disk EXCEPT ![d] = local[d]]
    /\ unsaved' = unsaved \ {d}
    /\ UNCHANGED <<serverVars, opened, local, client, tick, mishaps>>

-----------------------------------------------------------------------------
(* A tick, down: LIST, GET the heads, the log, the snapshot (key order).   *)

List(d) ==
    /\ IsOpen(d) /\ tick[d].at = "idle"
    /\ tick' = [tick EXCEPT ![d].at = "heads",
           ![d].keys = [log |-> remote.log, heads |-> DOMAIN remote.head,
                        snapshot |-> remote.snap.id # 0]]
    /\ UNCHANGED <<serverVars, deviceVars, mishaps>>

GetHeads(d) ==
    /\ tick[d].at = "heads"
    /\ tick' = [tick EXCEPT ![d].at = "log",
           ![d].view.head = [r \in tick[d].keys.heads |-> remote.head[r]]]
    /\ UNCHANGED <<serverVars, deviceVars, mishaps>>

\* Mutant: the object at the frontier is taken for fetched.
WantedAfter(d) == {x \in tick[d].keys.log : x[2] > At(client[d].frontier, x[1])}
\* needs_fetch of the listed log objects.
Wanted(d) == {x \in tick[d].keys.log : ~IsBelow(x, client[d].frontier)}

\* One that was reaped since the LIST answers 410, which ends the tick.
GetLog(d) ==
    /\ tick[d].at = "log"
    /\ tick' = [tick EXCEPT ![d] =
           IF Wanted(d) \subseteq remote.log
           THEN [@ EXCEPT !.at = "snapshot", !.view.log = Wanted(d)]
           ELSE Idle]
    /\ UNCHANGED <<serverVars, deviceVars, mishaps>>

-----------------------------------------------------------------------------
(* ... the core step ...                                                   *)

\* Sealing salts a snapshot: no two have one etag.
FreshEtag == 1 + Max({remote.snap.id} \cup {local[d].snap.id : d \in Device}
                                     \cup {disk[d].snap.id : d \in Device})

\* What sync_against returns: pushed is the view after the mirror back.
Uploads(d, view, pushed, cl) ==
    {<<"log", x>> : x \in pushed.log \ tick[d].keys.log}
    \cup {<<"head", r, pushed.head[r]>> :
              r \in {q \in DOMAIN pushed.head : pushed.head[q] # At(view.head, q)}}
    \cup (IF pushed.snap.id = view.snap.id THEN {}
          ELSE {<<"snapshot", pushed.snap, SubsumedFrontier(cl)>>})

\* After the mirror in: adopt a snapshot that covers something the client
\* lacks, or fold.
AdoptOrFold(cl, st) == IF NeedsSnapshotAdoption(cl, st) THEN Bootstrap(cl, st) ELSE Fold(cl, st)

Skips(cl, st) == K > 0 /\ CompactionDue(cl, st, K) /\ AlreadyCovered(cl, st)
Compacts(cl, st) == /\ K > 0 /\ CompactionDue(cl, st, K)
                    /\ ~AlreadyCovered(cl, st) /\ MayPublish(cl, st)
Compacted(cl, st) == IF Compacts(cl, st) THEN PublishSnapshot(cl, st, FreshEtag) ELSE st
Rebased(cl, st) == IF Skips(cl, st) \/ Compacts(cl, st) THEN Rebase(cl, st) ELSE cl

\* sync_tick, once the last GET has answered: mirror in, adopt or fold, maybe
\* compact, mirror back.  The coverage to declare is the client's own now.
Sync(d) ==
    /\ tick[d].at = "snapshot"
    /\ \E view \in {[tick[d].view EXCEPT
                        !.snap = IF tick[d].keys.snapshot THEN remote.snap ELSE @]} :
       \E pulled \in {Mirror(view, local[d])} :
       \E folded \in {AdoptOrFold(client[d], pulled)} :
           /\ local' = [local EXCEPT ![d] = Compacted(folded, pulled)]
           /\ client' = [client EXCEPT ![d] = Rebased(folded, pulled)]
           /\ tick' = [tick EXCEPT ![d] = [Idle EXCEPT !.at = "put",
                  !.puts = Uploads(d, view, Mirror(local'[d], view), folded)]]
    /\ UNCHANGED <<serverVars, opened, disk, unsaved, mishaps>>

-----------------------------------------------------------------------------
(* ... and up.  The uploads go in the order a HashMap lists them: any.     *)

Sent(d, u) == tick' = [tick EXCEPT ![d].puts = @ \ {u}]
\* A refusal throws out of the loop: what was not sent yet is not sent.
Refused(d) == tick' = [tick EXCEPT ![d] = Idle] /\ UNCHANGED serverVars

\* A log object the server has (412) is taken for sent.
PutLogUpload(d, u) ==
    /\ u[1] = "log"
    /\ \/ IsBelow(u[2], floor) /\ Refused(d)
       \/ /\ ~IsBelow(u[2], floor)
          /\ remote' = PutEntry(remote, u[2])
          /\ Sent(d, u) /\ UNCHANGED <<covered, floor, seen>>

PutHeadUpload(d, u) ==
    /\ u[1] = "head"
    /\ \/ u[3] < At(remote.head, u[2]) /\ Refused(d)
       \/ /\ u[3] >= At(remote.head, u[2])
          /\ remote' = WithHead(remote, u[2], u[3])
          /\ Sent(d, u) /\ UNCHANGED <<covered, floor, seen>>

\* put_snapshot_blob's (a) over-claim, (b) floor and (c) regression.
IsRetained(r, c) ==
    c <= Max({At(floor, r)} \cup {x[2] + 1 : x \in {y \in remote.log : y[1] = r}})
SnapshotAccepted(header) ==
    /\ \A r \in DOMAIN header : IsRetained(r, header[r])
    /\ DOMAIN floor \subseteq DOMAIN header
    /\ LeqFrontier(floor, header) /\ LeqFrontier(covered, header)

PutSnapshotUpload(d, u) ==
    /\ u[1] = "snapshot"
    /\ \/ ~SnapshotAccepted(u[3]) /\ Refused(d)
       \/ /\ SnapshotAccepted(u[3])
          /\ remote' = [remote EXCEPT !.snap = u[2]]
          /\ covered' = u[3]
          /\ Sent(d, u) /\ UNCHANGED <<floor, seen>>

Put(d) ==
    /\ tick[d].at = "put"
    /\ \E u \in tick[d].puts :
           PutLogUpload(d, u) \/ PutHeadUpload(d, u) \/ PutSnapshotUpload(d, u)
    /\ UNCHANGED <<deviceVars, mishaps>>

\* Mutant: what was pulled is reported before it is durable.
FinishUnsaved(d) ==
    /\ tick[d].at = "put" /\ tick[d].puts = {}
    /\ tick' = [tick EXCEPT ![d].at = "report"]
    /\ UNCHANGED <<serverVars, deviceVars, mishaps>>

\* persistBlobs, once everything was sent.
Finish(d) ==
    /\ tick[d].at = "put" /\ tick[d].puts = {}
    /\ disk' = [disk EXCEPT ![d] = local[d]]
    /\ tick' = [tick EXCEPT ![d].at = "report"]
    /\ UNCHANGED <<serverVars, opened, local, unsaved, client, mishaps>>

\* putFrontier: the rows of the replicas reported are overwritten.
Report(d) ==
    LET f == client[d].frontier IN
    /\ tick[d].at = "report"
    /\ seen' = [seen EXCEPT
           ![d] = [r \in DOMAIN @ \cup DOMAIN f |-> IF r \in DOMAIN f THEN f[r] ELSE @[r]]]
    /\ tick' = [tick EXCEPT ![d] = Idle]
    /\ UNCHANGED <<remote, covered, floor, deviceVars, mishaps>>

\* A call fails: the tick ends, what it did stays done.
Fail(d) ==
    /\ tick[d].at # "idle" /\ mishaps < MaxMishaps
    /\ tick' = [tick EXCEPT ![d] = Idle]
    /\ mishaps' = mishaps + 1
    /\ UNCHANGED <<serverVars, deviceVars>>

-----------------------------------------------------------------------------
(* The collector.                                                          *)

Reporters == {d \in Device : seen[d] # EmptyFrontier}
Lowered(r) == Min({covered[r]} \cup {At(seen[d], r) : d \in Reporters})

RaiseFloor ==
    /\ Collects
    /\ floor' = [r \in DOMAIN floor \cup DOMAIN covered |->
                     IF r \in DOMAIN covered THEN Max({At(floor, r), Lowered(r)})
                                             ELSE floor[r]]
    /\ UNCHANGED <<remote, covered, seen, deviceVars, tick, mishaps>>

Reap(x) ==
    /\ Collects /\ IsBelow(x, floor)
    /\ remote' = [remote EXCEPT !.log = @ \ {x}, !.gone = @ \cup {x}]
    /\ UNCHANGED <<covered, floor, seen, deviceVars, tick, mishaps>>

-----------------------------------------------------------------------------
TickStep(d) == List(d) \/ GetHeads(d) \/ GetLog(d) \/ Sync(d)
                   \/ Put(d) \/ Finish(d) \/ Report(d)

Next ==
    \/ \E d \in Device : Open(d) \/ Commit(d) \/ Persist(d) \/ TickStep(d) \/ Fail(d)
    \/ RaiseFloor
    \/ \E x \in remote.log : Reap(x)

Spec == Init /\ [][Next]_vars

\* The worker re-arms its poll after every tick, and IndexedDB answers.
FairSpec ==
    /\ Spec
    /\ \A d \in Device : /\ WF_vars(~IsOpen(d) /\ Open(d))
                         /\ WF_vars(TickStep(d))
                         /\ WF_vars(Persist(d))

-----------------------------------------------------------------------------
(* Safety.                                                                 *)

\* Types of the server's rows, the stores, the sessions and the ticks; a tick
\* goes on only when its uploads are through.
TypeOK ==
    /\ IsStore(remote) /\ IsFrontier(covered) /\ IsFrontier(floor)
    /\ \A d \in Device : /\ IsFrontier(seen[d]) /\ Own(d) \subseteq Replica
                         /\ IsStore(local[d]) /\ IsStore(disk[d])
                         /\ IsClient(client[d])
                         /\ IsStore(tick[d].view) /\ tick[d].keys.log \subseteq Dot
                         /\ tick[d].at # "put" => tick[d].puts = {}
    /\ unsaved \subseteq Device /\ mishaps \in 0..MaxMishaps

\* "The target never advertises a head past an object neither it nor a snapshot
\* holds" (mirror).  More is true of a device's store: its head pointers, live
\* and durable, pass only objects that are in the same store, although a view
\* lacks whatever needs_fetch left out, was reaped, or arrived after the LIST.
LocalHeadIsBacked ==
    \A d \in Device : \A st \in {local[d], disk[d]} :
        \A r \in DOMAIN st.head : \A n \in 0..(st.head[r] - 1) : <<r, n>> \in st.log

\* "A member's un-pulled log tail is never reaped before it can pull it"
\* (pull_frontier): when the floor passes an entry, every device that reports
\* has written it or holds its object durably, so that a crash brings it back.
FloorSparesUnpulled ==
    \A x \in remote.log, d \in Reporters :
        IsBelow(x, floor') /\ ~IsBelow(x, floor) => x[1] \in Own(d) \/ x \in disk[d].log
UnpulledIsKept == [][FloorSparesUnpulled]_vars

-----------------------------------------------------------------------------
(* Liveness.                                                               *)

\* Announced, and on the server with everything from the floor up to it.
IsRetainedEntry(x) ==
    /\ IsBelow(x, remote.head)
    /\ \A n \in At(floor, x[1])..x[2] : <<x[1], n>> \in remote.log

\* An entry that stays announced and retained is folded by every device, for
\* good: a tick that ends early, or a crash, leaves what needs_fetch skips and
\* what mirror copies such that a later tick gets what this one missed.
RetainedArrives ==
    \A r \in Replica, n \in 0..(MaxEntries - 1), d \in Device :
        <>[]IsRetainedEntry(<<r, n>>) => <>[](<<r, n>> \in client[d].engine)

-----------------------------------------------------------------------------
(* Claims of the source the code does not keep.                            *)

\* "The SUBSUMED frontier ... the server's GC gate 1 trusts only what a
\* snapshot actually folds" (syncData): the declared coverage is not beyond
\* the coverage sealed in the body it was sent with.
CoverageIsSealed == LeqFrontier(covered, remote.snap.covered)
=============================================================================
