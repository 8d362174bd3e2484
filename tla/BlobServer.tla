----------------------------- MODULE BlobServer -----------------------------
(***************************************************************************)
(* One tree on the managed server: the blob routes (openom/src/blobs.rs),  *)
(* the seen-frontier report (frontier.rs) and the log collector (gc.rs)    *)
(* over their two stores, the Postgres index and the R2 bucket.            *)
(*                                                                         *)
(* A handler is cut into several actions exactly where its transaction     *)
(* lets others in.  Two locks shape that: the tree row's (`publishing`),   *)
(* taken by a snapshot PUT, a heads PUT and the collector's mark; and the  *)
(* account row's, which an accumulating PUT takes with its charge and      *)
(* holds to its commit, and which the reaper's credit needs.  The check a  *)
(* log PUT makes on the floor is under neither.                            *)
(*                                                                         *)
(* Every log object has size 1.  A snapshot is an index into `bodies`, the *)
(* covered frontiers sealed in the snapshots there are; here the header a  *)
(* client sends says what its body says.                                   *)
(***************************************************************************)
EXTENDS Frontiers, Sequences

CONSTANTS
    Member, Owner,  \* account ids that appear in the ACL; the tree's owner
    Request,        \* concurrent log PUTs
    None,           \* no dot: the request slot is free
    Quota,          \* accounts.max_tree_bytes, in log objects
    Retention,      \* does the owner's plan retain a history window?
    HeadCounts,     \* counts that heads PUTs carry
    MaxCounter,     \* bound on log counters: 0..MaxCounter-1
    MaxSnapshots    \* bound on the snapshots sealed

ASSUME BlobServerAssumption ==
    /\ Owner \in Member
    /\ None \notin Dot
    /\ Quota \in Nat /\ MaxCounter \in Nat /\ MaxSnapshots \in Nat
    /\ Retention \in BOOLEAN /\ HeadCounts \subseteq Nat

VARIABLES
    rows,       \* tree_blob_index, the log/* keys
    marked,     \* ... those with pending_delete_at set
    objects,    \* the log/* objects in R2
    put,        \* log PUTs in progress: [dot, at], at one of Stage
    reaping,    \* rows the reaper deleted, their R2 object still to delete
    reaped,     \* history: dots whose row was ever deleted
    used,       \* accounts.tree_used_bytes
    head,       \* the heads/* objects in R2
    floor,      \* tree_gc_floor
    bodies,     \* the covered frontier sealed in each snapshot
    snapObject, \* the snapshot object in R2 (0: none)
    snapIndex,  \* its etag in tree_blob_index (0: no row)
    published,  \* tree_snapshot_covered, with the etag it is bound to
    publishing, \* the snapshot PUT that holds the tree lock (0: nobody does)
    access,     \* tree_access
    seen,       \* tree_member_seen
    expired     \* ... the <<member, replica>> reports outside the window

logVars == <<rows, marked, objects, put, reaping, reaped, used>>
snapVars == <<bodies, snapObject, snapIndex, published, publishing>>
seenVars == <<access, seen, expired>>
vars == <<logVars, head, floor, snapVars, seenVars>>

Counter == 0..MaxCounter - 1
LogDot == Replica \X Counter
Stage == {"idle", "checked", "stored"}
Idle == [dot |-> None, at |-> "idle"]
BoundedFrontier == UNION {[S -> 0..MaxCounter] : S \in SUBSET Replica}

Init ==
    /\ rows = {} /\ marked = {} /\ objects = {} /\ reaping = {} /\ reaped = {}
    /\ put = [q \in Request |-> Idle]
    /\ used = 0
    /\ head = EmptyFrontier /\ floor = EmptyFrontier
    /\ bodies = << >> /\ snapObject = 0 /\ snapIndex = 0 /\ publishing = 0
    /\ published = [etag |-> 0, covered |-> EmptyFrontier]
    /\ access = {}
    /\ seen = [m \in Member |-> EmptyFrontier]
    /\ expired = {}

AccountLocked == \E q \in Request : put[q].at = "stored"
TreeLocked == publishing # 0

-----------------------------------------------------------------------------
(* put_log_blob                                                            *)

\* The floor check and the duplicate check.  A request that fails either has
\* changed nothing (409, 412).
PutLogCheck(q, x) ==
    /\ put[q].at = "idle"
    /\ ~IsBelow(x, floor)
    /\ x \notin rows
    /\ put' = [put EXCEPT ![q] = [dot |-> x, at |-> "checked"]]
    /\ UNCHANGED <<rows, marked, objects, reaping, reaped, used, head, floor, snapVars, seenVars>>

\* Mutant: the row may be committed with the R2 write still to do.
PutLogIndexFirst(q) ==
    /\ put[q].at = "checked"
    /\ ~AccountLocked
    /\ used + 1 <= Quota
    /\ put' = [put EXCEPT ![q].at = "stored"]
    /\ UNCHANGED <<rows, marked, objects, reaping, reaped, used, head, floor, snapVars, seenVars>>

\* The charge, which waits for the account's row, then the R2 write.
PutLogStore(q) ==
    /\ put[q].at = "checked"
    /\ ~AccountLocked
    /\ used + 1 <= Quota
    /\ put' = [put EXCEPT ![q].at = "stored"]
    /\ objects' = objects \cup {put[q].dot}
    /\ UNCHANGED <<rows, marked, reaping, reaped, used, head, floor, snapVars, seenVars>>

\* Mutant: a lost race keeps its charge.
PutLogCommitCharged(q) ==
    /\ put[q].at = "stored"
    /\ rows' = rows \cup {put[q].dot}
    /\ used' = used + 1
    /\ put' = [put EXCEPT ![q] = Idle]
    /\ UNCHANGED <<marked, objects, reaping, reaped, head, floor, snapVars, seenVars>>

\* The index insert and the commit; a lost race rolls the charge back.
PutLogCommit(q) ==
    LET x == put[q].dot IN
    /\ put[q].at = "stored"
    /\ rows' = rows \cup {x}
    /\ used' = IF x \in rows THEN used ELSE used + 1
    /\ put' = [put EXCEPT ![q] = Idle]
    /\ UNCHANGED <<marked, objects, reaping, reaped, head, floor, snapVars, seenVars>>

\* Over the quota, or an error or a crash anywhere before the commit: the
\* transaction is rolled back, an object already in R2 stays there.
PutLogAbort(q) ==
    /\ put[q].at # "idle"
    /\ put' = [put EXCEPT ![q] = Idle]
    /\ UNCHANGED <<rows, marked, objects, reaping, reaped, used, head, floor, snapVars, seenVars>>

-----------------------------------------------------------------------------
(* put_pointer_blob, for heads/{replica}: the head may not move backward.  *)

PutHead(r, n) ==
    /\ ~TreeLocked
    /\ n >= At(head, r)
    /\ head' = WithCounter(head, r, n)
    /\ UNCHANGED <<logVars, floor, snapVars, seenVars>>

-----------------------------------------------------------------------------
(* put_snapshot_blob                                                       *)

\* Mutant: reclaimed entries do not count as retained.
IsRetainedInLog(c, r) == c = 0 \/ \E x \in rows : x[1] = r /\ c <= x[2] + 1

\* (a) no more than the tree retains: what is reclaimed, and what is indexed.
IsRetained(c, r) ==
    c <= At(floor, r) \/ c = 0 \/ \E x \in rows : x[1] = r /\ c <= x[2] + 1

SnapshotAccepted(covered) ==
    /\ \A r \in DOMAIN covered : IsRetained(covered[r], r)
    \* (b) at the floor or above, for every replica that has one
    /\ DOMAIN floor \subseteq DOMAIN covered
    /\ LeqFrontier(floor, covered)
    \* (c) no regression of what is published
    /\ LeqFrontier(published.covered, covered)

\* The guards and the R2 write, under the tree lock.
PutSnapshotStore(id) ==
    /\ ~TreeLocked
    /\ SnapshotAccepted(bodies[id])
    /\ snapObject' = id
    /\ publishing' = id
    /\ UNCHANGED <<logVars, head, floor, bodies, snapIndex, published, seenVars>>

\* The index row and the covered rows bound to it, in one commit.
PutSnapshotCommit ==
    /\ TreeLocked
    /\ snapIndex' = publishing
    /\ published' = [etag |-> publishing, covered |-> bodies[publishing]]
    /\ publishing' = 0
    /\ UNCHANGED <<logVars, head, floor, bodies, snapObject, seenVars>>

\* An error or a crash after the R2 write: the old rows stand.
PutSnapshotAbort ==
    /\ TreeLocked
    /\ publishing' = 0
    /\ UNCHANGED <<logVars, head, floor, bodies, snapObject, snapIndex, published, seenVars>>

\* A client seals a new snapshot, to be sent once or several times.
SealSnapshot(covered) ==
    /\ Len(bodies) < MaxSnapshots
    /\ bodies' = Append(bodies, covered)
    /\ UNCHANGED <<logVars, head, floor, snapObject, snapIndex, published, publishing, seenVars>>

-----------------------------------------------------------------------------
(* frontier.rs, access.rs                                                  *)

CurrentMembers == access \cup {Owner}

\* put_frontier: one row per replica in the body; the others keep theirs.
PutFrontier(m, f) ==
    /\ m \in CurrentMembers
    /\ seen' = [seen EXCEPT ![m] =
                    [r \in DOMAIN @ \cup DOMAIN f |-> IF r \in DOMAIN f THEN f[r] ELSE @[r]]]
    /\ expired' = expired \ ({m} \X DOMAIN f)
    /\ UNCHANGED <<logVars, head, floor, snapVars, access>>

\* Time passes, and a report leaves the activity window.
ReportExpires(m, r) ==
    /\ r \in DOMAIN seen[m]
    /\ expired' = expired \cup {<<m, r>>}
    /\ UNCHANGED <<logVars, head, floor, snapVars, access, seen>>

\* apply_membership: the ACL is replaced; reports of old members stay behind.
SetAccess(S) ==
    /\ access' = S
    /\ UNCHANGED <<logVars, head, floor, snapVars, seen, expired>>

-----------------------------------------------------------------------------
(* gc.rs                                                                   *)

InWindow(m) == {r \in DOMAIN seen[m] : <<m, r>> \notin expired}

\* The members whose reports constrain gate 2.  With none, it is no constraint.
Reporters == {m \in CurrentMembers : InWindow(m) # {}}
SeenBy(m, r) == IF r \in InWindow(m) THEN seen[m][r] ELSE 0

\* Gate 1, from the rows bound to the etag of the live snapshot.
GateOne == IF snapIndex # 0 /\ published.etag = snapIndex
           THEN published.covered ELSE EmptyFrontier
\* Mutant: a member that never reported holds everything back.
LoweredByAll(r) == Min({GateOne[r]} \cup {SeenBy(m, r) : m \in CurrentMembers})
Lowered(r) == Min({GateOne[r]} \cup {SeenBy(m, r) : m \in Reporters})
\* Mutant: the floor follows the gates down.
NotRaised(r) == Lowered(r)
Raised(r) == IF At(floor, r) < Lowered(r) THEN Lowered(r) ELSE At(floor, r)

\* Mutant: the dot at the floor is marked too.
MarkAtFloor(young) ==
    /\ ~TreeLocked
    /\ DOMAIN GateOne # {}
    /\ floor' = [r \in DOMAIN floor \cup DOMAIN GateOne |->
                     IF r \in DOMAIN GateOne THEN Raised(r) ELSE floor[r]]
    /\ marked' = marked \cup
           {x \in rows \ young : x[1] \in DOMAIN GateOne /\ x[2] <= floor'[x[1]]}
    /\ UNCHANGED <<rows, objects, put, reaping, reaped, used, head, snapVars, seenVars>>

\* mark_tree.  `young` are the rows still inside the retention window.
Mark(young) ==
    /\ ~TreeLocked
    /\ DOMAIN GateOne # {}
    /\ floor' = [r \in DOMAIN floor \cup DOMAIN GateOne |->
                     IF r \in DOMAIN GateOne THEN Raised(r) ELSE floor[r]]
    /\ marked' = marked \cup
           {x \in rows \ young : x[1] \in DOMAIN GateOne /\ IsBelow(x, floor')}
    /\ UNCHANGED <<rows, objects, put, reaping, reaped, used, head, snapVars, seenVars>>

Sweep == \E young \in (IF Retention THEN SUBSET rows ELSE {{}}) : Mark(young)

\* Mutant: the mark outlives its row.
ReapRowKeepMark(x) ==
    /\ x \in marked
    /\ ~AccountLocked
    /\ rows' = rows \ {x}
    /\ used' = used - 1
    /\ reaping' = reaping \cup {x}
    /\ reaped' = reaped \cup {x}
    /\ UNCHANGED <<marked, objects, put, head, floor, snapVars, seenVars>>

\* reap_marked, one row past the grace: the row and the credit in one commit.
ReapRow(x) ==
    /\ x \in marked
    /\ ~AccountLocked
    /\ rows' = rows \ {x}
    /\ marked' = marked \ {x}
    /\ used' = used - 1
    /\ reaping' = reaping \cup {x}
    /\ reaped' = reaped \cup {x}
    /\ UNCHANGED <<objects, put, head, floor, snapVars, seenVars>>

\* ... then the object; it may fail, or never be tried.
ReapObject(x, deleted) ==
    /\ x \in reaping
    /\ objects' = IF deleted THEN objects \ {x} ELSE objects
    /\ reaping' = reaping \ {x}
    /\ UNCHANGED <<rows, marked, put, reaped, used, head, floor, snapVars, seenVars>>

-----------------------------------------------------------------------------
Next ==
    \/ \E q \in Request :
         \/ \E x \in LogDot : PutLogCheck(q, x)
         \/ PutLogStore(q) \/ PutLogCommit(q) \/ PutLogAbort(q)
    \/ \E r \in Replica, n \in HeadCounts : PutHead(r, n)
    \/ \E f \in BoundedFrontier : SealSnapshot(f)
    \/ \E id \in DOMAIN bodies : PutSnapshotStore(id)
    \/ PutSnapshotCommit \/ PutSnapshotAbort
    \/ \E m \in Member :
         \/ \E f \in BoundedFrontier : PutFrontier(m, f)
         \/ \E r \in Replica : ReportExpires(m, r)
    \/ \E S \in SUBSET (Member \ {Owner}) : SetAccess(S)
    \/ Sweep
    \/ \E x \in LogDot : ReapRow(x) \/ \E deleted \in BOOLEAN : ReapObject(x, deleted)

Spec == Init /\ [][Next]_vars

\* The scheduler keeps running the collector, which queues for the tree lock;
\* a handler that holds a lock commits or fails.
FairSpec ==
    /\ Spec
    /\ SF_vars(Sweep)
    /\ WF_vars(PutSnapshotCommit \/ PutSnapshotAbort)
    /\ \A q \in Request : WF_vars(PutLogCommit(q) \/ PutLogAbort(q))
    /\ \A x \in LogDot : SF_vars(ReapRow(x))

-----------------------------------------------------------------------------
(* Properties.                                                             *)

\* Types of the two stores, the requests and the reports.
TypeOK ==
    /\ rows \subseteq LogDot /\ marked \subseteq rows /\ objects \subseteq LogDot
    /\ reaping \subseteq LogDot /\ reaped \subseteq LogDot
    /\ put \in [Request -> [dot : LogDot \cup {None}, at : Stage]]
    /\ \A q \in Request : put[q].at # "idle" => put[q].dot \in LogDot
    /\ used \in Nat /\ IsFiniteSet(rows)
    /\ IsFrontier(head) /\ IsFrontier(floor)
    /\ bodies \in Seq(BoundedFrontier)
    /\ snapObject \in 0..Len(bodies) /\ snapIndex \in 0..Len(bodies)
    /\ publishing \in 0..Len(bodies)
    /\ published \in [etag : 0..Len(bodies), covered : BoundedFrontier]
    /\ access \subseteq Member
    /\ DOMAIN seen = Member /\ \A m \in Member : IsFrontier(seen[m])
    /\ expired \subseteq Member \X Replica

Sealed(id) == IF id = 0 THEN EmptyFrontier ELSE bodies[id]

\* Nothing is deleted that the live snapshot does not cover: whatever is in R2
\* under the snapshot key, however a publish was cut short, seals a frontier
\* above every dot the collector ever deleted.
ReapedIsCovered == \A x \in reaped : IsBelow(x, Sealed(snapObject))

\* The published coverage is always one the server would accept again, so an
\* honest compactor that covers as much is never refused (the "compaction-
\* freeze" put_snapshot_blob's over-claim guard must not cause): what is
\* published stays retained while the log under it is marked and reaped.
RepublishIsAccepted == snapIndex # 0 => SnapshotAccepted(published.covered)

\* An indexed entry at or above the floor has its object, whatever requests and
\* reapers did to it meanwhile (get_blob answers 200 from the index).
IndexedIsServed == \A x \in rows : ~IsBelow(x, floor) => x \in objects

\* The meter counts each indexed log object once and stays within the quota: a
\* lost race or a failed PUT charges nothing, a reaped row is credited once, and
\* PUTs that were all checked against the same headroom do not all get it.
MeterIsExact == used = Cardinality(rows) /\ used <= Quota

\* The floor and the published coverage only rise, and the floor rises only
\* over what every current member that reported in the window says it has seen.
RatchetsHold ==
    [][/\ LeqFrontier(floor, floor') /\ DOMAIN floor \subseteq DOMAIN floor'
       /\ LeqFrontier(published.covered, published.covered')
       /\ \A m \in Reporters, r \in DOMAIN floor' :
              floor'[r] > At(floor, r) => floor'[r] <= SeenBy(m, r)]_vars

\* The log does not grow forever: an entry that stays indexed below the
\* published coverage is being held back, again and again, by the report of a
\* member that has not seen it.
CoveredIsReclaimed ==
    \A x \in LogDot :
        <>[](x \in rows /\ IsBelow(x, published.covered))
            => []<>(\E m \in Reporters : SeenBy(m, x[1]) <= x[2])
=============================================================================
