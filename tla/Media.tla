------------------------------- MODULE Media -------------------------------
(***************************************************************************)
(* Media blobs of one tree on the managed server (openom/src/media.rs).    *)
(*                                                                         *)
(* No handler here holds a transaction: every statement and every call of  *)
(* the object store is a step of its own, and a handler goes on from what  *)
(* its first read found.  A task is one handler running, a request or the  *)
(* scheduled sweep.                                                        *)
(*                                                                         *)
(* Time is the two windows a sweep compares with: `aged` holds the blobs   *)
(* whose row has been in its present state longer than the window.         *)
(***************************************************************************)
EXTENDS Integers, FiniteSets

CONSTANTS
    MediaBlob,       \* blob ids (server-minted, never used twice)
    Task,            \* handlers that may run at once
    MaxStorageBytes, MaxBlobBytes, MaxBlobCount,  \* the owner's entitlements
    MaxRefs,         \* bound on attaches
    Exclusive        \* at most one handler at a time works on a blob

ASSUME MediaAssumption ==
    /\ {MaxStorageBytes, MaxBlobBytes, MaxBlobCount, MaxRefs} \subseteq Nat
    /\ Exclusive \in BOOLEAN

VARIABLES
    mediaUsed, blobCount,  \* accounts.media_used_bytes, blob_count
    treeBlobs,   \* tree_blobs: blob -> its row, "none" before and after
    staging,     \* objects at the staging keys: blob -> bytes, 0 absent
    final,       \* objects at the canonical keys
    aged,
    minted,      \* history: blob ids used
    task         \* what each running handler does next, and what it read

mediaVars == <<mediaUsed, blobCount, treeBlobs, staging, final, aged, minted, task>>

Size == 1..MaxBlobBytes
NoRow == [state |-> "none", size |-> 0, refs |-> 0]
Ready == [at |-> "idle"]

MediaInit ==
    /\ mediaUsed = 0 /\ blobCount = 0 /\ aged = {} /\ minted = {}
    /\ treeBlobs = [b \in MediaBlob |-> NoRow]
    /\ staging = [b \in MediaBlob |-> 0]
    /\ final = [b \in MediaBlob |-> 0]
    /\ task = [t \in Task |-> Ready]

Goes(t, next) == task' = [task EXCEPT ![t] = next]
Ends(t) == Goes(t, Ready)
WorksOn(t, b) == task[t].at # "idle" /\ task[t].blob = b
\* May a handler begin on this blob?
MayBegin(t, b) ==
    /\ task[t].at = "idle"
    /\ Exclusive => \A u \in Task : ~WorksOn(u, b)

Release(bytes) ==
    /\ mediaUsed' = mediaUsed - bytes
    /\ blobCount' = blobCount - 1

-----------------------------------------------------------------------------
(* intent                                                                  *)

HasRoom(n) ==
    /\ n <= MaxBlobBytes
    /\ mediaUsed + n <= MaxStorageBytes
    /\ blobCount + 1 <= MaxBlobCount

Reserve(t, b, n) ==
    /\ task[t].at = "idle" /\ b \notin minted
    /\ HasRoom(n)
    /\ mediaUsed' = mediaUsed + n /\ blobCount' = blobCount + 1
    /\ minted' = minted \cup {b}
    /\ Goes(t, [at |-> "insert", blob |-> b, size |-> n])
    /\ UNCHANGED <<treeBlobs, staging, final, aged>>

InsertPending(t) ==
    /\ task[t].at = "insert"
    /\ treeBlobs' = [treeBlobs EXCEPT ![task[t].blob] = [state |-> "pending", size |-> task[t].size, refs |-> 0]]
    /\ Ends(t)
    /\ UNCHANGED <<mediaUsed, blobCount, staging, final, aged, minted>>

InsertFails(t) ==
    /\ task[t].at = "insert"
    /\ Release(task[t].size)
    /\ Ends(t)
    /\ UNCHANGED <<treeBlobs, staging, final, aged, minted>>

\* The client PUTs at the presigned URL: the checksum is signed, the size is not.
Upload(b, n) ==
    /\ b \in minted /\ treeBlobs[b].state = "pending" /\ staging[b] = 0
    /\ staging' = [staging EXCEPT ![b] = n]
    /\ UNCHANGED <<mediaUsed, blobCount, treeBlobs, final, aged, minted, task>>

-----------------------------------------------------------------------------
(* confirm                                                                 *)

\* The row is read, then the staged object's size.
ConfirmHead(t, b) ==
    /\ MayBegin(t, b)
    /\ treeBlobs[b].state = "pending" /\ staging[b] # 0
    /\ Goes(t, [at |-> IF staging[b] > treeBlobs[b].size THEN "reject" ELSE "reconcile",
                blob |-> b, size |-> treeBlobs[b].size, actual |-> staging[b]])
    /\ UNCHANGED <<mediaUsed, blobCount, treeBlobs, staging, final, aged, minted>>

\* More was uploaded than was reserved: cleanup_rejected.
RejectRelease(t) ==
    /\ task[t].at = "reject"
    /\ Release(task[t].size)
    /\ Goes(t, [task[t] EXCEPT !.at = "forget"])
    /\ UNCHANGED <<treeBlobs, staging, final, aged, minted>>

\* Mutant: the meter keeps the declared size.
ReconcileNothing(t) ==
    /\ task[t].at = "reconcile"
    /\ Goes(t, [task[t] EXCEPT !.at = "copy"])
    /\ UNCHANGED <<mediaUsed, blobCount, treeBlobs, staging, final, aged, minted>>

Reconcile(t) ==
    /\ task[t].at = "reconcile"
    /\ mediaUsed' = mediaUsed - (task[t].size - task[t].actual)
    /\ Goes(t, [task[t] EXCEPT !.at = "copy"])
    /\ UNCHANGED <<blobCount, treeBlobs, staging, final, aged, minted>>

\* copy_object: with nothing staged the store answers an error and confirm ends.
Copy(t) ==
    /\ task[t].at = "copy"
    /\ LET b == task[t].blob IN
       IF staging[b] = 0 THEN Ends(t) /\ UNCHANGED final
       ELSE /\ final' = [final EXCEPT ![b] = staging[b]]
            /\ Goes(t, [task[t] EXCEPT !.at = "promote"])
    /\ UNCHANGED <<mediaUsed, blobCount, treeBlobs, staging, aged, minted>>

\* An UPDATE: it does nothing when the row has gone meanwhile.
Promote(t) ==
    LET b == task[t].blob IN
    /\ task[t].at = "promote"
    /\ treeBlobs' = IF treeBlobs[b].state = "none" THEN treeBlobs
                    ELSE [treeBlobs EXCEPT ![b].state = "live", ![b].size = task[t].actual]
    /\ aged' = aged \ {b}
    /\ Goes(t, [task[t] EXCEPT !.at = "unstage"])
    /\ UNCHANGED <<mediaUsed, blobCount, staging, final, minted>>

Unstage(t) ==
    /\ task[t].at = "unstage"
    /\ staging' = [staging EXCEPT ![task[t].blob] = 0]
    /\ Ends(t)
    /\ UNCHANGED <<mediaUsed, blobCount, treeBlobs, final, aged, minted>>

-----------------------------------------------------------------------------
(* attach, detach: the row is read, and on that reading one UPDATE is made *)

RefRead(t, b, op) ==
    /\ MayBegin(t, b)
    /\ treeBlobs[b].state \in {"live", "tombstoned"}
    /\ op = "detach" => treeBlobs[b].state = "live"
    /\ op = "attach" => treeBlobs[b].refs < MaxRefs
    /\ Goes(t, [at |-> op, blob |-> b])
    /\ UNCHANGED <<mediaUsed, blobCount, treeBlobs, staging, final, aged, minted>>

\* A row that has gone meanwhile is an error of fetch_one.
Attach(t) ==
    LET b == task[t].blob IN
    /\ task[t].at = "attach"
    /\ treeBlobs' = IF treeBlobs[b].state = "none" THEN treeBlobs
                    ELSE [treeBlobs EXCEPT ![b].state = "live", ![b].refs = @ + 1]
    /\ aged' = aged \ {b}
    /\ Ends(t)
    /\ UNCHANGED <<mediaUsed, blobCount, staging, final, minted>>

Detach(t) ==
    LET b == task[t].blob IN
    /\ task[t].at = "detach"
    /\ treeBlobs' = IF treeBlobs[b].state # "live" THEN treeBlobs
                    ELSE [treeBlobs EXCEPT ![b].refs = IF @ = 0 THEN 0 ELSE @ - 1,
                             ![b].state = IF treeBlobs[b].refs <= 1 THEN "tombstoned" ELSE "live"]
    /\ aged' = aged \ {b}
    /\ Ends(t)
    /\ UNCHANGED <<mediaUsed, blobCount, staging, final, minted>>

-----------------------------------------------------------------------------
(* run_sweep, one listed row at a time                                     *)

Age(b) ==
    /\ treeBlobs[b].state \in {"pending", "tombstoned"} /\ b \notin aged
    /\ aged' = aged \cup {b}
    /\ UNCHANGED <<mediaUsed, blobCount, treeBlobs, staging, final, minted, task>>

\* The row as the sweep's SELECT saw it; nothing later looks at its state again.
SweepList(t, b) ==
    /\ MayBegin(t, b)
    /\ b \in aged
    /\ LET tomb == treeBlobs[b].state = "tombstoned" IN
       Goes(t, [at |-> IF tomb THEN "reclaim" ELSE "credit",
                blob |-> b, size |-> treeBlobs[b].size, tomb |-> tomb])
    /\ UNCHANGED <<mediaUsed, blobCount, treeBlobs, staging, final, aged, minted>>

\* A tombstone's object goes before its credit, an abandoned upload's after it;
\* the row is deleted last.
SweepReclaim(t) ==
    LET b == task[t].blob IN
    /\ task[t].at = "reclaim"
    /\ IF task[t].tomb THEN final' = [final EXCEPT ![b] = 0] /\ UNCHANGED staging
                       ELSE staging' = [staging EXCEPT ![b] = 0] /\ UNCHANGED final
    /\ Goes(t, [task[t] EXCEPT !.at = IF task[t].tomb THEN "credit" ELSE "forget"])
    /\ UNCHANGED <<mediaUsed, blobCount, treeBlobs, aged, minted>>

SweepCredit(t) ==
    /\ task[t].at = "credit"
    /\ Release(task[t].size)
    /\ Goes(t, [task[t] EXCEPT !.at = IF task[t].tomb THEN "forget" ELSE "reclaim"])
    /\ UNCHANGED <<treeBlobs, staging, final, aged, minted>>

\* The row's DELETE, of the sweep and of a rejected confirm, which then unstages.
Forget(t) ==
    LET b == task[t].blob IN
    /\ task[t].at = "forget"
    /\ treeBlobs' = [treeBlobs EXCEPT ![b] = NoRow]
    /\ aged' = aged \ {b}
    /\ IF "actual" \in DOMAIN task[t] THEN Goes(t, [task[t] EXCEPT !.at = "unstage"]) ELSE Ends(t)
    /\ UNCHANGED <<mediaUsed, blobCount, staging, final, minted>>

-----------------------------------------------------------------------------
MediaNext ==
    \/ \E t \in Task :
        \/ \E b \in MediaBlob :
            \/ \E n \in Size : Reserve(t, b, n)
            \/ ConfirmHead(t, b)
            \/ \E op \in {"attach", "detach"} : RefRead(t, b, op)
            \/ SweepList(t, b)
        \/ InsertPending(t) \/ InsertFails(t)
        \/ RejectRelease(t) \/ Reconcile(t) \/ Copy(t) \/ Promote(t) \/ Unstage(t)
        \/ Attach(t) \/ Detach(t)
        \/ SweepReclaim(t) \/ SweepCredit(t) \/ Forget(t)
    \/ \E b \in MediaBlob : Age(b) \/ \E n \in Size : Upload(b, n)

MediaSpec == MediaInit /\ [][MediaNext]_mediaVars

-----------------------------------------------------------------------------
\* What the owner is billed for a blob: the size of its row, but for a handler
\* that is between a statement on the row and one on the meter.
Billed(b) ==
    LET at(stages) == {t \in Task : WorksOn(t, b) /\ task[t].at \in stages}
    IN  IF at({"insert"}) # {} THEN task[CHOOSE t \in at({"insert"}) : TRUE].size
        ELSE IF at({"copy", "promote"}) # {} THEN task[CHOOSE t \in at({"copy", "promote"}) : TRUE].actual
        ELSE IF \E t \in at({"forget", "reclaim"}) : task[t].at = "reclaim" => ~task[t].tomb THEN 0
        ELSE treeBlobs[b].size

BilledBytes == {u \in MediaBlob \X Size : u[2] <= Billed(u[1])}
BilledBlobs == {b \in MediaBlob : Billed(b) # 0}

\* The owner is billed for exactly the rows there are, byte for byte and blob for
\* blob, and never beyond the plan, whatever handlers of other blobs are half
\* done (media.rs: intent, confirm, run_sweep share one meter and no transaction).
MediaMeterIsExact ==
    /\ mediaUsed = Cardinality(BilledBytes) /\ mediaUsed <= MaxStorageBytes
    /\ blobCount = Cardinality(BilledBlobs) /\ blobCount <= MaxBlobCount

=============================================================================
