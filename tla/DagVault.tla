------------------------------ MODULE DagVault ------------------------------
(***************************************************************************)
(* The sealing that rides the operations (openom-vault/src/dag_vault.rs):  *)
(* an operation may mint an epoch, a key wrapped for some members, or add  *)
(* wraps to older epochs, and every replica folds the ones that take       *)
(* effect into the epochs it keeps and the one it writes under.            *)
(*                                                                         *)
(* An epoch is named by the operation that minted it.  Each call here may  *)
(* run on any view, the owner's on each of the owner's devices.            *)
(* Left out: the keys themselves (a wrap is the name it is addressed to,   *)
(* and opens), the cap on wraps per author and recipient, which no call    *)
(* here reaches, and the escrow, which no call writes any more.            *)
(***************************************************************************)
EXTENDS DagRules

CONSTANTS
  RolesOffered, \* the roles a member may be added with or moved to
  Triggers      \* when a reseal runs: "WhenStale", "Force"

\* Roles are offered; the first operations remove nobody and add wraps to epochs
\* they know.
ASSUME VaultAssumption ==
  /\ RolesOffered \subseteq Roles
  /\ \A o \in Prologue : /\ PrologueOps[o].act # "remove"
                         /\ \A w \in PrologueOps[o].added : w[1] \in PrologueOps[o].past

NoSealing == [ordinal |-> -1, wraps |-> {}, added |-> {}]

-----------------------------------------------------------------------------
(* The fold of a resolution r: its members, who opens each epoch that is   *)
(* kept, and the epoch written under.                                      *)

\* The operations whose sealing counts: the genesis and the effective ones.
Effective(V, r) == {o \in V : ops[o].act = "create"} \cup r.effective
MintingOps(E)   == {o \in E : ops[o].act \in {"create", "remove", "reseal"}}

\* The epochs a replica keeps: an ordinal no honest minting could have reached is
\* dropped.
KeptOf(minting, count) == {o \in minting : ops[o].ordinal \in 0 .. count - 1}

AddedBy(E, e) == {w[2] : w \in {w \in UNION {ops[o].added : o \in E} : w[1] = e}}
Readers(E, e) == ops[e].wraps \cup AddedBy(E, e)

MembersOf(r) == Active(r.state)

\* Of a reseal only one that covers exactly the members may be written under; the
\* greatest (ordinal, id) wins.
WriteEpoch(readers, members) ==
  LET eligible == {e \in DOMAIN readers : ops[e].act = "reseal" => readers[e] = members}
  IN CHOOSE e \in eligible : \A f \in eligible :
       ops[f].ordinal < ops[e].ordinal \/ (ops[f].ordinal = ops[e].ordinal /\ f <= e)

FoldInto(r, readers) ==
  [state   |-> r.state,
   readers |-> readers,
   write   |-> WriteEpoch(readers, MembersOf(r))]

FoldEffective(r, E) ==
  FoldInto(r, [e \in KeptOf(MintingOps(E), Cardinality(MintingOps(E))) |-> Readers(E, e)])

FoldResolved(V, r) == FoldEffective(r, Effective(V, r))
FoldAll(V) == FoldResolved(V, Resolve(V))

-----------------------------------------------------------------------------
(* What a call reads off the fold f of its view.                           *)

NeedsReseal(f) == f.readers[f.write] # MembersOf(f)

\* Mutant: for everybody who ever was a member.
MissingWrapsOfEver(f, a) ==
  {w \in (DOMAIN f.readers) \X {m \in Members : f.state[m].known} :
     a \in f.readers[w[1]] /\ w[2] \notin f.readers[w[1]]}

\* The wraps a member can add: to the epochs it opens, for the members they miss.
MissingWraps(f, a) ==
  {w \in (DOMAIN f.readers) \X MembersOf(f) : a \in f.readers[w[1]] /\ w[2] \notin f.readers[w[1]]}

Newest(f) ==
  CHOOSE n \in {ops[e].ordinal : e \in DOMAIN f.readers} :
    \A e \in DOMAIN f.readers : ops[e].ordinal <= n

NextOrdinal(f) == Newest(f) + 1

-----------------------------------------------------------------------------
(* The calls, on a view V and its fold f.                                  *)

Sealed(author, act, target, role, sealing, V) ==
  \E id \in FreshIds :
    Mint(id, Both([author |-> author, act |-> act, target |-> target, role |-> role], sealing), V)

\* The owner's device hands the joiner every epoch it opens.
WrapsFor(f, m) == {e \in DOMAIN f.readers : Founder \in f.readers[e]} \X {m}

AddMember(V, f, m, role) ==
  /\ m \notin MembersOf(f)
  /\ Sealed(Founder, "add", m, role, [NoSealing EXCEPT !.added = WrapsFor(f, m)], V)

\* A removal mints the next epoch for those who stay.
EpochFor(f, readers) == [ordinal |-> NextOrdinal(f), wraps |-> readers, added |-> {}]

RemoveMember(V, f, m) ==
  /\ m \in MembersOf(f) \ {Founder}
  /\ Sealed(Founder, "remove", m, Viewer, EpochFor(f, MembersOf(f) \ {m}), V)

ChangeRole(V, f, m, role) ==
  /\ m \in MembersOf(f) \ {Founder}
  /\ role # f.state[m].role
  /\ Sealed(Founder, "role", m, role, NoSealing, V)

\* Any member may reseal: a fresh epoch that covers exactly the members.
Reseal(V, f, a, trigger) ==
  /\ a \in MembersOf(f)
  /\ trigger = "WhenStale" => NeedsReseal(f)
  /\ Sealed(a, "reseal", a, Viewer, EpochFor(f, MembersOf(f)), V)

Backfill(V, f, a) ==
  /\ a \in MembersOf(f)
  /\ \E missing \in {MissingWraps(f, a)} :
       /\ missing # {}
       /\ Sealed(a, "reseal", a, Viewer, [NoSealing EXCEPT !.added = missing], V)

VaultInit == ops = PrologueOps

CallsOn(V, f) ==
  \/ \E m \in Members, role \in RolesOffered : AddMember(V, f, m, role) \/ ChangeRole(V, f, m, role)
  \/ \E m \in Members : RemoveMember(V, f, m) \/ Backfill(V, f, m)
  \/ \E m \in Members, trigger \in Triggers : Reseal(V, f, m, trigger)

VaultNext == \E V \in Views : \E f \in {FoldAll(V)} : CallsOn(V, f)

VaultSpec == VaultInit /\ [][VaultNext]_ops

-----------------------------------------------------------------------------
(* Compaction: the checkpoint carries the epochs of the cut, before the    *)
(* ordinal bound, with the wraps added to them, and how many operations    *)
(* minted.                                                                 *)

\* Mutant: the wraps added below the cut are pruned with their operations.
CheckpointMinted(E) == [e \in {o \in MintingOps(E) : ops[o].ordinal >= 0} |-> ops[e].wraps]

CheckpointWraps(E) == [e \in {o \in MintingOps(E) : ops[o].ordinal >= 0} |-> Readers(E, e)]

\* What a replica folds that starts from the checkpoint at E, the effective
\* operations of the cut, and resolves what is above it to r.
FoldFromCheckpoint(segment, count, r, above) ==
  FoldInto(r,
    [e \in KeptOf(DOMAIN segment \cup above, count + Cardinality(above)) |->
       (IF e \in DOMAIN segment THEN segment[e] ELSE ops[e].wraps)
       \cup AddedBy(r.effective, e)])

FoldCompacted(E, r) ==
  FoldFromCheckpoint(CheckpointWraps(E), Cardinality(MintingOps(E)), r,
                     MintingOps(r.effective))

-----------------------------------------------------------------------------
All == DOMAIN ops

\* Forward secrecy across devices: an epoch minted by somebody who knew of a
\* removal never becomes readable to whom it removed, through any reseal or
\* backfill, until somebody who knew of it adds them again (remove_member,
\* covering_reseal_sealing, backfill_rrk).
NoKeyAfterRemoval ==
  \E f \in {FoldAll(All)} : \A r \in All : ops[r].act = "remove" =>
    LET out  == ops[r].target
        back == {a \in All : ops[a].act = "add" /\ ops[a].target = out /\ r \in ops[a].past}
    IN back = {} =>
         \A e \in DOMAIN f.readers : e = r \/ r \in ops[e].past => out \notin f.readers[e]

\* A replica that adopted a checkpoint keeps the same members, epochs, readers and
\* write epoch as one with the whole history (author_checkpoint_sealing).
CheckpointFoldsAlike ==
  \E f \in {FoldAll(All)} :
    \A C \in Views : Dominates(C, All) =>
      \E r \in {Resolve(C)} :
        FoldCompacted(Effective(C, r), ResolveFrom(r.state, All \ C)) = f

-----------------------------------------------------------------------------
(* What the source promises and TLC refutes; no run checks it.             *)

\* "The bound never drops an honest epoch" (dag_vault.rs 214).
HonestEpochsAreKept ==
  \E r \in {Resolve(All)} :
    \A e \in MintingOps(Effective(All, r)) :
      ops[e].ordinal >= 0 => e \in DOMAIN FoldResolved(All, r).readers
=============================================================================
