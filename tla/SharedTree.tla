----------------------------- MODULE SharedTree -----------------------------
(***************************************************************************)
(* A shared tree on the chain engine, as its devices live it: the vault's  *)
(* membership flows (openom-vault: vault.rs, sharing.rs), the gate every   *)
(* fetched entry passes (verify.rs, attribution.rs; openom-app-core), and  *)
(* the worker that orders keyring and data (appCore.worker.js, sharing.js).*)
(*                                                                         *)
(* The server keeps the published keyrings (chain), the entries devices    *)
(* uploaded (sent), one snapshot (base) and an advisory list of members    *)
(* (acl, the revision it was taken from).  A device keeps on disk the head *)
(* record and the retained revisions (shelf) and its mirrored objects      *)
(* (disk); its open session is core.  An epoch is the body that minted it. *)
(*                                                                         *)
(* Every entry is alone in its replica, so a covered frontier is the set   *)
(* of entries below it (DocSync has the counters).  A data step is one     *)
(* action (DeviceSync has its requests); one call at a time per device.    *)
(*                                                                         *)
(* Bounds: MaxBodies keyrings ever written, MaxEntries entries, MaxCrashes *)
(* crashes; Lookahead is HEAD_LOOKAHEAD (16 in the code).                  *)
(***************************************************************************)
EXTENDS ChainKeyring

CONSTANTS Founding,     \* the member who owns the tree
          Owners,       \* the owner's devices
          Guests,       \* the other members: one device each, named as its member
          AtStart,      \* the guests the tree may already be shared with
          GuestRoles, MaxBodies, MaxEntries, MaxCrashes, Lookahead,
          NoSnap

VARIABLES bodies, chain, acl, entries, sent, base, shelf, disk, core, call, crashes
treeVars == <<bodies, chain, acl, entries, sent, base, shelf, disk, core, call, crashes>>
serverSide == <<chain, acl, sent, base>>

ASSUME SharedTreeAssumption ==
  /\ Founding \notin Guests /\ Owners \cap Guests = {} /\ AtStart \subseteq Guests
  /\ GuestRoles \subseteq 2..5
  /\ MaxEntries \in Nat

Devices == Owners \cup Guests
Holder(d) == IF d \in Owners THEN Founding ELSE d
Maintainer == 3
Resting == [at |-> "idle", op |-> "none", who |-> Founding, role |-> 0]

\* the epoch ids of a body, oldest first
MintedIn(D) ==
  LET f[h \in DOMAIN D] ==
        IF D[h].prev = 0 THEN <<h>>
        ELSE IF Len(D[h].epochs) = Len(f[D[h].prev]) THEN f[D[h].prev]
        ELSE Append(f[D[h].prev], h)
  IN  f
Minted == MintedIn(bodies)
Newest(h) == Last(Minted[h])
Reached(h, m) == {Minted[h][i] : i \in Reach(bodies[h], m)}
WriteKey(h, m) == Minted[h][WriteEpoch(bodies[h], m)]
RevOf(h) == bodies[h].rev
MayAct(h, m, most) == \E x \in bodies[h].roster : x.id = m /\ x.role <= most
TopOf(S) == CHOOSE h \in S : \A g \in S : RevOf(g) <= RevOf(h)

-----------------------------------------------------------------------------
(***************************************************************************)
(* The gate.  c is a session; an entry or a snapshot carries its author,   *)
(* key and governing revision (0: unsigned).                               *)
(***************************************************************************)
Shared(c) == c.top # 0

\* verify_ingest: signed under the governing revision's newest epoch by someone entitled
\* then, and entitled still
Gate(c, e) ==
  LET gov == {h \in c.inst : RevOf(h) = e.ref}
      valid == \E h \in gov : MayAct(h, e.by, Maintainer) /\ e.key = Newest(h)
  IN  CASE ~Shared(c) -> "accept"
        [] e.ref = 0 -> "reject"
        [] gov = {} -> IF e.ref > RevOf(c.top) + Lookahead THEN "reject" ELSE "hold"
        [] valid -> IF MayAct(c.top, e.by, Maintainer) THEN "accept" ELSE "drop"
        [] OTHER -> "reject"

Marked(c, i) ==
  IF entries[i].key \notin c.keys THEN "stalled"
  ELSE CASE Gate(c, entries[i]) = "accept" -> "past"
         [] Gate(c, entries[i]) = "hold" -> "held"
         [] Gate(c, entries[i]) = "drop" -> "dropped"
         [] OTHER -> "stalled"

Rejudge(c, S) ==
  LET now == [i \in S |-> Marked(c, i)]
  IN  [c EXCEPT !.mark = [i \in DOMAIN @ |-> IF i \in S THEN now[i] ELSE @[i]],
                !.eng = @ \cup {i \in S : now[i] = "past"}]

With(c, marks) == {i \in c.mir : c.mark[i] \in marks}
Fold(c) == Rejudge(c, With(c, {"unseen", "held"}))
Retry(c) == Rejudge(c, With(c, {"stalled"}))

\* what it may claim to have folded; a dropped entry does not block
Subsumed(c) == With(c, {"past", "dropped"})
Trusts(c) == c.snap # NoSnap /\ c.snap # c.refused
Unreadable(c) == Trusts(c) /\ c.snap.key \notin c.keys
NeedsAdoption(c) ==
  Trusts(c) /\ (~(c.snap.covers \subseteq Subsumed(c))
                \/ With(c, {"dropped"}) \cap c.snap.covers # {})
\* adopting a snapshot settles the dropped entries it covers; what is held or stalled is still
\* in the mirror and stays so
AdoptBase(c) ==
  IF ~Trusts(c) THEN c
  ELSE IF Gate(c, c.snap) # "accept" THEN [c EXCEPT !.refused = c.snap]
  ELSE [c EXCEPT !.eng = @ \cup c.snap.holds,
                 !.mark = [i \in DOMAIN @ |->
                   IF i \in c.snap.covers /\ @[i] = "dropped" THEN "past" ELSE @[i]]]
Bootstrapped(c) == Fold(AdoptBase(c))

Sealed(d, c) == [by |-> Holder(d), key |-> c.wkey, ref |-> c.ref, top |-> c.top]
Compacted(d, c, k) ==
  LET due == k > 0 /\ Cardinality(c.mir) >= c.len + k
      seal == Sealed(d, c)
  IN  IF ~due \/ (Trusts(c) /\ ~(Subsumed(c) \subseteq c.snap.covers)
                             /\ ~(c.snap.covers \subseteq Subsumed(c)))
      THEN c
      ELSE IF Trusts(c) /\ Subsumed(c) \subseteq c.snap.covers
      THEN [c EXCEPT !.len = Cardinality(c.mir)]
      ELSE [c EXCEPT !.len = Cardinality(c.mir),
                     !.snap = [by |-> seal.by, key |-> seal.key, ref |-> seal.ref,
                               top |-> seal.top, covers |-> Subsumed(c), holds |-> c.eng]]

-----------------------------------------------------------------------------
(***************************************************************************)
(* Sessions.                                                               *)
(***************************************************************************)
NoCore == [open |-> FALSE, inst |-> {}, top |-> 0, keys |-> {}, wkey |-> 0, ref |-> 0,
           eng |-> {}, mark |-> [i \in 1..MaxEntries |-> "unseen"], mir |-> {},
           snap |-> NoSnap, refused |-> NoSnap, len |-> 0]

\* unlock, before anything is folded: the owner reaches every epoch through the recovery root
Unlocked(d, h, dk) ==
  [NoCore EXCEPT !.open = TRUE, !.keys = Reached(h, Holder(d)),
                 !.wkey = WriteKey(h, Holder(d)),
                 !.ref = IF bodies[h].shared # 0 THEN RevOf(h) ELSE 0,
                 !.mir = dk.mir, !.snap = dk.snap]

\* installMembership: only a tree that was ever shared has a gate
Installed(c, h, kept) ==
  IF bodies[h].shared = 0 THEN c ELSE [c EXCEPT !.inst = kept, !.top = h]

\* openStoredTree, joinAsMember, restoreTree: the gate first, then the durable log
Opened(d, h, kept, dk) == Bootstrapped(Installed(Unlocked(d, h, dk), h, kept))

\* set_membership
SetMembership(c, h, kept) ==
  LET g == Installed(c, h, kept) IN IF Shared(g) THEN Retry(Fold(g)) ELSE g

\* the bug of splicing the epoch in and keeping the old governing revision
AdoptedUnderOldRef(d, c, h) ==
  IF d \in Owners \/ Reached(h, d) = {} THEN c
  ELSE [c EXCEPT !.keys = @ \cup Reached(h, d), !.wkey = WriteKey(h, d)]

\* adopt_epochs: an owner session keeps no member secret, a removed member reaches none
Adopted(d, c, h) ==
  IF d \in Owners \/ Reached(h, d) = {} THEN c
  ELSE [c EXCEPT !.keys = @ \cup Reached(h, d), !.wkey = WriteKey(h, d), !.ref = RevOf(h)]
Refreshed(d, c, h, kept) == Adopted(d, SetMembership(c, h, kept), h)

\* the tree is the owner's alone, or its second revision already shares it with some guests
SharedWith(guests) ==
  [WithMember(Provisioned(Founding), 1, 2, {1}, CHOOSE g \in guests : TRUE, Maintainer)
     EXCEPT !.roster = @ \cup {[id |-> g, role |-> Maintainer, key |-> g] : g \in guests},
            !.epochs = <<{Founding} \cup guests>>]

OnShelf(h, kept) == [head |-> h, kept |-> kept]
NoDisk == [mir |-> {}, snap |-> NoSnap]

TreeInit ==
  \E guests \in SUBSET AtStart :
    LET n == IF guests = {} THEN 1 ELSE 2
        there == {CHOOSE o \in Owners : TRUE} \cup guests
    IN  /\ bodies = IF n = 1 THEN <<Provisioned(Founding)>>
                    ELSE <<Provisioned(Founding), SharedWith(guests)>>
        /\ chain = IF n = 1 THEN <<>> ELSE <<1, 2>>
        /\ acl = n
        /\ entries = <<>> /\ sent = {} /\ base = NoSnap
        /\ shelf = [d \in Devices |-> IF d \in there THEN OnShelf(n, 1..n) ELSE OnShelf(0, {})]
        /\ disk = [d \in Devices |-> NoDisk]
        /\ core = [d \in Devices |-> IF d \in there THEN Opened(d, n, 1..n, NoDisk) ELSE NoCore]
        /\ call = [d \in Devices |-> Resting]
        /\ crashes = 0

-----------------------------------------------------------------------------
(***************************************************************************)
(* Local edits.                                                            *)
(***************************************************************************)
MayCommit(c, d) == Shared(c) => MayAct(c.top, Holder(d), Maintainer)

\* submitEdit on a device that may commit: the delta is sealed, stored and persisted
CommitEdit(d) ==
  /\ core[d].open /\ MayCommit(core[d], d)
  /\ Len(entries) < MaxEntries
  /\ LET i == Len(entries) + 1
         c == core[d]
     IN  /\ entries' = Append(entries, Sealed(d, c))
         /\ core' = [core EXCEPT ![d].mir = @ \cup {i}, ![d].eng = @ \cup {i},
                                 ![d].mark[i] = "past"]
         /\ disk' = [disk EXCEPT ![d] = [mir |-> c.mir \cup {i}, snap |-> c.snap]]
  /\ UNCHANGED <<bodies, serverSide, shelf, call, crashes>>

\* an administrator keeps or declines a departed member's trailing edit
DecidePending(d) ==
  /\ core[d].open /\ Shared(core[d]) /\ MayAct(core[d].top, Holder(d), Maintainer)
  /\ \E i \in With(core[d], {"dropped"}), keep \in BOOLEAN :
       core' = [core EXCEPT ![d].mark[i] = "past",
                            ![d].eng = IF keep THEN @ \cup {i} ELSE @]
  /\ UNCHANGED <<bodies, serverSide, entries, shelf, disk, call, crashes>>

-----------------------------------------------------------------------------
(***************************************************************************)
(* One data step (syncData): fetch, adopt or fold, maybe compact, upload.  *)
(***************************************************************************)
ListedAs(d, most) == MayAct(acl, Holder(d), most)
Viewer == 5

Fetched(d) == [core[d] EXCEPT !.mir = @ \cup sent, !.snap = IF base = NoSnap THEN @ ELSE base]
Folded(d, k) ==
  LET c == Fetched(d)
  IN  Compacted(d, IF NeedsAdoption(c) THEN Bootstrapped(c) ELSE Fold(c), k)

\* a snapshot under an epoch the session lacks fails the step
DataFails(d, k) ==
  /\ \/ UNCHANGED core
     \/ ListedAs(d, Viewer) /\ core' = [core EXCEPT ![d] = Fetched(d)] /\ Unreadable(Fetched(d))
     \/ /\ ListedAs(d, Viewer) /\ ~Unreadable(Fetched(d))
        /\ core' = [core EXCEPT ![d] = Folded(d, k)]
  /\ UNCHANGED <<sent, base, disk>>

DataLands(d, k) ==
  /\ ListedAs(d, Viewer) /\ ~Unreadable(Fetched(d))
  /\ LET c == Folded(d, k)
     IN  /\ (~(c.mir \subseteq sent) \/ c.snap # base) => ListedAs(d, Maintainer)
         /\ (c.snap # base /\ base # NoSnap) => base.covers \subseteq c.snap.covers
         /\ core' = [core EXCEPT ![d] = c]
         /\ disk' = [disk EXCEPT ![d] = [mir |-> c.mir, snap |-> c.snap]]
         /\ sent' = sent \cup c.mir
         /\ base' = c.snap

-----------------------------------------------------------------------------
(***************************************************************************)
(* Membership calls of the owner.                                          *)
(***************************************************************************)
Calls(d) ==
  LET b == bodies[shelf[d].head]
      plain == {m \in b.roster : ~IsFounder(m)}
      asked(op, m, r) == [at |-> IF op \in {"remove", "demote"} THEN "pin" ELSE "author",
                          op |-> op, who |-> m, role |-> r]
  IN  {asked("add", g, r) : g \in Guests \ Members(b), r \in GuestRoles}
      \cup {asked("remove", m.id, 0) : m \in plain}
      \cup {asked("promote", m.id, CoOwner) : m \in {x \in plain : x.role # CoOwner}}
      \cup {asked("demote", m.id, r) :
              m \in {x \in plain : x.role = CoOwner}, r \in GuestRoles}

Begin(d) ==
  /\ d \in Owners /\ core[d].open /\ call[d] = Resting
  /\ Len(bodies) < MaxBodies
  /\ \E o \in Calls(d) : call' = [call EXCEPT ![d] = o]
  /\ UNCHANGED <<bodies, serverSide, entries, shelf, disk, core, crashes>>

\* compact-before-remove: best effort, forced (K = 1), under the epoch still in place
Pin(d) ==
  /\ call[d].at = "pin"
  /\ DataFails(d, 1) \/ DataLands(d, 1)
  /\ call' = [call EXCEPT ![d].at = "author"]
  /\ UNCHANGED <<bodies, chain, acl, entries, shelf, crashes>>

NextBody(d) ==
  LET h == shelf[d].head
      n == RevOf(h) + 1
      o == call[d]
  IN  CASE o.op = "add" ->
             WithMember(bodies[h], h, n, Reach(bodies[h], Founding), o.who, o.role)
        [] o.op = "remove" -> WithoutMember(bodies[h], h, n, o.who)
        [] OTHER -> WithRole(bodies[h], h, n, o.who, o.role)

\* the new keyring is saved twice, as the head record and as a retained revision: a crash may
\* tear the two apart
Author(d) ==
  /\ call[d].at = "author"
  /\ Len(bodies) < MaxBodies
  /\ bodies' = Append(bodies, NextBody(d))
  /\ LET h == Len(bodies')
     IN  \/ /\ shelf' = [shelf EXCEPT ![d] = OnShelf(h, @.kept \cup {h})]
            /\ call' = [call EXCEPT ![d].at = "reopen"]
            /\ UNCHANGED <<core, crashes>>
         \/ /\ crashes < MaxCrashes
            /\ shelf' = [shelf EXCEPT ![d] = OnShelf(h, @.kept)]
            /\ call' = [call EXCEPT ![d] = Resting]
            /\ core' = [core EXCEPT ![d] = NoCore]
            /\ crashes' = crashes + 1
  /\ UNCHANGED <<serverSide, entries, disk>>

\* add and remove swap in a session unlocked on the new keyring (a first share folds the
\* owner's own history before the gate goes up); a role change refreshes the old one
Swap(d) ==
  /\ call[d].at = "reopen"
  /\ LET h == shelf[d].head
         kept == shelf[d].kept
         first == bodies[bodies[h].prev].shared = 0
     IN  /\ core' = [core EXCEPT ![d] =
              IF call[d].op \in {"promote", "demote"} THEN Refreshed(d, @, h, kept)
              ELSE IF first THEN SetMembership(Bootstrapped(Unlocked(d, h, disk[d])), h, kept)
              ELSE Opened(d, h, kept, disk[d])]
         /\ call' = [call EXCEPT ![d].at = IF first /\ call[d].op = "add" THEN "base" ELSE "publish"]
  /\ UNCHANGED <<bodies, serverSide, entries, shelf, disk, crashes>>

\* the first share seals and sends a signed base before it publishes: best effort
SealBase(d) ==
  /\ call[d].at = "base"
  /\ DataFails(d, 1) \/ DataLands(d, 1)
  /\ call' = [call EXCEPT ![d].at = "publish"]
  /\ UNCHANGED <<bodies, chain, acl, entries, shelf, crashes>>

-----------------------------------------------------------------------------
(***************************************************************************)
(* The keyring channel.                                                    *)
(***************************************************************************)
AtRev(S, n) == CHOOSE h \in S : RevOf(h) = n
LocalTop(d) == RevOf(TopOf(shelf[d].kept))
ServerHead == IF chain = <<>> THEN 0 ELSE Last(chain)
Accepts(g, h) ==
  IF g = 0 THEN GenesisOk(bodies[h], {Founding})
  ELSE Admit(Anchor(bodies[g], g), bodies[h], {Founding})

\* how far this device's retained revisions carry the server's: a gap or a fork stops it.
\* A server that is as long is left alone, whatever it holds.
Publishable(d) ==
  {Len(chain)} \cup
  {n \in Len(chain) + 1 .. LocalTop(d) :
     \A m \in Len(chain) + 1 .. n :
       \E h \in shelf[d].kept :
         /\ RevOf(h) = m
         /\ Accepts(IF m = Len(chain) + 1 THEN ServerHead ELSE AtRev(shelf[d].kept, m - 1), h)}

\* the advisory list follows the keyring on a grant and goes ahead of it on a removal
Asserted(d, ok) ==
  LET o == call[d].op
      listed == acl' \in {acl, shelf[d].head}
  IN  CASE o = "tick" -> UNCHANGED acl
        [] o \in {"remove", "demote"} -> listed
        [] OTHER -> IF ok THEN listed ELSE UNCHANGED acl

\* the bug of treating publication as best effort
PublishBestEffort(d) ==
  /\ call[d].at = "publish"
  /\ \E n \in Publishable(d) :
       /\ chain' = chain \o [i \in 1 .. n - Len(chain) |-> AtRev(shelf[d].kept, Len(chain) + i)]
       /\ Asserted(d, n >= LocalTop(d))
       /\ call' = [call EXCEPT ![d] =
            IF call[d].op \in {"tick", "remove"} THEN [@ EXCEPT !.at = "data"] ELSE Resting]
  /\ UNCHANGED <<bodies, entries, sent, base, shelf, disk, core, crashes>>

\* publishMembership: a failure ends the call, and with it the tick
PublishKeyring(d) ==
  /\ call[d].at = "publish"
  /\ \E n \in Publishable(d) :
       /\ chain' = chain \o [i \in 1 .. n - Len(chain) |-> AtRev(shelf[d].kept, Len(chain) + i)]
       /\ Asserted(d, n >= LocalTop(d))
       /\ call' = [call EXCEPT ![d] =
            IF n >= LocalTop(d) /\ call[d].op \in {"tick", "remove"} THEN [@ EXCEPT !.at = "data"]
            ELSE Resting]
  /\ UNCHANGED <<bodies, entries, sent, base, shelf, disk, core, crashes>>

Hops(n) == [i \in 1 .. Len(chain) - n |-> [doc |-> chain[n + i], sigs |-> {Founding}]]
Chains(h) == Walks(Anchor(bodies[h], h), Hops(RevOf(h)), bodies)

\* the first thing a tick does on a shared tree; a fork or a refusal ends it
SyncKeyring(d) ==
  /\ core[d].open /\ call[d] = Resting
  /\ call' = [call EXCEPT ![d] = [Resting EXCEPT !.at = "publish", !.op = "tick"]]
  /\ IF ~Shared(core[d]) THEN UNCHANGED <<shelf, core>>
     ELSE /\ ListedAs(d, Viewer)
          /\ IF Len(chain) <= LocalTop(d) THEN UNCHANGED <<shelf, core>>
             ELSE LET kept == shelf[d].kept \cup {chain[n] : n \in LocalTop(d) + 1 .. Len(chain)}
                  IN  /\ Chains(TopOf(shelf[d].kept))
                      /\ shelf' = [shelf EXCEPT ![d] = OnShelf(Last(chain), kept)]
                      /\ core' = [core EXCEPT ![d] = Refreshed(d, @, Last(chain), kept)]
  /\ UNCHANGED <<bodies, serverSide, entries, disk, crashes>>

\* a crash between the retained revisions and the head record
TornSync(d) ==
  /\ crashes < MaxCrashes
  /\ Shared(core[d]) /\ call[d] = Resting /\ ListedAs(d, Viewer)
  /\ Len(chain) > LocalTop(d) /\ Chains(TopOf(shelf[d].kept))
  /\ \E top \in LocalTop(d) + 1 .. Len(chain) :
       shelf' = [shelf EXCEPT ![d].kept = @ \cup {chain[n] : n \in LocalTop(d) + 1 .. top}]
  /\ core' = [core EXCEPT ![d] = NoCore]
  /\ crashes' = crashes + 1
  /\ UNCHANGED <<bodies, serverSide, entries, disk, call>>

\* a tick's data step, or a removal's; the tick then flushes the pending summary
SyncData(d) ==
  /\ call[d].at = "data"
  /\ \E k \in {0, 1} :
       \/ DataFails(d, k) /\ UNCHANGED acl
       \/ /\ DataLands(d, k)
          /\ acl' \in {acl} \cup {h \in {shelf[d].head} : d \in Owners /\ RevOf(h) > RevOf(acl)}
  /\ call' = [call EXCEPT ![d] = Resting]
  /\ UNCHANGED <<bodies, chain, entries, shelf, crashes>>

\* joinAsMember and restoreTree: the whole history from its genesis, then the session
Arrive(d) ==
  /\ shelf[d].head = 0 /\ chain # <<>>
  /\ ListedAs(d, Viewer)
  /\ GenesisOk(bodies[chain[1]], {Founding}) /\ Chains(chain[1])
  /\ Reached(Last(chain), Holder(d)) # {}
  /\ shelf' = [shelf EXCEPT ![d] = OnShelf(Last(chain), Range(chain))]
  /\ core' = [core EXCEPT ![d] = Opened(d, Last(chain), Range(chain), disk[d])]
  /\ UNCHANGED <<bodies, serverSide, entries, disk, call, crashes>>

Crash(d) ==
  /\ core[d].open /\ crashes < MaxCrashes
  /\ core' = [core EXCEPT ![d] = NoCore]
  /\ call' = [call EXCEPT ![d] = Resting]
  /\ crashes' = crashes + 1
  /\ UNCHANGED <<bodies, serverSide, entries, shelf, disk>>

\* openStoredTree: refused to a member the head no longer lists, and to one whose mirrored
\* snapshot is under an epoch the head does not reach
OpenStored(d) ==
  /\ ~core[d].open /\ shelf[d].head # 0
  /\ Holder(d) \in Members(bodies[shelf[d].head])
  /\ ~Unreadable(Unlocked(d, shelf[d].head, disk[d]))
  /\ core' = [core EXCEPT ![d] = Opened(d, shelf[d].head, shelf[d].kept, disk[d])]
  /\ UNCHANGED <<bodies, serverSide, entries, shelf, disk, call, crashes>>

Editing(d) == CommitEdit(d) \/ DecidePending(d)
Administering(d) == Begin(d) \/ Pin(d) \/ Author(d) \/ Swap(d) \/ SealBase(d) \/ PublishKeyring(d)
Syncing(d) == SyncKeyring(d) \/ TornSync(d) \/ SyncData(d)
Coming(d) == Arrive(d) \/ Crash(d) \/ OpenStored(d)
TreeNext == \E d \in Devices : Editing(d) \/ Administering(d) \/ Syncing(d) \/ Coming(d)
TreeSpec == TreeInit /\ [][TreeNext]_treeVars

-----------------------------------------------------------------------------
(***************************************************************************)
(* Properties.                                                             *)
(***************************************************************************)
AncestorsIn(D) ==
  LET f[g \in DOMAIN D] == {g} \cup (IF D[g].prev = 0 THEN {} ELSE f[D[g].prev])
  IN  f
Ancestors(h) == AncestorsIn(bodies)[h]

\* vault.rs:872-874: a removed member cannot read anything sealed after the removal.  What a
\* session seals once its gate runs on a keyring without p is under an epoch no earlier
\* keyring opened to p.
RemovedReadsNothingNew ==
  \A x \in (Range(entries) \cup {base}) \ {NoSnap} :
    (x.top # 0 /\ x.by \in Members(bodies[x.top])) =>
      \A p \in Guests \ Members(bodies[x.top]) :
        \A g \in Ancestors(x.top) : x.key \notin Reached(g, p)

\* appCore.worker.js:511-514: a tick reaches the data channel only with its keyring published,
\* on a device whose two keyring writes never came apart.
Whole(d) == \A n \in 1..RevOf(shelf[d].head) : \E h \in shelf[d].kept : RevOf(h) = n
KeyringBeforeData ==
  \A d \in Devices :
    (call[d].at = "data" /\ Shared(core[d]) /\ Whole(d)) => core[d].top \in Range(chain)

\* Whatever an honest session uploads, every device that retains the published revision it is
\* stamped with finds valid under it: author, role and epoch.
SentEntriesVerify ==
  \A i \in sent :
    LET e == entries[i] IN
    (e.ref # 0 /\ e.ref <= Len(chain)) =>
      MayAct(chain[e.ref], e.by, Maintainer) /\ e.key = Newest(chain[e.ref])
=============================================================================
