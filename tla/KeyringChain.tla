---------------------------- MODULE KeyringChain ----------------------------
(***************************************************************************)
(* The linear keyring on a blob store (openom-keyring-chain/blob_sync.rs): *)
(* a compare-and-set head, an append-only history keyring/rev/{n} and      *)
(* drafts that co-owners countersign.  One replica per signer; every store *)
(* call is a step, so calls of two replicas interleave between any two.    *)
(*                                                                         *)
(* The store may be stale: a get of the head may return any head it ever   *)
(* held (served).  The etag of a blob is the hash of its bytes             *)
(* (store-blob), so an etag is the bytes themselves.                       *)
(*                                                                         *)
(* Bounds: MaxRev revisions, MaxDocs bodies ever written.                  *)
(***************************************************************************)
EXTENDS ChainKeyring

CONSTANTS Founder, CoOwners, Newcomer,   \* Newcomer: one more member to add
          NewKey,                        \* the founder's key after a recovery reset
          Rules,                         \* the governance rules in use
          Drafts,                        \* proposal ids
          MaxRev, MaxDocs,
          None

VARIABLES docs,       \* every body ever written; a hash is an index
          head,       \* keyring/head: a signed keyring, or None
          served,     \* the heads the store held so far (auxiliary: what a stale get returns)
          rev,        \* keyring/rev/{n}
          drafts,     \* keyring/drafts/{id}
          anchor,     \* per replica: the trusted anchor, or None
          etag,       \* per replica: head_etag
          pc,         \* per replica: the call under way, [op, b, id]
          approved    \* <<signer, body>> pairs the signer authored or reviewed (auxiliary)
vars == <<docs, head, served, rev, drafts, anchor, etag, pc, approved>>

Replicas == {Founder} \cup CoOwners
Idle == [op |-> "idle", b |-> None, id |-> None]
Call(op, b, id) == [op |-> op, b |-> b, id |-> id]
Signed(h, sigs) == [doc |-> h, sigs |-> sigs]

Person == Replicas \cup {Newcomer}
Key == Person \cup {NewKey, Rvk}
Member == [id : Person, role : 1..3, key : Key]
Keyring == [doc : Nat, sigs : SUBSET Key]
Trust == [rev : Nat, hash : Nat, signers : SUBSET Member, gov : Rules, rvk : {Rvk}, shared : Nat]

ASSUME ChainAssumption ==
  /\ MaxRev \in Nat /\ MaxDocs \in Nat \ {0}
  /\ IsFiniteSet(CoOwners) /\ Founder \notin CoOwners
  /\ NewKey \notin Replicas
  /\ Rules \subseteq [kind : Nat, threshold : Nat]
  /\ None \notin Nat \cup Keyring \cup Trust

\* a tree with co-owners under rule g, as its founder signed it
Genesis(g) ==
  [rev |-> 1, prev |-> 0, gov |-> g, rvk |-> Rvk, shared |-> 1, epochs |-> <<Replicas>>,
   roster |-> {[id |-> Founder, role |-> Owner, key |-> Founder]}
              \cup {[id |-> c, role |-> CoOwner, key |-> c] : c \in CoOwners}]

ChainInit ==
  /\ \E g \in Rules : docs = <<Genesis(g)>>
  /\ head = None /\ served = {}
  /\ rev = [n \in 1..MaxRev |-> None]
  /\ drafts = [i \in Drafts |-> None]
  /\ anchor = [r \in Replicas |-> None]
  /\ etag = [r \in Replicas |-> None]
  /\ pc = [r \in Replicas |-> IF r = Founder THEN Call("history", Signed(1, {Founder}), None)
                              ELSE Idle]
  /\ approved = {<<Founder, 1>>}

-----------------------------------------------------------------------------
(***************************************************************************)
(* What a replica writes next on the body it trusts.                       *)
(***************************************************************************)
Trusted(r) == docs[anchor[r].hash]
RoleOf(r) == {m.role : m \in {n \in Trusted(r).roster : n.id = r}}
KeyOf(r) == CHOOSE k \in {m.key : m \in {n \in Trusted(r).roster : n.id = r}} : TRUE
Plain(d) == {m.id : m \in d.roster \ SignersOf(d)}

\* the vault's flows: the owner changes anything, a co-owner adds and removes plain members
Written(r) ==
  LET d == Trusted(r)
      h == anchor[r].hash
      n == anchor[r].rev + 1
      own == Owner \in RoleOf(r)
  IN  {WithMember(d, h, n, DOMAIN d.epochs, p, 3) : p \in {Newcomer} \ Members(d)}
      \cup {WithoutMember(d, h, n, p) :
              p \in IF own THEN Members(d) \ {r} ELSE Plain(d)}
      \cup {WithRole(d, h, n, p, CoOwner) : p \in IF own THEN Plain(d) ELSE {}}

\* what is drafted for others to sign: a change of rule, of a role, or one's own departure
Drafted(r) ==
  LET d == Trusted(r)
      h == anchor[r].hash
      n == anchor[r].rev + 1
  IN  {[NextOn(d, h, n) EXCEPT !.gov = g] : g \in Rules \ {d.gov}}
      \cup {WithRole(d, h, n, p, CoOwner) : p \in Plain(d)}
      \cup {WithoutMember(d, h, n, p) : p \in Members(d) \ {Founder}}

\* a recovery reset: the owner comes back under a new key
Refounded(r) ==
  [NextOn(Trusted(r), anchor[r].hash, anchor[r].rev + 1) EXCEPT
     !.roster = {IF IsFounder(m) THEN [m EXCEPT !.key = NewKey] ELSE m : m \in Trusted(r).roster}]

Writes(r, d) ==
  /\ d.rev <= MaxRev
  /\ IF d \in Range(docs) THEN docs' = docs ELSE Len(docs) < MaxDocs /\ docs' = Append(docs, d)
HashOf(d) == CHOOSE h \in DOMAIN docs' : docs'[h] = d

Idles(r) == pc[r].op = "idle" /\ anchor[r] # None

Publish(r) ==
  /\ Idles(r) /\ RoleOf(r) \cap {Owner, CoOwner} # {}
  /\ \E d \in Written(r) :
       /\ Writes(r, d)
       /\ pc' = [pc EXCEPT ![r] = Call("history", Signed(HashOf(d), {KeyOf(r)}), None)]
       /\ approved' = approved \cup {<<r, HashOf(d)>>}
  /\ UNCHANGED <<head, served, rev, drafts, anchor, etag>>

PublishReset(r) ==
  /\ Idles(r) /\ Owner \in RoleOf(r)
  /\ Writes(r, Refounded(r))
  /\ pc' = [pc EXCEPT ![r] = Call("history", Signed(HashOf(Refounded(r)), {NewKey, Rvk}), None)]
  /\ approved' = approved \cup {<<r, HashOf(Refounded(r))>>}
  /\ UNCHANGED <<head, served, rev, drafts, anchor, etag>>

\* rev/{n} is written first, and an existing one is taken for the same
PutHistory(r) ==
  /\ pc[r].op = "history"
  /\ LET n == docs[pc[r].b.doc].rev
     IN  rev' = IF rev[n] = None THEN [rev EXCEPT ![n] = pc[r].b] ELSE rev
  /\ pc' = [pc EXCEPT ![r].op = "head"]
  /\ UNCHANGED <<docs, head, served, drafts, anchor, etag, approved>>

\* the compare-and-set that sequences everyone: create-only, or onto the etag last seen
CasWins(r) == head = etag[r]
Advance(r) ==
  /\ head' = pc[r].b
  /\ served' = served \cup {pc[r].b}
  /\ etag' = [etag EXCEPT ![r] = pc[r].b]
  /\ anchor' = [anchor EXCEPT ![r] = Anchor(docs[pc[r].b.doc], pc[r].b.doc)]

\* the bug of trusting one's own production before the store took it
PutHeadAdoptsFirst(r) ==
  /\ pc[r].op = "head"
  /\ IF CasWins(r) THEN Advance(r)
     ELSE /\ anchor' = [anchor EXCEPT ![r] = Anchor(docs[pc[r].b.doc], pc[r].b.doc)]
          /\ UNCHANGED <<head, served, etag>>
  /\ pc' = [pc EXCEPT ![r] = Idle]
  /\ UNCHANGED <<docs, rev, drafts, approved>>

PutHead(r) ==
  /\ pc[r].op = "head"
  /\ IF CasWins(r) THEN Advance(r) ELSE UNCHANGED <<head, served, etag, anchor>>
  /\ pc' = [pc EXCEPT ![r] = Idle]
  /\ UNCHANGED <<docs, rev, drafts, approved>>

-----------------------------------------------------------------------------
(***************************************************************************)
(* Reading the head: first sight, no change, rollback, or a walk.          *)
(***************************************************************************)
Adopt(r, b, a) == anchor' = [anchor EXCEPT ![r] = a] /\ etag' = [etag EXCEPT ![r] = b]

Bootstrap(r, b) ==
  /\ anchor[r] = None
  /\ ResetOk(NoKey, docs[b.doc], b.sigs)
  /\ Adopt(r, b, Anchor(docs[b.doc], b.doc))
  /\ UNCHANGED pc

SameRevision(r, b) ==
  /\ anchor[r] # None
  /\ b.doc = anchor[r].hash
  /\ etag' = [etag EXCEPT ![r] = b]
  /\ UNCHANGED <<anchor, pc>>

Ahead(r, b) ==
  /\ anchor[r] # None
  /\ docs[b.doc].rev > anchor[r].rev
  /\ pc' = [pc EXCEPT ![r] = Call("walk", b, None)]
  /\ UNCHANGED <<anchor, etag>>

Pull(r) ==
  /\ pc[r].op = "idle"
  /\ \E b \in served : Bootstrap(r, b) \/ SameRevision(r, b) \/ Ahead(r, b)
  /\ UNCHANGED <<docs, head, served, rev, drafts, approved>>

\* the skipped revisions come from the history, the head last; any refusal leaves the anchor
WalkUp(r) ==
  /\ pc[r].op = "walk"
  /\ LET top == docs[pc[r].b.doc].rev
         below == anchor[r].rev + 1 .. top - 1
         hops == [i \in 1..(top - anchor[r].rev) |->
                    IF i = top - anchor[r].rev THEN pc[r].b ELSE rev[anchor[r].rev + i]]
     IN  IF (\A n \in below : rev[n] # None) /\ Walks(anchor[r], hops, docs)
         THEN Adopt(r, pc[r].b, Anchor(docs[pc[r].b.doc], pc[r].b.doc))
         ELSE UNCHANGED <<anchor, etag>>
  /\ pc' = [pc EXCEPT ![r] = Idle]
  /\ UNCHANGED <<docs, head, served, rev, drafts, approved>>

\* after the user confirmed it out of band
AcceptReset(r) ==
  /\ Idles(r)
  /\ \E b \in served :
       /\ docs[b.doc].rev >= anchor[r].rev
       /\ ResetOk(anchor[r].rvk, docs[b.doc], b.sigs)
       /\ Adopt(r, b, Anchor(docs[b.doc], b.doc))
  /\ UNCHANGED <<docs, head, served, rev, drafts, pc, approved>>

-----------------------------------------------------------------------------
(***************************************************************************)
(* Drafts: propose, review, countersign (a compare-and-set loop), promote. *)
(***************************************************************************)
Propose(r, id) ==
  /\ Idles(r) /\ RoleOf(r) \cap {Owner, CoOwner} # {}
  /\ drafts[id] = None
  /\ \E d \in Drafted(r) :
       /\ Writes(r, d)
       /\ drafts' = [drafts EXCEPT ![id] = Signed(HashOf(d), {KeyOf(r)})]
       /\ approved' = approved \cup {<<r, HashOf(d)>>}
  /\ UNCHANGED <<head, served, rev, anchor, etag, pc>>

\* the co-owner reads the draft in the UI and approves exactly this body
Review(r, id) ==
  /\ Idles(r) /\ drafts[id] # None /\ r \in Members(Trusted(r))
  /\ pc' = [pc EXCEPT ![r] = Call("sign", drafts[id], id)]
  /\ approved' = approved \cup {<<r, drafts[id].doc>>}
  /\ UNCHANGED <<docs, head, served, rev, drafts, anchor, etag>>

\* the bug of signing whatever is stored under the reviewed id
CountersignStored(r) ==
  /\ pc[r].op = "sign"
  /\ LET cur == drafts[pc[r].id]
     IN  IF cur # None
         THEN pc' = [pc EXCEPT ![r] = Call("append", cur, @.id)]
         ELSE pc' = [pc EXCEPT ![r] = Idle]
  /\ UNCHANGED <<docs, head, served, rev, drafts, anchor, etag, approved>>

\* refetch; refuse another body under the same id, keep the signatures gathered meanwhile
Countersign(r) ==
  /\ pc[r].op = "sign"
  /\ LET cur == drafts[pc[r].id]
     IN  IF cur # None /\ cur.doc = pc[r].b.doc
         THEN pc' = [pc EXCEPT ![r] = Call("append", cur, @.id)]
         ELSE pc' = [pc EXCEPT ![r] = Idle]
  /\ UNCHANGED <<docs, head, served, rev, drafts, anchor, etag, approved>>

AppendSignature(r) ==
  /\ pc[r].op = "append"
  /\ IF drafts[pc[r].id] = pc[r].b
     THEN /\ drafts' = [drafts EXCEPT ![pc[r].id].sigs = @ \cup {KeyOf(r)}]
          /\ pc' = [pc EXCEPT ![r] = Idle]
     ELSE pc' = [pc EXCEPT ![r].op = "sign"] /\ UNCHANGED drafts
  /\ UNCHANGED <<docs, head, served, rev, anchor, etag, approved>>

Promote(r, id) ==
  /\ Idles(r) /\ drafts[id] # None
  /\ Verdict(anchor[r], docs[drafts[id].doc], drafts[id].sigs) = "ok"
  /\ pc' = [pc EXCEPT ![r] = Call("promote", drafts[id], id)]
  /\ UNCHANGED <<docs, head, served, rev, drafts, anchor, etag, approved>>

PromoteHead(r) ==
  /\ pc[r].op = "promote"
  /\ IF CasWins(r)
     THEN Advance(r) /\ pc' = [pc EXCEPT ![r].op = "record"]
     ELSE pc' = [pc EXCEPT ![r] = Idle] /\ UNCHANGED <<head, served, etag, anchor>>
  /\ UNCHANGED <<docs, rev, drafts, approved>>

\* best effort: the history entry, then the draft
PromoteRecord(r) ==
  /\ pc[r].op = "record"
  /\ LET n == docs[pc[r].b.doc].rev
     IN  rev' = IF rev[n] = None THEN [rev EXCEPT ![n] = pc[r].b] ELSE rev
  /\ pc' = [pc EXCEPT ![r].op = "tidy"]
  /\ UNCHANGED <<docs, head, served, drafts, anchor, etag, approved>>

PromoteTidy(r) ==
  /\ pc[r].op = "tidy"
  /\ drafts' = [drafts EXCEPT ![pc[r].id] = None]
  /\ pc' = [pc EXCEPT ![r] = Idle]
  /\ UNCHANGED <<docs, head, served, rev, anchor, etag, approved>>

\* the replica is dropped and made anew: trust starts from first sight
Reopen(r) ==
  /\ anchor[r] # None
  /\ anchor' = [anchor EXCEPT ![r] = None]
  /\ etag' = [etag EXCEPT ![r] = None]
  /\ pc' = [pc EXCEPT ![r] = Idle]
  /\ UNCHANGED <<docs, head, served, rev, drafts, approved>>

Writing(r) == Publish(r) \/ PublishReset(r) \/ PutHistory(r) \/ PutHead(r)
Reading(r) == Pull(r) \/ WalkUp(r) \/ AcceptReset(r) \/ Reopen(r)
Drafting(r) ==
  \/ \E id \in Drafts : Propose(r, id) \/ Review(r, id) \/ Promote(r, id)
  \/ Countersign(r) \/ AppendSignature(r)
  \/ PromoteHead(r) \/ PromoteRecord(r) \/ PromoteTidy(r)

ChainNext == \E r \in Replicas : Writing(r) \/ Reading(r) \/ Drafting(r)
ChainSpec == ChainInit /\ [][ChainNext]_vars

-----------------------------------------------------------------------------
(***************************************************************************)
(* Properties.                                                             *)
(***************************************************************************)
\* The revisions up to the head, as the heads' links name them.
TrailOf(D, h) ==
  LET body[n \in 1..D[h].rev] == IF n = D[h].rev THEN h ELSE D[body[n + 1]].prev
  IN  body
Trail == IF head = None THEN <<>> ELSE TrailOf(docs, head.doc)

Register == INSTANCE TrustRegister WITH
              Reader <- Replicas, Bodies <- 1..MaxDocs, Nobody <- None,
              register <- Trail,
              trusts <- [r \in Replicas |-> IF anchor[r] = None THEN None ELSE anchor[r].hash]

\* However heads go stale, races are lost, drafts are promoted and owners reset, the replicas
\* share one register: what one adds, it adds on top of the last revision, and each moves up
\* the same chain, never back, never off it (publish and promote adopt only what the store
\* took, pull only what chains).
OneRegister == Register!RegisterSpec

\* Nobody signs a body they neither wrote nor reviewed, although a draft id can be freed by
\* a promotion and claimed again with other content between review and signature.
SignedIsReviewed ==
  \A id \in Drafts :
    drafts[id] # None =>
      \A r \in Replicas : r \in drafts[id].sigs => <<r, drafts[id].doc>> \in approved

\* The signer set and the rule change only by the consent of those in place: the founder,
\* the recovery authority, the leaver alone for themselves, or (under rule 2) a threshold
\* of co-owners that do not include the ones being changed, or (under rule 3) a threshold
\* of all signers.
Consented(old, new, sigs) ==
  LET changed == {s.key : s \in SignersOf(old) \ SignersOf(new)}
      staying == {s.key : s \in SignersOf(old) \cap SignersOf(new)} \ {FounderOf(old).key}
  IN  \/ SignersOf(old) = SignersOf(new) /\ old.gov = new.gov
      \/ {FounderOf(old).key, Rvk} \cap sigs # {}
      \/ /\ Cardinality(changed) = 1 /\ changed \subseteq sigs
         /\ SignersOf(new) \subseteq SignersOf(old)
      \/ old.gov.kind = 2 /\ Threshold(staying, old.gov.threshold, sigs)
      \/ old.gov.kind = 3 /\ Threshold(Keys(SignersOf(old)), old.gov.threshold, sigs)
HeadConsented ==
  (head # None /\ head' # head) => Consented(docs[head.doc], docs'[head'.doc], head'.sigs)
ConsentedMove == [][HeadConsented]_head

\* blob_sync.rs:4-6: the history lets a lagging replica walk up to the head.
HistoryLeadsToHead ==
  \A n \in 1..MaxRev :
    (head # None /\ n < docs[head.doc].rev /\ rev[n] # None) => rev[n].doc = Trail[n]
=============================================================================
