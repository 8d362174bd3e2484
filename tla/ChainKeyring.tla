---------------------------- MODULE ChainKeyring ----------------------------
(***************************************************************************)
(* The linear keyring document and the rules that decide which document    *)
(* may follow which: packages/keyeo-chain (lib.rs, signing.rs), the        *)
(* binding openom-keyring-chain (chain.rs, doc.rs, verifier.rs) and the    *)
(* builders of openom-vault/src/vault.rs that write the next revision.     *)
(*                                                                         *)
(* Everything here is a pure operator; KeyringChain and SharedTree run     *)
(* them on replicas, a store and a server.                                 *)
(*                                                                         *)
(* A keyring body is interned: docs is the sequence of bodies ever written *)
(* and a body's hash is its index (the code hashes the signed bytes with   *)
(* SHA-256, so equal hashes are equal bodies).  A signed keyring is        *)
(* [doc |-> hash, sigs |-> the keys that signed it].  Keys are values;     *)
(* a key signs, and a device that knows a body's recipients reaches its    *)
(* epoch keys.  An epoch is the set of ids its wraps address, in order of  *)
(* its ordinal; the founder is reached through the recovery root key.      *)
(***************************************************************************)
EXTENDS Naturals, FiniteSets, Sequences, SequencesExt

CONSTANTS NoKey,    \* no recovery authority is pinned
          Rvk       \* the recovery authority provision pins: the owner's recovery root key

Owner == 1
CoOwner == 2
IsFounder(s) == s.role = Owner
IsSigner(s) == s.role \in {Owner, CoOwner}

\* members deduped by id, one founder, no two signers with one key, a wrap of the newest
\* epoch for every member: what every entry point checks before any signature
Members(d) == {m.id : m \in d.roster}
SignersOf(d) == {m \in d.roster : IsSigner(m)}
FounderOf(d) == CHOOSE m \in d.roster : IsFounder(m)
WrapComplete(d) == Members(d) \subseteq d.epochs[Len(d.epochs)]
Structured(d) ==
  /\ Cardinality({m \in d.roster : IsFounder(m)}) = 1
  /\ \A m, n \in d.roster : m.id = n.id => m = n
  /\ \A m, n \in SignersOf(d) : m.key = n.key => m = n
  /\ d.epochs # <<>> /\ WrapComplete(d)

\* what a verifier keeps of a document it trusts (KeyringAnchor::from_keyring)
Anchor(d, h) ==
  [rev |-> d.rev, hash |-> h, signers |-> SignersOf(d), gov |-> d.gov, rvk |-> d.rvk,
   shared |-> d.shared]

Keys(ss) == {s.key : s \in ss}
Founders(ss) == {s \in ss : IsFounder(s)}
FounderSigned(a, sigs) == Keys(Founders(a.signers)) \cap sigs # {}
Threshold(keys, m, sigs) == Cardinality(keys \cap sigs) >= m

\* The PRIOR rule decides, over the prior set; a signer the document removes or changes is
\* not asked for consent.
Standing(a, next) == Keys(a.signers) \ (Keys(Founders(a.signers)) \cup Keys(a.signers \ next))

\* the bug of judging a document by the rule it brings along
GovernanceMetByCandidate(a, next, cand, sigs) ==
  LET b == [a EXCEPT !.gov = cand.gov]
  IN  CASE b.gov.kind = 1 -> FounderSigned(b, sigs)
        [] b.gov.kind = 2 -> \/ FounderSigned(b, sigs)
                             \/ Threshold(Standing(b, next), b.gov.threshold, sigs)
        [] b.gov.kind = 3 -> Threshold(Keys(b.signers), b.gov.threshold, sigs)
        [] OTHER -> FounderSigned(b, sigs) \/ Keys(b.signers) \subseteq sigs

GovernanceMet(a, next, cand, sigs) ==
  CASE a.gov.kind = 1 -> FounderSigned(a, sigs)
    [] a.gov.kind = 2 -> \/ FounderSigned(a, sigs)
                         \/ Threshold(Standing(a, next), a.gov.threshold, sigs)
    [] a.gov.kind = 3 -> Threshold(Keys(a.signers), a.gov.threshold, sigs)
    [] OTHER -> FounderSigned(a, sigs) \/ Keys(a.signers) \subseteq sigs

\* exactly one co-owner leaves, by their own signature, and nothing else changes
SelfRemoval(a, next, sigs) ==
  /\ next \subseteq a.signers
  /\ Cardinality(a.signers \ next) = 1
  /\ \A s \in a.signers \ next : ~IsFounder(s) /\ s.key \in sigs

Satisfiable(g, n) == g.kind \in 0..2 \/ (g.kind = 3 /\ g.threshold > 0 /\ n >= g.threshold)

\* a tree once shared never becomes unshared
StaysShared(a, c) == c.shared <= c.rev /\ (a.shared # 0 => c.shared = a.shared)

Privileged(a, c) ==
  \/ SignersOf(c) # a.signers
  \/ c.gov # a.gov
  \/ (a.rvk = NoKey /\ c.rvk # NoKey)

Endorsed(a, c, sigs) ==
  /\ IF Privileged(a, c)
     THEN /\ \/ SelfRemoval(a, SignersOf(c), sigs)
             \/ GovernanceMet(a, SignersOf(c), c, sigs)
          /\ Satisfiable(c.gov, Cardinality(SignersOf(c)))
     ELSE Keys(a.signers) \cap sigs # {}
  /\ (a.rvk # NoKey /\ c.rvk # a.rvk) => a.rvk \in sigs

\* verify_transition: the verdict is the first check that fails
Verdict(a, c, sigs) ==
  IF ~StaysShared(a, c) THEN "unshared"
  ELSE IF ~Structured(c) THEN "structure"
  ELSE IF c.rev # a.rev + 1 THEN "sequence"
  ELSE IF c.prev # a.hash THEN "fork"
  ELSE IF Endorsed(a, c, sigs) THEN "ok"
  ELSE "unendorsed"

\* verify_walk: hop by hop, each judged from the document below it
Walks(a, hops, docs) ==
  \A i \in DOMAIN hops :
    LET below == IF i = 1 THEN a ELSE Anchor(docs[hops[i - 1].doc], hops[i - 1].doc)
    IN  Verdict(below, docs[hops[i].doc], hops[i].sigs) = "ok"

\* verify_reset: self-signed; under the prior recovery authority when one was pinned
ResetOk(rvk, d, sigs) ==
  /\ Structured(d)
  /\ Keys(SignersOf(d)) \cap sigs # {}
  /\ rvk # NoKey => (d.rvk = rvk /\ rvk \in sigs)

\* bootstrap_from_genesis: revision 1, nothing before it, signed by its own founder
GenesisOk(d, sigs) ==
  /\ Structured(d)
  /\ d.rev = 1 /\ d.prev = 0
  /\ FounderOf(d).key \in sigs

\* ChainVerifier::admit, what the server runs on every PUT
Admit(a, c, sigs) ==
  \/ Verdict(a, c, sigs) = "ok"
  \/ c.rev = a.rev + 1 /\ c.prev = a.hash /\ ResetOk(a.rvk, c, sigs)

-----------------------------------------------------------------------------
(***************************************************************************)
(* The builders of vault.rs: the next body on top of the one with hash h.  *)
(* Each mutates a decoded copy, bumps the revision, sets prev, clears the  *)
(* signatures; the author then signs (one signature).                      *)
(***************************************************************************)
Provisioned(f) ==
  [rev |-> 1, prev |-> 0, roster |-> {[id |-> f, role |-> Owner, key |-> f]},
   gov |-> [kind |-> 0, threshold |-> 0], rvk |-> Rvk, shared |-> 0, epochs |-> <<{f}>>]

NextOn(d, h, rev) == [d EXCEPT !.rev = rev, !.prev = h]

\* do_add_member: every epoch the author reaches is wrapped for the joiner
WithMember(d, h, rev, reach, p, role) ==
  [NextOn(d, h, rev) EXCEPT
     !.roster = d.roster \cup {[id |-> p, role |-> role, key |-> p]},
     !.shared = IF d.shared = 0 THEN rev ELSE d.shared,
     !.epochs = [i \in DOMAIN d.epochs |->
                   IF i \in reach THEN d.epochs[i] \cup {p} ELSE d.epochs[i]]]

\* the bug of dropping the removed member's wraps but keeping the epoch
WithoutMemberUnrotated(d, h, rev, p) ==
  [NextOn(d, h, rev) EXCEPT
     !.roster = {m \in d.roster : m.id # p},
     !.epochs = [i \in DOMAIN d.epochs |-> d.epochs[i] \ {p}]]

\* do_remove_member: a new epoch for those who stay, and every wrap to the removed dropped
WithoutMember(d, h, rev, p) ==
  LET stay == {m \in d.roster : m.id # p}
  IN  [NextOn(d, h, rev) EXCEPT
         !.roster = stay,
         !.epochs = Append([i \in DOMAIN d.epochs |-> d.epochs[i] \ {p}], {m.id : m \in stay})]

\* add_co_owner and remove_co_owner: only the role changes
WithRole(d, h, rev, p, role) ==
  [NextOn(d, h, rev) EXCEPT
     !.roster = {IF m.id = p THEN [m EXCEPT !.role = role] ELSE m : m \in d.roster}]

\* epoch_deks and member_epoch_deks: the epochs a participant opens
Reach(d, p) == {i \in DOMAIN d.epochs : p \in d.epochs[i]}
WriteEpoch(d, p) == CHOOSE i \in Reach(d, p) : \A j \in Reach(d, p) : j <= i
=============================================================================
