-------------------------- MODULE Keyrings_proofs --------------------------
(***************************************************************************)
(* The chain engine's properties, for any people, rules and bounds: as a   *)
(* store's client moves the keyring (KeyringChain), and as the devices of  *)
(* a shared tree live with it (SharedTree) while the owner has one device. *)
(*                                                                         *)
(* KeyringChain: the argument is about one chain, the Trail of bodies from *)
(* the head down its links.  A head is only put on top of the head before  *)
(* it, so the trail only grows; every head ever served, every anchor and   *)
(* every etag lies on it; and what a call is about to put stands on its    *)
(* caller's anchor and has the consent the anchor's signers had to give.   *)
(*                                                                         *)
(* SharedTree: one device authors, so the bodies are one line, whatever    *)
(* part of it is published or retained; along the line an epoch is minted  *)
(* where somebody is removed, and members leave only there.  What a        *)
(* session seals with is the newest epoch of the body its gate runs on, or *)
(* the session is no longer entitled.                                      *)
(***************************************************************************)
EXTENDS KeyringChain, SharedTree, Lemmas, SequenceTheorems

-----------------------------------------------------------------------------
(* The inductive invariant.                                                *)

Body == [rev : Nat, prev : Nat, gov : Rules, rvk : {Rvk}, shared : Nat,
         epochs : Seq(SUBSET Person), roster : SUBSET Member]

\* One founder, one entry per person, and nobody holds another's key.
BodyOK(d) ==
  /\ d \in Body /\ IsFiniteSet(d.roster)
  /\ \A m, n \in d.roster : m.id = n.id => m = n
  /\ \A m \in d.roster : (IsFounder(m) <=> m.id = Founder) /\ m.key \in {m.id, NewKey}
  /\ \E m \in d.roster : IsFounder(m)
DocsOK(D) ==
  /\ D \in Seq(Body) /\ Len(D) \in 1..MaxDocs
  /\ \A h \in 1..Len(D) : BodyOK(D[h])

\* T is the chain of revisions below the body with hash h.
Linked(D, h, T) ==
  /\ T \in Seq(1..Len(D)) /\ T # <<>> /\ T[Len(T)] = h
  /\ \A n \in 1..Len(T) : D[T[n]].rev = n
  /\ \A n \in 1..(Len(T) - 1) : T[n] = D[T[n + 1]].prev
HeadOK(D, T, h) ==
  IF h = None THEN T = <<>> ELSE h \in Keyring /\ h.doc \in 1..Len(D) /\ Linked(D, h.doc, T)
OnTrail(D, T, b) ==
  /\ b \in Keyring /\ b.doc \in 1..Len(D)
  /\ D[b.doc].rev \in 1..Len(T) /\ T[D[b.doc].rev] = b.doc

\* What a replica trusts is the trail's, and its etag names it.
TrustOK(D, T, a, e) ==
  IF a = None THEN e = None ELSE OnTrail(D, T, e) /\ a = Anchor(D[e.doc], e.doc)

\* The calls under way: what is to be put stands on the caller's anchor with the
\* consent that takes; what is to be walked to was served, and is ahead; what is to be
\* signed was reviewed, by a member.
CallType == [op : {"idle", "history", "head", "walk", "sign", "append", "promote", "record", "tidy"},
             b : Keyring \cup {None}, id : Drafts \cup {None}]
PutOK(D, a, b) ==
  IF a = None THEN D[b.doc].rev = 1
  ELSE /\ D[b.doc].rev = a.rev + 1 /\ D[b.doc].prev = a.hash
       /\ Consented(D[a.hash], D[b.doc], b.sigs)
ChainCallOK(D, srv, app, a, c, r) ==
  /\ c \in CallType
  /\ c.op # "idle" => c.b \in Keyring /\ c.b.doc \in 1..Len(D)
  /\ c.op \in {"sign", "append", "promote", "record", "tidy"} => c.id \in Drafts
  /\ c.op \in {"history", "head", "promote"} => PutOK(D, a, c.b)
  /\ c.op = "walk" => a # None /\ c.b \in srv /\ D[c.b.doc].rev > a.rev
  /\ c.op \in {"sign", "append"} =>
       a # None /\ r \in Members(D[a.hash]) /\ <<r, c.b.doc>> \in app

\* A draft bears the signatures of those who reviewed it.
DraftOK(D, app, b) ==
  b # None => /\ b \in Keyring /\ b.doc \in 1..Len(D)
              /\ \A r \in Replicas : r \in b.sigs => <<r, b.doc>> \in app

ChainInv ==
  /\ DocsOK(docs) /\ HeadOK(docs, Trail, head)
  /\ head = None => \A r \in Replicas : anchor[r] = None
  /\ \A b \in served : OnTrail(docs, Trail, b)
  /\ anchor = [r \in Replicas |-> anchor[r]] /\ etag = [r \in Replicas |-> etag[r]]
  /\ pc = [r \in Replicas |-> pc[r]] /\ drafts = [id \in Drafts |-> drafts[id]]
  /\ \A r \in Replicas : /\ TrustOK(docs, Trail, anchor[r], etag[r])
                         /\ ChainCallOK(docs, served, approved, anchor[r], pc[r], r)
  /\ \A id \in Drafts : DraftOK(docs, approved, drafts[id])

-----------------------------------------------------------------------------
(* The trail.                                                              *)

Extends(D, D2) == Len(D) <= Len(D2) /\ \A h \in 1..Len(D) : D2[h] = D[h]
Longer(T, T2) == Len(T) <= Len(T2) /\ \A n \in 1..Len(T) : T2[n] = T[n]

\* Links determine the chain below a head, so the trail is that chain.
LEMMA TrailIs ==
    ASSUME NEW D, NEW h, NEW T, Linked(D, h, T)
    PROVE  TrailOf(D, h) = T
<1> DEFINE top == D[h].rev
           Steps(f) == f = [n \in 1..top |-> IF n = top THEN h ELSE D[f[n + 1]].prev]
<1>1. /\ top = Len(T) /\ top \in Nat \ {0} /\ T = [n \in 1..top |-> T[n]]
      /\ T[top] = h
      /\ \A n \in 1..top : n # top => T[n] = D[T[n + 1]].prev
  <2>1. Len(T) \in Nat \ {0} /\ DOMAIN T = 1..Len(T) /\ T = [n \in 1..Len(T) |-> T[n]]
    BY DEF Linked
  <2>2. top = Len(T) /\ T[Len(T)] = h
    BY <2>1 DEF Linked
  <2>3. \A n \in 1..Len(T) : n # Len(T) => n \in 1..(Len(T) - 1)
    BY <2>1
  <2> QED BY <2>1, <2>2, <2>3 DEF Linked
<1> HIDE DEF top
<1>2. Steps(T)
  <2>1. \A n \in 1..top : T[n] = IF n = top THEN h ELSE D[T[n + 1]].prev
    BY <1>1
  <2> QED BY <1>1, <2>1
<1>3. ASSUME NEW f, Steps(f) PROVE f = T
  <2>1. /\ f = [n \in 1..top |-> f[n]]
        /\ \A n \in 1..top : f[n] = IF n = top THEN h ELSE D[f[n + 1]].prev
    BY <1>3
  <2>2. SUFFICES ASSUME NEW n0 \in 1..top, f[n0] # T[n0] PROVE FALSE
    BY <1>1, <2>1
  <2> DEFINE S == {k \in Nat : k < top /\ f[top - k] # T[top - k]}
  <2>3. top - n0 \in S
    BY <1>1, <2>2
  <2>4. PICK k \in S : \A j \in S : k <= j
    <3> HIDE DEF S
    <3>1. S \in SUBSET Nat
      BY DEF S
    <3> QED BY <2>3, <3>1, MinProperties
  <2>5. /\ k \in Nat /\ k < top /\ top - k \in 1..top /\ f[top - k] # T[top - k]
        /\ k - 1 \notin S
    <3>1. k \in Nat /\ k < top /\ f[top - k] # T[top - k]
      OBVIOUS
    <3>2. ~(k <= k - 1)
      BY <3>1
    <3>3. top - k \in 1..top
      BY <1>1, <3>1
    <3> QED BY <2>4, <3>1, <3>2, <3>3, Zenon
  <2>6. CASE k = 0
    <3>1. top - k = top /\ top \in 1..top
      BY <1>1, <2>6
    <3> QED BY <1>1, <2>1, <2>5, <3>1
  <2>7. CASE k # 0
    <3>1. /\ top - k # top /\ top - (k - 1) = (top - k) + 1
          /\ k - 1 \in Nat /\ k - 1 < top
      BY <1>1, <2>5, <2>7
    <3>2. f[(top - k) + 1] = T[(top - k) + 1]
      BY <2>5, <3>1
    <3>3. f[top - k] = D[f[(top - k) + 1]].prev /\ T[top - k] = D[T[(top - k) + 1]].prev
      BY <1>1, <2>1, <2>5, <3>1
    <3> QED BY <2>5, <3>2, <3>3
  <2> QED BY <2>6, <2>7
<1>4. TrailOf(D, h) = CHOOSE f : Steps(f)
  BY DEF TrailOf, top
<1> QED BY <1>2, <1>3, <1>4

\* Bodies are only added, so a chain of them stands; the next body makes it one longer.
LEMMA LinkedStays ==
    ASSUME NEW D, NEW D2, NEW h, NEW T, D \in Seq(Body), D2 \in Seq(Body), Extends(D, D2),
           Linked(D, h, T)
    PROVE  Linked(D2, h, T)
<1>1. Len(D) \in Nat /\ Len(D2) \in Nat /\ Len(D) <= Len(D2) /\ T \in Seq(1..Len(D))
  BY DEF Extends, Linked
<1>2. T \in Seq(1..Len(D2))
  <2>1. 1..Len(D) \subseteq 1..Len(D2)
    BY <1>1
  <2> QED BY <1>1, <2>1
<1>3. \A n \in 1..Len(T) : T[n] \in 1..Len(D) /\ D2[T[n]] = D[T[n]]
  BY <1>1 DEF Extends
<1>4. \A n \in 1..(Len(T) - 1) : n \in 1..Len(T) /\ n + 1 \in 1..Len(T)
  BY <1>1
<1> QED BY <1>2, <1>3, <1>4 DEF Linked

LEMMA LinkedGrows ==
    ASSUME NEW D \in Seq(Body), NEW h, NEW T, Linked(D, h, T), NEW b \in 1..Len(D),
           D[b].rev = D[h].rev + 1, D[b].prev = h
    PROVE  Linked(D, b, Append(T, b)) /\ Longer(T, Append(T, b))
<1>1. T \in Seq(1..Len(D)) /\ Len(T) \in Nat \ {0} /\ T[Len(T)] = h /\ D[h].rev = Len(T)
  BY DEF Linked
<1> DEFINE U == Append(T, b)
<1>2. /\ U \in Seq(1..Len(D)) /\ Len(U) = Len(T) + 1 /\ U[Len(T) + 1] = b
      /\ \A n \in 1..Len(T) : U[n] = T[n]
  BY <1>1
<1> HIDE DEF U
<1>3. \A n \in 1..Len(U) : n = Len(T) + 1 \/ n \in 1..Len(T)
  BY <1>1, <1>2
<1>4. \A n \in 1..Len(U) : D[U[n]].rev = n
  BY <1>1, <1>2, <1>3 DEF Linked
<1>5. ASSUME NEW n \in 1..(Len(U) - 1) PROVE U[n] = D[U[n + 1]].prev
  <2>1. n \in 1..Len(T) /\ U[n] = T[n]
    BY <1>1, <1>2
  <2>2. CASE n = Len(T)
    BY <1>1, <1>2, <2>1, <2>2
  <2>3. CASE n # Len(T)
    <3>1. n \in 1..(Len(T) - 1) /\ n + 1 \in 1..Len(T)
      BY <1>1, <2>1, <2>3
    <3> QED BY <1>2, <2>1, <3>1 DEF Linked
  <2> QED BY <2>2, <2>3
<1>6. U # <<>> /\ U[Len(U)] = b
  BY <1>1, <1>2
<1>7. Linked(D, b, U)
  BY <1>2, <1>4, <1>5, <1>6 DEF Linked
<1>8. Longer(T, U)
  BY <1>1, <1>2 DEF Longer
<1> QED BY <1>7, <1>8 DEF U

LEMMA LinkedOne ==
    ASSUME NEW D, NEW b \in 1..Len(D), D[b].rev = 1
    PROVE  Linked(D, b, <<b>>)
<1>1. <<b>> \in Seq(1..Len(D)) /\ Len(<<b>>) = 1 /\ <<b>>[1] = b
  OBVIOUS
<1> QED BY <1>1 DEF Linked

LEMMA OnTrailStays ==
    ASSUME NEW D \in Seq(Body), NEW D2 \in Seq(Body), NEW T, NEW T2, Len(T) \in Nat, Len(T2) \in Nat,
           Extends(D, D2), Longer(T, T2), NEW b, OnTrail(D, T, b)
    PROVE  OnTrail(D2, T2, b)
<1>1. Len(D) \in Nat /\ Len(D2) \in Nat
  OBVIOUS
<1>2. b.doc \in 1..Len(D2) /\ D2[b.doc] = D[b.doc]
  BY <1>1 DEF Extends, OnTrail
<1>3. D[b.doc].rev \in 1..Len(T2) /\ T2[D[b.doc].rev] = T[D[b.doc].rev]
  BY DEF Longer, OnTrail
<1> QED BY <1>2, <1>3 DEF OnTrail

LEMMA TrustStays ==
    ASSUME NEW D \in Seq(Body), NEW D2 \in Seq(Body), NEW T, NEW T2, Len(T) \in Nat, Len(T2) \in Nat,
           Extends(D, D2), Longer(T, T2), NEW a, NEW e, TrustOK(D, T, a, e)
    PROVE  TrustOK(D2, T2, a, e)
<1>1. ASSUME a # None PROVE OnTrail(D2, T2, e) /\ D2[e.doc] = D[e.doc]
  BY <1>1, OnTrailStays DEF TrustOK, OnTrail, Extends
<1> QED BY <1>1 DEF TrustOK

\* What a call stands on stays, whatever others write, are served and review.
LEMMA CallStays ==
    ASSUME NEW D \in Seq(Body), NEW D2 \in Seq(Body), Extends(D, D2), NEW T, NEW srv, NEW srv2,
           srv \subseteq srv2, NEW app, NEW app2, app \subseteq app2,
           NEW a, NEW e, TrustOK(D, T, a, e), NEW r, NEW c, ChainCallOK(D, srv, app, a, c, r)
    PROVE  ChainCallOK(D2, srv2, app2, a, c, r)
<1>1. Len(D) \in Nat /\ Len(D2) \in Nat
  OBVIOUS
<1>2. ASSUME a # None PROVE D2[a.hash] = D[a.hash]
  BY <1>1, <1>2 DEF TrustOK, OnTrail, Anchor, Extends
<1>3. ASSUME c.op # "idle" PROVE c.b \in Keyring /\ c.b.doc \in 1..Len(D2) /\ D2[c.b.doc] = D[c.b.doc]
  BY <1>1, <1>3 DEF ChainCallOK, Extends
<1>4. ASSUME c.op \in {"history", "head", "promote"} PROVE PutOK(D2, a, c.b)
  BY <1>2, <1>3, <1>4 DEF ChainCallOK, PutOK
<1>5. ASSUME c.op = "walk" PROVE a # None /\ c.b \in srv2 /\ D2[c.b.doc].rev > a.rev
  BY <1>3, <1>5 DEF ChainCallOK
<1>6. ASSUME c.op \in {"sign", "append"}
      PROVE  a # None /\ r \in Members(D2[a.hash]) /\ <<r, c.b.doc>> \in app2
  BY <1>2, <1>3, <1>6 DEF ChainCallOK
<1>7. c \in CallType /\ (c.op \in {"sign", "append", "promote", "record", "tidy"} => c.id \in Drafts)
  BY DEF ChainCallOK
<1> QED BY <1>3, <1>4, <1>5, <1>6, <1>7 DEF ChainCallOK

LEMMA DraftStays ==
    ASSUME NEW D \in Seq(Body), NEW D2 \in Seq(Body), Extends(D, D2), NEW app, NEW app2,
           app \subseteq app2, NEW b, DraftOK(D, app, b)
    PROVE  DraftOK(D2, app2, b)
<1>1. Len(D) \in Nat /\ Len(D2) \in Nat
  OBVIOUS
<1> QED BY <1>1 DEF DraftOK, Extends

-----------------------------------------------------------------------------
(* The builders: what each writes on the body d with hash h is a body.     *)

DocAbove(d, h, n, e) == BodyOK(e) /\ e.rev = n /\ e.prev = h

LEMMA FounderIsOne ==
    ASSUME NEW d, BodyOK(d)
    PROVE  /\ FounderOf(d) \in d.roster /\ IsFounder(FounderOf(d)) /\ FounderOf(d).id = Founder
           /\ \A m \in d.roster : IsFounder(m) \/ m.id = Founder => m = FounderOf(d)
<1>1. PICK m \in d.roster : IsFounder(m)
  BY DEF BodyOK
<1>2. FounderOf(d) \in d.roster /\ IsFounder(FounderOf(d))
  BY <1>1 DEF FounderOf
<1> QED BY <1>2 DEF BodyOK

LEMMA NextOnShape ==
    ASSUME NEW d, BodyOK(d), NEW h \in Nat, NEW n \in Nat
    PROVE  /\ NextOn(d, h, n) \in Body /\ NextOn(d, h, n).rev = n /\ NextOn(d, h, n).prev = h
           /\ NextOn(d, h, n).roster = d.roster /\ NextOn(d, h, n).gov = d.gov
           /\ NextOn(d, h, n).epochs = d.epochs /\ NextOn(d, h, n).shared = d.shared
  BY DEF NextOn, BodyOK, Body

LEMMA WithRuleOK ==
    ASSUME NEW d, BodyOK(d), NEW h \in Nat, NEW n \in Nat, NEW g \in Rules
    PROVE  DocAbove(d, h, n, [NextOn(d, h, n) EXCEPT !.gov = g])
<1> DEFINE e == [NextOn(d, h, n) EXCEPT !.gov = g]
<1>1. e \in Body /\ e.rev = n /\ e.prev = h /\ e.roster = d.roster
  BY NextOnShape DEF Body
<1> QED BY <1>1 DEF DocAbove, BodyOK

LEMMA WithMemberOK ==
    ASSUME NEW d, BodyOK(d), NEW h \in Nat, NEW n \in Nat, NEW reach, NEW p \in Person \ Members(d)
    PROVE  /\ DocAbove(d, h, n, WithMember(d, h, n, reach, p, 3))
           /\ SignersOf(WithMember(d, h, n, reach, p, 3)) = SignersOf(d)
           /\ WithMember(d, h, n, reach, p, 3).gov = d.gov
<1> DEFINE e == WithMember(d, h, n, reach, p, 3)
           m == [id |-> p, role |-> 3, key |-> p]
           eps == [i \in DOMAIN d.epochs |-> IF i \in reach THEN d.epochs[i] \cup {p} ELSE d.epochs[i]]
<1>1. eps \in Seq(SUBSET Person)
  <2>1. d.epochs \in Seq(SUBSET Person)
    BY DEF BodyOK, Body
  <2>2. DOMAIN d.epochs = 1..Len(d.epochs) /\ Len(d.epochs) \in Nat
    BY <2>1
  <2>3. \A i \in 1..Len(d.epochs) : d.epochs[i] \in SUBSET Person
    BY <2>1
  <2>4. eps \in [1..Len(d.epochs) -> SUBSET Person]
    BY <2>2, <2>3
  <2> QED BY <2>2, <2>4
<1>2. m \in Member
  BY DEF Member, Key
<1>3. e = [NextOn(d, h, n) EXCEPT !.roster = d.roster \cup {m},
                                  !.shared = IF d.shared = 0 THEN n ELSE d.shared, !.epochs = eps]
  BY Zenon DEF WithMember
<1>4. /\ e \in Body /\ e.rev = n /\ e.prev = h /\ e.gov = d.gov
      /\ e.roster = d.roster \cup {m}
  <2> HIDE DEF eps, m, e
  <2>1. d.roster \in SUBSET Member /\ d.shared \in Nat
    BY DEF BodyOK, Body
  <2>2. d.roster \cup {m} \in SUBSET Member /\ (IF d.shared = 0 THEN n ELSE d.shared) \in Nat
    BY <1>2, <2>1
  <2>3. PICK N \in Body : /\ N = NextOn(d, h, n) /\ N.rev = n /\ N.prev = h
                          /\ N.roster = d.roster /\ N.gov = d.gov
    BY NextOnShape
  <2>4. PICK sh \in Nat : sh = IF d.shared = 0 THEN n ELSE d.shared
    BY <2>2
  <2>5. PICK R \in SUBSET Member : R = d.roster \cup {m}
    BY <2>2
  <2>6. e = [N EXCEPT !.roster = R, !.shared = sh, !.epochs = eps]
    BY <1>3, <2>3, <2>4, <2>5
  <2> QED BY <1>1, <2>3, <2>5, <2>6 DEF Body
<1>5. IsFiniteSet(e.roster)
  BY <1>4, FS_AddElement DEF BodyOK
<1>6. p # Founder /\ \A x \in d.roster : x.id # p
  BY FounderIsOne DEF Members
<1>7. BodyOK(e)
  <2> HIDE DEF e
  <2> QED BY <1>4, <1>5, <1>6 DEF BodyOK, IsFounder, Owner
<1>8. SignersOf(e) = SignersOf(d)
  <2> HIDE DEF e
  <2> QED BY <1>4 DEF SignersOf, IsSigner, Owner, CoOwner
<1> QED BY <1>4, <1>7, <1>8 DEF DocAbove

LEMMA WithoutMemberOK ==
    ASSUME NEW d, BodyOK(d), NEW h \in Nat, NEW n \in Nat, NEW p, p # Founder
    PROVE  /\ DocAbove(d, h, n, WithoutMember(d, h, n, p))
           /\ p \in Plain(d) => SignersOf(WithoutMember(d, h, n, p)) = SignersOf(d)
           /\ WithoutMember(d, h, n, p).gov = d.gov
<1> DEFINE e == WithoutMember(d, h, n, p)
           stay == {m \in d.roster : m.id # p}
           eps == Append([i \in DOMAIN d.epochs |-> d.epochs[i] \ {p}], {m.id : m \in stay})
<1>1. eps \in Seq(SUBSET Person)
  <2>1. d.epochs \in Seq(SUBSET Person) /\ d.roster \in SUBSET Member
    BY DEF BodyOK, Body
  <2>2. DOMAIN d.epochs = 1..Len(d.epochs) /\ Len(d.epochs) \in Nat
    BY <2>1
  <2>3. \A i \in 1..Len(d.epochs) : d.epochs[i] \in SUBSET Person
    BY <2>1
  <2>4. [i \in DOMAIN d.epochs |-> d.epochs[i] \ {p}] \in [1..Len(d.epochs) -> SUBSET Person]
    BY <2>2, <2>3
  <2>5. {m.id : m \in stay} \in SUBSET Person
    BY <2>1 DEF Member
  <2>6. [i \in DOMAIN d.epochs |-> d.epochs[i] \ {p}] \in Seq(SUBSET Person)
    BY <2>2, <2>4
  <2> QED BY <2>5, <2>6
<1>2. e = [NextOn(d, h, n) EXCEPT !.roster = stay, !.epochs = eps]
  BY Zenon DEF WithoutMember
<1>3. /\ e \in Body /\ e.rev = n /\ e.prev = h /\ e.gov = d.gov /\ e.roster = stay
  <2> HIDE DEF eps, e
  <2>1. stay \in SUBSET Member
    BY DEF BodyOK, Body
  <2> HIDE DEF stay
  <2>2. PICK N \in Body : /\ N = NextOn(d, h, n) /\ N.rev = n /\ N.prev = h
                          /\ N.roster = d.roster /\ N.gov = d.gov
    BY NextOnShape
  <2>3. e = [N EXCEPT !.roster = stay, !.epochs = eps]
    BY <1>2, <2>2
  <2> QED BY <1>1, <2>1, <2>2, <2>3 DEF Body
<1>4. IsFiniteSet(e.roster)
  BY <1>3, FS_Subset DEF BodyOK
<1>5. FounderOf(d) \in stay /\ IsFounder(FounderOf(d))
  BY FounderIsOne
<1>6. BodyOK(e)
  <2> HIDE DEF e
  <2> QED BY <1>3, <1>4, <1>5 DEF BodyOK
<1>7. ASSUME p \in Plain(d) PROVE SignersOf(e) = SignersOf(d)
  <2>1. PICK x \in d.roster \ SignersOf(d) : x.id = p
    BY <1>7 DEF Plain
  <2>2. \A m \in SignersOf(d) : m.id # p
    BY <2>1 DEF BodyOK, SignersOf
  <2> HIDE DEF e
  <2> QED BY <1>3, <2>2 DEF SignersOf
<1> QED BY <1>3, <1>6, <1>7 DEF DocAbove

\* A roster rewritten member by member, ids kept: the founder's key, another's role.
LEMMA RewrittenOK ==
    ASSUME NEW d, BodyOK(d), NEW h \in Nat, NEW n \in Nat, NEW f \in [d.roster -> Member],
           \A m \in d.roster : /\ f[m].id = m.id /\ f[m].key \in {m.id, NewKey}
                               /\ IsFounder(f[m]) <=> IsFounder(m)
    PROVE  DocAbove(d, h, n, [NextOn(d, h, n) EXCEPT !.roster = {f[m] : m \in d.roster}])
<1> DEFINE R == {f[m] : m \in d.roster}
           e == [NextOn(d, h, n) EXCEPT !.roster = R]
<1>1. R \in SUBSET Member
  OBVIOUS
<1>2. f \in Surjection(d.roster, R)
  <2>1. f \in [d.roster -> R] /\ \A x \in R : \E m \in d.roster : f[m] = x
    OBVIOUS
  <2> QED BY <2>1 DEF Surjection
<1>3. IsFiniteSet(R)
  BY <1>2, FS_Surjection DEF BodyOK
<1>4. /\ \A x, y \in R : x.id = y.id => x = y
      /\ \A x \in R : (IsFounder(x) <=> x.id = Founder) /\ x.key \in {x.id, NewKey}
      /\ \E x \in R : IsFounder(x)
  BY DEF BodyOK
<1>5. e \in Body /\ e.rev = n /\ e.prev = h /\ e.roster = R
  <2> HIDE DEF R
  <2> QED BY <1>1, NextOnShape DEF Body
<1> QED BY <1>3, <1>4, <1>5 DEF DocAbove, BodyOK

LEMMA WithRoleOK ==
    ASSUME NEW d, BodyOK(d), NEW h \in Nat, NEW n \in Nat, NEW p, p # Founder
    PROVE  DocAbove(d, h, n, WithRole(d, h, n, p, CoOwner))
<1> DEFINE f == [m \in d.roster |-> IF m.id = p THEN [m EXCEPT !.role = CoOwner] ELSE m]
<1>1. d.roster \in SUBSET Member
  BY DEF BodyOK, Body
<1>2. f \in [d.roster -> Member]
  BY <1>1 DEF Member, CoOwner
<1>3. ASSUME NEW m \in d.roster
      PROVE  /\ f[m].id = m.id /\ f[m].key \in {m.id, NewKey}
             /\ IsFounder(f[m]) <=> IsFounder(m)
  <2>1. m \in Member /\ m.key \in {m.id, NewKey} /\ (IsFounder(m) <=> m.id = Founder)
    BY <1>1 DEF BodyOK
  <2> QED BY <2>1 DEF Member, IsFounder, CoOwner, Owner
<1>4. {IF m.id = p THEN [m EXCEPT !.role = CoOwner] ELSE m : m \in d.roster} = {f[m] : m \in d.roster}
  OBVIOUS
<1>5. WithRole(d, h, n, p, CoOwner) = [NextOn(d, h, n) EXCEPT !.roster = {f[m] : m \in d.roster}]
  BY <1>4, Zenon DEF WithRole
<1> HIDE DEF f
<1> QED BY <1>2, <1>3, <1>5, RewrittenOK

LEMMA WithKeyOK ==
    ASSUME NEW d, BodyOK(d), NEW h \in Nat, NEW n \in Nat
    PROVE  DocAbove(d, h, n, [NextOn(d, h, n) EXCEPT
             !.roster = {IF IsFounder(m) THEN [m EXCEPT !.key = NewKey] ELSE m : m \in d.roster}])
<1> DEFINE f == [m \in d.roster |-> IF IsFounder(m) THEN [m EXCEPT !.key = NewKey] ELSE m]
<1>1. d.roster \in SUBSET Member
  BY DEF BodyOK, Body
<1>2. f \in [d.roster -> Member]
  BY <1>1 DEF Member, Key
<1>3. ASSUME NEW m \in d.roster
      PROVE  /\ f[m].id = m.id /\ f[m].key \in {m.id, NewKey}
             /\ IsFounder(f[m]) <=> IsFounder(m)
  <2>1. m \in Member /\ m.key \in {m.id, NewKey}
    BY <1>1 DEF BodyOK
  <2> QED BY <2>1 DEF Member, IsFounder
<1>4. {IF IsFounder(m) THEN [m EXCEPT !.key = NewKey] ELSE m : m \in d.roster}
       = {f[m] : m \in d.roster}
  OBVIOUS
<1> HIDE DEF f
<1>5. PICK R : R = {f[m] : m \in d.roster}
  OBVIOUS
<1>6. DocAbove(d, h, n, [NextOn(d, h, n) EXCEPT !.roster = R])
  BY <1>2, <1>3, <1>5, RewrittenOK
<1> QED BY <1>4, <1>5, <1>6, Zenon

-----------------------------------------------------------------------------
(* Consent.                                                                *)

LEMMA KeysAreFinite == IsFiniteSet(Key)
<1>1. IsFiniteSet(CoOwners)
  BY ChainAssumption
<1>2. IsFiniteSet(CoOwners \cup {Founder})
  BY <1>1, FS_AddElement
<1>3. IsFiniteSet((CoOwners \cup {Founder}) \cup {Newcomer})
  BY <1>2, FS_AddElement
<1>4. IsFiniteSet(((CoOwners \cup {Founder}) \cup {Newcomer}) \cup {NewKey})
  BY <1>3, FS_AddElement
<1>5. IsFiniteSet((((CoOwners \cup {Founder}) \cup {Newcomer}) \cup {NewKey}) \cup {Rvk})
  BY <1>4, FS_AddElement
<1>6. Key = (((CoOwners \cup {Founder}) \cup {Newcomer}) \cup {NewKey}) \cup {Rvk}
  BY DEF Key, Person, Replicas
<1> QED BY <1>5, <1>6

LEMMA ThresholdGrows ==
    ASSUME NEW X, NEW Y \in SUBSET Key, X \subseteq Y, NEW n \in Nat, NEW sigs,
           Threshold(X, n, sigs)
    PROVE  Threshold(Y, n, sigs)
<1>1. IsFiniteSet(Y \cap sigs)
  <2>1. Y \cap sigs \in SUBSET Key
    OBVIOUS
  <2> QED BY <2>1, KeysAreFinite, FS_Subset
<1>2. X \cap sigs \in SUBSET (Y \cap sigs)
  OBVIOUS
<1>3. /\ IsFiniteSet(X \cap sigs)
      /\ Cardinality(X \cap sigs) <= Cardinality(Y \cap sigs)
  BY <1>1, <1>2, FS_Subset
<1>4. Cardinality(X \cap sigs) \in Nat /\ Cardinality(Y \cap sigs) \in Nat
  BY <1>1, <1>3, FS_CardinalityType
<1> QED BY <1>3, <1>4 DEF Threshold

\* What passes verify_transition had the consent of the signers it replaces.
LEMMA VerdictConsents ==
    ASSUME NEW d, BodyOK(d), NEW c, BodyOK(c), NEW h, NEW sigs,
           Verdict(Anchor(d, h), c, sigs) = "ok"
    PROVE  c.rev = d.rev + 1 /\ c.prev = h /\ Consented(d, c, sigs)
<1> DEFINE a == Anchor(d, h)
           old == SignersOf(d)
           new == SignersOf(c)
           fk == FounderOf(d).key
<1>1. c.rev = d.rev + 1 /\ c.prev = h /\ Endorsed(a, c, sigs)
  BY DEF Verdict, Anchor
<1>2. a.signers = old /\ a.gov = d.gov
  BY DEF Anchor
<1>3. old \in SUBSET d.roster /\ d.roster \in SUBSET Member /\ IsFiniteSet(d.roster)
  BY DEF SignersOf, BodyOK, Body
<1>4. d.gov \in [kind : Nat, threshold : Nat]
  BY ChainAssumption DEF BodyOK, Body
<1>5. Founders(old) = {FounderOf(d)} /\ FounderOf(d) \in old
  BY FounderIsOne DEF Founders, SignersOf, IsSigner, IsFounder
<1>6. Keys(Founders(old)) = {fk}
  BY <1>5 DEF Keys
<1>7. ASSUME SelfRemoval(a, new, sigs) PROVE Consented(d, c, sigs)
  <2>1. /\ new \subseteq old /\ Cardinality(old \ new) = 1
        /\ \A s \in old \ new : s.key \in sigs
    BY <1>2, <1>7 DEF SelfRemoval
  <2>2. IsFiniteSet(old \ new)
    BY <1>3, FS_Subset
  <2>3. PICK x : old \ new = {x}
    BY <2>1, <2>2, FS_Singleton
  <2>4. {s.key : s \in old \ new} = {x.key} /\ x.key \in sigs
    BY <2>1, <2>3
  <2>5. Cardinality({x.key}) = 1
    BY FS_Singleton
  <2>6. Cardinality({s.key : s \in old \ new}) = 1 /\ {s.key : s \in old \ new} \subseteq sigs
    BY <2>4, <2>5
  <2> QED BY <2>1, <2>6 DEF Consented
<1>8. ASSUME GovernanceMet(a, new, c, sigs) PROVE Consented(d, c, sigs)
  <2>1. FounderSigned(a, sigs) => Consented(d, c, sigs)
    <3>1. FounderSigned(a, sigs) => fk \in sigs
      BY <1>2, <1>6 DEF FounderSigned
    <3> QED BY <3>1 DEF Consented
  <2>2. CASE d.gov.kind = 1
    BY <1>2, <1>8, <2>1, <2>2 DEF GovernanceMet
  <2>3. CASE d.gov.kind = 2
    <3>1. SUFFICES ASSUME Threshold(Standing(a, new), d.gov.threshold, sigs)
                   PROVE  Consented(d, c, sigs)
      BY <1>2, <1>8, <2>1, <2>3 DEF GovernanceMet
    <3> DEFINE staying == {s.key : s \in old \cap new} \ {fk}
    <3>2. Standing(a, new) \subseteq staying
      BY <1>2, <1>6 DEF Standing, Keys
    <3>3. staying \in SUBSET Key
      BY <1>3 DEF Member
    <3>4. d.gov.threshold \in Nat
      BY <1>4
    <3>5. Threshold(staying, d.gov.threshold, sigs)
      <4> HIDE DEF staying
      <4> QED BY <3>1, <3>2, <3>3, <3>4, ThresholdGrows
    <3> QED BY <2>3, <3>5 DEF Consented
  <2>4. CASE d.gov.kind = 3
    <3>1. Threshold(Keys(old), d.gov.threshold, sigs)
      BY <1>2, <1>8, <2>4 DEF GovernanceMet
    <3> QED BY <2>4, <3>1 DEF Consented
  <2>5. CASE d.gov.kind \notin {1, 2, 3}
    <3>1. SUFFICES ASSUME Keys(old) \subseteq sigs PROVE Consented(d, c, sigs)
      BY <1>2, <1>8, <2>1, <2>5 DEF GovernanceMet
    <3>2. fk \in sigs
      BY <1>5, <3>1 DEF Keys
    <3> QED BY <3>2 DEF Consented
  <2> QED BY <2>2, <2>3, <2>4, <2>5
<1>9. CASE new = old /\ c.gov = d.gov
  BY <1>1, <1>9 DEF Consented
<1>10. CASE ~(new = old /\ c.gov = d.gov)
  <2>1. Privileged(a, c)
    BY <1>2, <1>10 DEF Privileged
  <2>2. SelfRemoval(a, new, sigs) \/ GovernanceMet(a, new, c, sigs)
    BY <1>1, <2>1 DEF Endorsed
  <2> QED BY <1>1, <1>7, <1>8, <2>2
<1> QED BY <1>9, <1>10

\* An author signs with their own key, or the founder's after a reset.
LEMMA AuthorKey ==
    ASSUME NEW r, BodyOK(Trusted(r)), r \in Members(Trusted(r))
    PROVE  \E m \in Trusted(r).roster :
             m.id = r /\ KeyOf(r) = m.key /\ m.key \in {r, NewKey} /\ RoleOf(r) = {m.role}
<1>1. PICK m \in Trusted(r).roster : m.id = r
  BY DEF Members
<1>2. {n \in Trusted(r).roster : n.id = r} = {m}
  BY <1>1 DEF BodyOK
<1>3. KeyOf(r) = m.key
  BY <1>2 DEF KeyOf
<1>4. RoleOf(r) = {m.role}
  BY <1>2 DEF RoleOf
<1> QED BY <1>1, <1>3, <1>4 DEF BodyOK

LEMMA WrittenOK ==
    ASSUME NEW r, NEW D, BodyOK(D), D = Trusted(r), anchor[r] = Anchor(D, anchor[r].hash),
           anchor[r].hash \in Nat, RoleOf(r) \cap {Owner, CoOwner} # {}, NEW e \in Written(r)
    PROVE  /\ r \in Members(D) /\ DocAbove(D, anchor[r].hash, anchor[r].rev + 1, e)
           /\ Consented(D, e, {KeyOf(r)})
<1>1. r \in Members(D)
  BY DEF RoleOf, Members
<1>2. PICK x \in D.roster : x.id = r /\ KeyOf(r) = x.key /\ RoleOf(r) = {x.role}
  BY <1>1, AuthorKey
<1>3. ASSUME Owner \in RoleOf(r) PROVE r = Founder /\ KeyOf(r) = FounderOf(D).key
  BY <1>2, <1>3, FounderIsOne DEF IsFounder
<1>4. anchor[r].rev = D.rev /\ D.rev \in Nat /\ anchor[r].rev + 1 \in Nat
  BY DEF Anchor, BodyOK, Body
<1>5. \A p \in Plain(D) : p # Founder
  BY FounderIsOne DEF Plain, SignersOf, IsSigner, IsFounder, BodyOK
<1>6. ASSUME NEW p \in {Newcomer} \ Members(D),
             e = WithMember(D, anchor[r].hash, anchor[r].rev + 1, DOMAIN D.epochs, p, 3)
      PROVE  DocAbove(D, anchor[r].hash, anchor[r].rev + 1, e) /\ Consented(D, e, {KeyOf(r)})
  <2>1. p \in Person \ Members(D)
    BY DEF Person
  <2> QED BY <1>4, <1>6, <2>1, WithMemberOK DEF Consented
<1>7. ASSUME NEW p, p \in IF Owner \in RoleOf(r) THEN Members(D) \ {r} ELSE Plain(D),
             e = WithoutMember(D, anchor[r].hash, anchor[r].rev + 1, p)
      PROVE  DocAbove(D, anchor[r].hash, anchor[r].rev + 1, e) /\ Consented(D, e, {KeyOf(r)})
  <2>1. p # Founder
    BY <1>3, <1>5, <1>7
  <2>2. DocAbove(D, anchor[r].hash, anchor[r].rev + 1, e)
    BY <1>4, <1>7, <2>1, WithoutMemberOK
  <2>3. Consented(D, e, {KeyOf(r)})
    <3>1. CASE Owner \in RoleOf(r)
      BY <1>3, <3>1 DEF Consented
    <3>2. CASE Owner \notin RoleOf(r)
      <4>1. SignersOf(e) = SignersOf(D) /\ e.gov = D.gov
        BY <1>4, <1>7, <2>1, <3>2, WithoutMemberOK
      <4> QED BY <4>1 DEF Consented
    <3> QED BY <3>1, <3>2
  <2> QED BY <2>2, <2>3
<1>8. ASSUME NEW p, p \in IF Owner \in RoleOf(r) THEN Plain(D) ELSE {},
             e = WithRole(D, anchor[r].hash, anchor[r].rev + 1, p, CoOwner)
      PROVE  DocAbove(D, anchor[r].hash, anchor[r].rev + 1, e) /\ Consented(D, e, {KeyOf(r)})
  <2>1. p # Founder /\ Owner \in RoleOf(r)
    BY <1>5, <1>8
  <2>2. DocAbove(D, anchor[r].hash, anchor[r].rev + 1, e)
    BY <1>4, <1>8, <2>1, WithRoleOK
  <2> QED BY <1>3, <2>1, <2>2 DEF Consented
<1>9. \/ \E p \in {Newcomer} \ Members(D) :
           e = WithMember(D, anchor[r].hash, anchor[r].rev + 1, DOMAIN D.epochs, p, 3)
      \/ \E p \in IF Owner \in RoleOf(r) THEN Members(D) \ {r} ELSE Plain(D) :
           e = WithoutMember(D, anchor[r].hash, anchor[r].rev + 1, p)
      \/ \E p \in IF Owner \in RoleOf(r) THEN Plain(D) ELSE {} :
           e = WithRole(D, anchor[r].hash, anchor[r].rev + 1, p, CoOwner)
  BY Zenon DEF Written
<1> QED BY <1>1, <1>6, <1>7, <1>8, <1>9

LEMMA DraftedOK ==
    ASSUME NEW r, NEW D, BodyOK(D), D = Trusted(r), anchor[r] = Anchor(D, anchor[r].hash),
           anchor[r].hash \in Nat, NEW e \in Drafted(r)
    PROVE  BodyOK(e)
<1>1. anchor[r].rev + 1 \in Nat
  BY DEF Anchor, BodyOK, Body
<1>2. \A p \in Plain(D) : p # Founder
  BY FounderIsOne DEF Plain, SignersOf, IsSigner, IsFounder, BodyOK
<1>3. \/ \E g \in Rules : e = [NextOn(D, anchor[r].hash, anchor[r].rev + 1) EXCEPT !.gov = g]
      \/ \E p \in Plain(D) : e = WithRole(D, anchor[r].hash, anchor[r].rev + 1, p, CoOwner)
      \/ \E p \in Members(D) \ {Founder} :
           e = WithoutMember(D, anchor[r].hash, anchor[r].rev + 1, p)
  BY Zenon DEF Drafted
<1> QED BY <1>1, <1>2, <1>3, WithRuleOK, WithRoleOK, WithoutMemberOK DEF DocAbove

\* A reset is signed by the recovery authority, which may change what it likes.
LEMMA RefoundedOK ==
    ASSUME NEW r, NEW D, BodyOK(D), D = Trusted(r), anchor[r] = Anchor(D, anchor[r].hash),
           anchor[r].hash \in Nat
    PROVE  /\ DocAbove(D, anchor[r].hash, anchor[r].rev + 1, Refounded(r))
           /\ Consented(D, Refounded(r), {NewKey, Rvk})
<1>1. anchor[r].rev + 1 \in Nat
  BY DEF Anchor, BodyOK, Body
<1>2. DocAbove(D, anchor[r].hash, anchor[r].rev + 1, Refounded(r))
  BY <1>1, WithKeyOK DEF Refounded
<1>3. Consented(D, Refounded(r), {NewKey, Rvk})
  BY DEF Consented
<1> QED BY <1>2, <1>3

-----------------------------------------------------------------------------
(* What a step leaves as it was.                                           *)

LEMMA WritesOK ==
    ASSUME DocsOK(docs), NEW r, NEW e, BodyOK(e), Writes(r, e)
    PROVE  /\ DocsOK(docs') /\ Extends(docs, docs')
           /\ HashOf(e) \in 1..Len(docs') /\ docs'[HashOf(e)] = e
<1>1. docs \in Seq(Body) /\ Len(docs) \in Nat /\ DOMAIN docs = 1..Len(docs) /\ e \in Body
  BY DEF DocsOK, BodyOK
<1>2. CASE e \in Range(docs)
  <2>1. docs' = docs
    BY <1>2 DEF Writes
  <2>2. PICK h \in DOMAIN docs : docs[h] = e
    BY <1>2 DEF Range
  <2>3. HashOf(e) \in DOMAIN docs' /\ docs'[HashOf(e)] = e
    BY <2>1, <2>2, Zenon DEF HashOf
  <2> QED BY <1>1, <2>1, <2>3 DEF Extends
<1>3. CASE e \notin Range(docs)
  <2>1. docs' = Append(docs, e) /\ Len(docs) < MaxDocs
    BY <1>3 DEF Writes
  <2>2. /\ docs' \in Seq(Body) /\ Len(docs') = Len(docs) + 1 /\ docs'[Len(docs) + 1] = e
        /\ \A h \in 1..Len(docs) : docs'[h] = docs[h]
    BY <1>1, <2>1
  <2>3. DOMAIN docs' = 1..Len(docs') /\ Len(docs') \in Nat
    BY <2>2
  <2>4. Len(docs) + 1 \in DOMAIN docs'
    BY <1>1, <2>2, <2>3
  <2>5. HashOf(e) \in DOMAIN docs' /\ docs'[HashOf(e)] = e
    BY <2>2, <2>4, Zenon DEF HashOf
  <2>6. \A h \in 1..Len(docs') : h = Len(docs) + 1 \/ h \in 1..Len(docs)
    BY <1>1, <2>2
  <2>7. \A h \in 1..Len(docs') : BodyOK(docs'[h])
    BY <2>2, <2>6 DEF DocsOK
  <2>8. Len(docs') \in 1..MaxDocs
    BY <1>1, <2>1, <2>2, ChainAssumption
  <2> QED BY <1>1, <2>2, <2>3, <2>5, <2>7, <2>8 DEF DocsOK, Extends
<1> QED BY <1>2, <1>3

LEMMA TrailStays ==
    ASSUME ChainInv, DocsOK(docs'), Extends(docs, docs'), head' = head
    PROVE  Trail' = Trail /\ HeadOK(docs', Trail', head') /\ Longer(Trail, Trail')
<1>1. CASE head = None
  BY <1>1 DEF Trail, ChainInv, HeadOK, Longer
<1>2. CASE head # None
  <2>1. head.doc \in 1..Len(docs) /\ Linked(docs, head.doc, Trail) /\ head \in Keyring
    BY <1>2 DEF ChainInv, HeadOK
  <2>2. Linked(docs', head.doc, Trail)
    BY <2>1, LinkedStays DEF ChainInv, DocsOK
  <2>3. TrailOf(docs', head.doc) = Trail
    BY <2>2, TrailIs
  <2>4. Trail' = Trail
    BY <1>2, <2>3 DEF Trail
  <2>5. Len(docs) \in Nat /\ Len(docs') \in Nat /\ Len(docs) <= Len(docs')
    BY DEF DocsOK, Extends, ChainInv
  <2>6. Len(Trail) \in Nat
    BY <2>1 DEF Linked
  <2>7. HeadOK(docs', Trail', head')
    BY <1>2, <2>1, <2>2, <2>4, <2>5 DEF HeadOK
  <2> QED BY <2>4, <2>6, <2>7 DEF Longer
<1> QED BY <1>1, <1>2

\* The head on top of the last one: the trail is one longer.
LEMMA TrailGrows ==
    ASSUME ChainInv, NEW r \in Replicas, pc[r].op \in {"head", "promote"}, CasWins(r),
           head' = pc[r].b, docs' = docs
    PROVE  /\ Trail' = Append(Trail, pc[r].b.doc)
           /\ HeadOK(docs', Trail', head') /\ Longer(Trail, Trail') /\ head' # None
           /\ OnTrail(docs', Trail', pc[r].b)
           /\ docs[pc[r].b.doc].rev = Len(Trail) + 1 /\ Len(Trail) \in Nat
           /\ pc[r].b.doc \in 1..Len(docs)
           /\ head # None => /\ anchor[r] # None /\ anchor[r].hash = head.doc
                             /\ Trail[Len(Trail)] = head.doc
                             /\ Consented(docs[head.doc], docs[pc[r].b.doc], pc[r].b.sigs)
           /\ head = None => Trail = <<>>
<1> DEFINE b == pc[r].b
<1>1. /\ b \in Keyring /\ b.doc \in 1..Len(docs) /\ PutOK(docs, anchor[r], b)
      /\ TrustOK(docs, Trail, anchor[r], etag[r]) /\ etag[r] = head /\ docs \in Seq(Body)
      /\ HeadOK(docs, Trail, head)
  BY DEF ChainInv, ChainCallOK, DocsOK, CasWins
<1>2. b # None
  BY <1>1, ChainAssumption
<1>3. CASE head = None
  <2>1. anchor[r] = None /\ Trail = <<>>
    BY <1>3 DEF ChainInv, HeadOK
  <2>2. Linked(docs, b.doc, <<b.doc>>) /\ docs[b.doc].rev = 1
    BY <1>1, <2>1, LinkedOne DEF PutOK
  <2>3. Trail' = <<b.doc>> /\ Trail' = Append(Trail, b.doc) /\ Len(Trail) = 0 /\ Len(Trail') = 1
    <3>1. TrailOf(docs', head'.doc) = <<b.doc>>
      BY <2>2, TrailIs
    <3>2. Trail' = <<b.doc>>
      BY <1>2, <3>1 DEF Trail
    <3>3. Append(<<>>, b.doc) = <<b.doc>> /\ Len(<<b.doc>>) = 1
      OBVIOUS
    <3> QED BY <2>1, <3>2, <3>3
  <2>4. OnTrail(docs', Trail', b)
    BY <1>1, <2>2, <2>3 DEF OnTrail
  <2> QED BY <1>1, <1>2, <1>3, <2>1, <2>2, <2>3, <2>4 DEF HeadOK, Longer
<1>4. CASE head # None
  <2>1. head.doc \in 1..Len(docs) /\ Linked(docs, head.doc, Trail)
    BY <1>1, <1>4 DEF HeadOK
  <2>2. anchor[r] # None /\ anchor[r] = Anchor(docs[head.doc], head.doc)
    BY <1>1, <1>4 DEF TrustOK
  <2>3. anchor[r].hash = head.doc /\ anchor[r].rev = docs[head.doc].rev
    BY <2>2 DEF Anchor
  <2>4. /\ docs[b.doc].rev = docs[head.doc].rev + 1 /\ docs[b.doc].prev = head.doc
        /\ Consented(docs[head.doc], docs[b.doc], b.sigs)
    BY <1>1, <2>2, <2>3 DEF PutOK
  <2>5. Linked(docs, b.doc, Append(Trail, b.doc)) /\ Longer(Trail, Append(Trail, b.doc))
    BY <1>1, <2>1, <2>4, LinkedGrows
  <2>6. Trail' = Append(Trail, b.doc)
    BY <1>2, <2>5, TrailIs DEF Trail
  <2>7. Len(Trail) \in Nat /\ Trail[Len(Trail)] = head.doc /\ docs[head.doc].rev = Len(Trail)
    BY <2>1 DEF Linked
  <2>8. Trail \in Seq(1..Len(docs))
    BY <2>1 DEF Linked
  <2>9. Len(Trail') = Len(Trail) + 1 /\ Trail'[Len(Trail) + 1] = b.doc
    BY <1>1, <2>6, <2>8
  <2>10. OnTrail(docs', Trail', b)
    BY <1>1, <2>4, <2>7, <2>9 DEF OnTrail
  <2>11. HeadOK(docs', Trail', head')
    BY <1>1, <1>2, <2>5, <2>6 DEF HeadOK
  <2> QED BY <1>1, <1>2, <1>4, <2>2, <2>3, <2>4, <2>5, <2>6, <2>7, <2>10, <2>11
<1> QED BY <1>3, <1>4

Moved ==
  /\ DocsOK(docs') /\ Extends(docs, docs') /\ HeadOK(docs', Trail', head') /\ Longer(Trail, Trail')
  /\ served \subseteq served' /\ approved \subseteq approved'

LEMMA Carried ==
    ASSUME ChainInv, Moved
    PROVE  /\ \A b \in served : OnTrail(docs', Trail', b)
           /\ \A r \in Replicas : /\ TrustOK(docs', Trail', anchor[r], etag[r])
                                  /\ ChainCallOK(docs', served', approved', anchor[r], pc[r], r)
           /\ \A id \in Drafts : DraftOK(docs', approved', drafts[id])
<1>1. docs \in Seq(Body) /\ docs' \in Seq(Body)
  BY DEF ChainInv, Moved, DocsOK
<1>2. Len(Trail) \in Nat /\ Len(Trail') \in Nat
  BY DEF ChainInv, Moved, HeadOK, Linked
<1>3. \A b \in served : OnTrail(docs', Trail', b)
  BY <1>1, <1>2, OnTrailStays DEF ChainInv, Moved
<1>4. ASSUME NEW r \in Replicas
      PROVE  /\ TrustOK(docs', Trail', anchor[r], etag[r])
             /\ ChainCallOK(docs', served', approved', anchor[r], pc[r], r)
  <2>1. TrustOK(docs, Trail, anchor[r], etag[r]) /\ ChainCallOK(docs, served, approved, anchor[r], pc[r], r)
    BY DEF ChainInv
  <2>2. Extends(docs, docs') /\ Longer(Trail, Trail') /\ served \subseteq served' /\ approved \subseteq approved'
    BY DEF Moved
  <2>3. TrustOK(docs', Trail', anchor[r], etag[r])
    BY <1>1, <1>2, <2>1, <2>2, TrustStays
  <2>4. ChainCallOK(docs', served', approved', anchor[r], pc[r], r)
    BY <1>1, <2>1, <2>2, CallStays
  <2> QED BY <2>3, <2>4
<1>5. \A id \in Drafts : DraftOK(docs', approved', drafts[id])
  BY <1>1, DraftStays DEF ChainInv, Moved
<1> QED BY <1>3, <1>4, <1>5

\* A step of replica r answers for what it writes.
ReplicasStay(r) ==
  /\ anchor' = [q \in Replicas |-> IF q = r THEN anchor'[r] ELSE anchor[q]]
  /\ etag' = [q \in Replicas |-> IF q = r THEN etag'[r] ELSE etag[q]]
  /\ pc' = [q \in Replicas |-> IF q = r THEN pc'[r] ELSE pc[q]]
LEMMA ChainStepKeeps ==
    ASSUME ChainInv, Moved, NEW r \in Replicas, ReplicasStay(r),
           \A b \in served' : b \in served \/ OnTrail(docs', Trail', b),
           head' = None => head = None /\ anchor'[r] = None,
           TrustOK(docs', Trail', anchor'[r], etag'[r]),
           ChainCallOK(docs', served', approved', anchor'[r], pc'[r], r),
           drafts' = [id \in Drafts |-> drafts'[id]],
           \A id \in Drafts : drafts'[id] = drafts[id] \/ DraftOK(docs', approved', drafts'[id])
    PROVE  ChainInv'
<1>1. DocsOK(docs') /\ HeadOK(docs', Trail', head')
  BY DEF Moved
<1>2. \A q \in Replicas : q # r => anchor'[q] = anchor[q] /\ etag'[q] = etag[q] /\ pc'[q] = pc[q]
  BY DEF ReplicasStay
<1>3. /\ anchor' = [q \in Replicas |-> anchor'[q]] /\ etag' = [q \in Replicas |-> etag'[q]]
      /\ pc' = [q \in Replicas |-> pc'[q]]
  BY DEF ReplicasStay
<1>4. head' = None => \A q \in Replicas : anchor'[q] = None
  BY <1>2 DEF ChainInv
<1>5. \A b \in served' : OnTrail(docs', Trail', b)
  BY Carried
<1>6. ASSUME NEW q \in Replicas
      PROVE  /\ TrustOK(docs', Trail', anchor'[q], etag'[q])
             /\ ChainCallOK(docs', served', approved', anchor'[q], pc'[q], q)
  BY <1>2, Carried
<1>7. \A id \in Drafts : DraftOK(docs', approved', drafts'[id])
  BY Carried
<1> QED BY <1>1, <1>3, <1>4, <1>5, <1>6, <1>7 DEF ChainInv

-----------------------------------------------------------------------------
(* The steps.                                                              *)

LEMMA IdleOK ==
    ASSUME NEW D, NEW srv, NEW app, NEW a, NEW r
    PROVE  ChainCallOK(D, srv, app, a, Idle, r)
  BY DEF ChainCallOK, CallType, Idle

LEMMA TrustedIs ==
    ASSUME ChainInv, NEW r \in Replicas, anchor[r] # None
    PROVE  /\ BodyOK(Trusted(r)) /\ anchor[r] = Anchor(Trusted(r), anchor[r].hash)
           /\ anchor[r].hash \in 1..Len(docs) /\ anchor[r].hash \in Nat
           /\ anchor[r].rev \in Nat /\ anchor[r].rev = Trusted(r).rev
           /\ etag[r] \in Keyring /\ etag[r].doc = anchor[r].hash
           /\ anchor[r].rev \in 1..Len(Trail) /\ Trail[anchor[r].rev] = anchor[r].hash
<1>1. OnTrail(docs, Trail, etag[r]) /\ anchor[r] = Anchor(docs[etag[r].doc], etag[r].doc)
  BY DEF ChainInv, TrustOK
<1>2. anchor[r].hash = etag[r].doc /\ anchor[r].rev = docs[etag[r].doc].rev
  BY <1>1 DEF Anchor
<1>3. BodyOK(docs[etag[r].doc]) /\ Len(docs) \in Nat /\ etag[r].doc \in 1..Len(docs)
  BY <1>1 DEF OnTrail, ChainInv, DocsOK
<1> QED BY <1>1, <1>2, <1>3 DEF OnTrail, Trusted, BodyOK, Body

LEMMA StillMoves ==
    ASSUME ChainInv, docs' = docs, head' = head, served' = served, approved \subseteq approved'
    PROVE  Moved /\ Trail' = Trail
<1>1. DocsOK(docs') /\ Extends(docs, docs')
  BY DEF ChainInv, DocsOK, Extends
<1> QED BY <1>1, TrailStays DEF Moved

\* A step that writes bodies but puts no head.
LEMMA WritingMoves ==
    ASSUME ChainInv, NEW r, NEW e, BodyOK(e), Writes(r, e), head' = head, served' = served,
           approved \subseteq approved'
    PROVE  /\ Moved /\ Trail' = Trail
           /\ HashOf(e) \in 1..Len(docs') /\ docs'[HashOf(e)] = e /\ Len(docs') \in Nat
<1>1. DocsOK(docs') /\ Extends(docs, docs') /\ HashOf(e) \in 1..Len(docs') /\ docs'[HashOf(e)] = e
  BY WritesOK DEF ChainInv
<1> QED BY <1>1, TrailStays DEF Moved, DocsOK

\* Whatever is written on the trusted body with its signers' consent may be put.
LEMMA CallOfNext ==
    ASSUME ChainInv, NEW r \in Replicas, anchor[r] # None, Moved, NEW sigs \in SUBSET Key, NEW h,
           h \in 1..Len(docs'), Len(docs') \in Nat,
           DocAbove(Trusted(r), anchor[r].hash, anchor[r].rev + 1, docs'[h]),
           Consented(Trusted(r), docs'[h], sigs)
    PROVE  ChainCallOK(docs', served', approved', anchor[r], Call("history", Signed(h, sigs), None), r)
<1> DEFINE c == Call("history", Signed(h, sigs), None)
<1>1. c \in CallType /\ c.op = "history" /\ c.b \in Keyring /\ c.b.doc = h /\ c.b.sigs = sigs
  BY DEF CallType, Call, Signed, Keyring
<1>2. docs'[anchor[r].hash] = Trusted(r)
  BY TrustedIs DEF Moved, Extends, Trusted
<1>3. PutOK(docs', anchor[r], c.b)
  BY <1>1, <1>2 DEF PutOK, DocAbove
<1> HIDE DEF c
<1>4. ChainCallOK(docs', served', approved', anchor[r], c, r)
  BY <1>1, <1>3 DEF ChainCallOK
<1> QED BY <1>4 DEF c

LEMMA PublishKeeps ==
    ASSUME ChainInv, NEW r \in Replicas, Publish(r)
    PROVE  ChainInv' /\ Trail' = Trail /\ anchor' = anchor
<1>1. anchor[r] # None /\ RoleOf(r) \cap {Owner, CoOwner} # {}
  BY DEF Publish, Idles
<1>2. PICK e \in Written(r) :
        /\ Writes(r, e)
        /\ pc' = [pc EXCEPT ![r] = Call("history", Signed(HashOf(e), {KeyOf(r)}), None)]
        /\ approved' = approved \cup {<<r, HashOf(e)>>}
  BY DEF Publish
<1>3. UNCHANGED <<head, served, rev, drafts, anchor, etag>>
  BY DEF Publish
<1>4. /\ r \in Members(Trusted(r)) /\ DocAbove(Trusted(r), anchor[r].hash, anchor[r].rev + 1, e)
      /\ Consented(Trusted(r), e, {KeyOf(r)})
  BY <1>1, TrustedIs, WrittenOK
<1>5. {KeyOf(r)} \in SUBSET Key
  BY <1>1, <1>4, TrustedIs, AuthorKey DEF Key, Person
<1>6. /\ Moved /\ Trail' = Trail
      /\ HashOf(e) \in 1..Len(docs') /\ docs'[HashOf(e)] = e /\ Len(docs') \in Nat
  BY <1>2, <1>3, <1>4, WritingMoves DEF DocAbove
<1>7. ChainCallOK(docs', served', approved', anchor[r],
             Call("history", Signed(HashOf(e), {KeyOf(r)}), None), r)
  BY <1>1, <1>4, <1>5, <1>6, CallOfNext
<1>8. ReplicasStay(r) /\ pc'[r] = Call("history", Signed(HashOf(e), {KeyOf(r)}), None)
  BY <1>2, <1>3 DEF ReplicasStay, ChainInv
<1>9. TrustOK(docs', Trail', anchor'[r], etag'[r])
  BY <1>3, <1>6, Carried
<1>10. /\ \A b \in served' : b \in served
       /\ head' = None => head = None /\ anchor'[r] = None
       /\ drafts' = [id \in Drafts |-> drafts'[id]] /\ \A id \in Drafts : drafts'[id] = drafts[id]
  BY <1>3 DEF ChainInv
<1>11. ChainInv'
  BY <1>3, <1>6, <1>7, <1>8, <1>9, <1>10, ChainStepKeeps
<1> QED BY <1>3, <1>6, <1>11

LEMMA PublishResetKeeps ==
    ASSUME ChainInv, NEW r \in Replicas, PublishReset(r)
    PROVE  ChainInv' /\ Trail' = Trail /\ anchor' = anchor
<1> DEFINE e == Refounded(r)
<1>1. anchor[r] # None
  BY DEF PublishReset, Idles
<1>2. /\ Writes(r, e)
      /\ pc' = [pc EXCEPT ![r] = Call("history", Signed(HashOf(e), {NewKey, Rvk}), None)]
      /\ approved' = approved \cup {<<r, HashOf(e)>>}
  BY DEF PublishReset
<1>3. UNCHANGED <<head, served, rev, drafts, anchor, etag>>
  BY DEF PublishReset
<1>4. /\ DocAbove(Trusted(r), anchor[r].hash, anchor[r].rev + 1, e)
      /\ Consented(Trusted(r), e, {NewKey, Rvk})
  BY <1>1, TrustedIs, RefoundedOK
<1> HIDE DEF e
<1>5. {NewKey, Rvk} \in SUBSET Key
  BY DEF Key
<1>6. /\ Moved /\ Trail' = Trail
      /\ HashOf(e) \in 1..Len(docs') /\ docs'[HashOf(e)] = e /\ Len(docs') \in Nat
  BY <1>2, <1>3, <1>4, WritingMoves DEF DocAbove
<1>7. ChainCallOK(docs', served', approved', anchor[r],
             Call("history", Signed(HashOf(e), {NewKey, Rvk}), None), r)
  BY <1>1, <1>4, <1>5, <1>6, CallOfNext
<1>8. ReplicasStay(r) /\ pc'[r] = Call("history", Signed(HashOf(e), {NewKey, Rvk}), None)
  BY <1>2, <1>3 DEF ReplicasStay, ChainInv
<1>9. TrustOK(docs', Trail', anchor'[r], etag'[r])
  BY <1>3, <1>6, Carried
<1>10. /\ \A b \in served' : b \in served
       /\ head' = None => head = None /\ anchor'[r] = None
       /\ drafts' = [id \in Drafts |-> drafts'[id]] /\ \A id \in Drafts : drafts'[id] = drafts[id]
  BY <1>3 DEF ChainInv
<1>11. ChainInv'
  BY <1>3, <1>6, <1>7, <1>8, <1>9, <1>10, ChainStepKeeps
<1> QED BY <1>3, <1>6, <1>11

\* A step that only moves r's call, its reviews and the drafts.
LEMMA CallMoves ==
    ASSUME ChainInv, NEW r \in Replicas, UNCHANGED <<docs, head, served, anchor, etag>>,
           approved \subseteq approved', NEW c, pc' = [pc EXCEPT ![r] = c],
           ChainCallOK(docs, served, approved', anchor[r], c, r),
           drafts' = [id \in Drafts |-> drafts'[id]],
           \A id \in Drafts : drafts'[id] = drafts[id] \/ DraftOK(docs, approved', drafts'[id])
    PROVE  ChainInv' /\ Trail' = Trail /\ anchor' = anchor
<1>1. Moved /\ Trail' = Trail
  BY StillMoves
<1>2. ReplicasStay(r) /\ pc'[r] = c
  BY DEF ReplicasStay, ChainInv
<1>3. TrustOK(docs', Trail', anchor'[r], etag'[r])
  BY <1>1, Carried
<1>4. head' = None => head = None /\ anchor'[r] = None
  BY DEF ChainInv
<1> QED BY <1>1, <1>2, <1>3, <1>4, ChainStepKeeps

LEMMA PutHistoryKeeps ==
    ASSUME ChainInv, NEW r \in Replicas, PutHistory(r)
    PROVE  ChainInv' /\ Trail' = Trail /\ anchor' = anchor
<1> DEFINE c == [pc[r] EXCEPT !.op = "head"]
<1>1. ChainCallOK(docs, served, approved, anchor[r], pc[r], r) /\ pc[r].op = "history"
  BY DEF ChainInv, PutHistory
<1>2. c \in CallType /\ c.op = "head" /\ c.b = pc[r].b
  BY <1>1 DEF ChainCallOK, CallType
<1>3. pc' = [pc EXCEPT ![r] = c] /\ UNCHANGED <<docs, head, served, drafts, anchor, etag, approved>>
  BY DEF PutHistory
<1> HIDE DEF c
<1>4. ChainCallOK(docs, served, approved', anchor[r], c, r)
  BY <1>1, <1>2, <1>3 DEF ChainCallOK
<1> QED BY <1>3, <1>4, CallMoves DEF ChainInv

LEMMA ReviewKeeps ==
    ASSUME ChainInv, NEW r \in Replicas, NEW id \in Drafts, Review(r, id)
    PROVE  ChainInv' /\ Trail' = Trail /\ anchor' = anchor
<1> DEFINE c == Call("sign", drafts[id], id)
<1>1. /\ anchor[r] # None /\ drafts[id] # None /\ r \in Members(Trusted(r))
      /\ pc' = [pc EXCEPT ![r] = c] /\ approved' = approved \cup {<<r, drafts[id].doc>>}
      /\ UNCHANGED <<docs, head, served, drafts, anchor, etag>>
  BY DEF Review, Idles
<1>2. drafts[id] \in Keyring /\ drafts[id].doc \in 1..Len(docs)
  BY <1>1 DEF ChainInv, DraftOK
<1>3. c \in CallType /\ c.op = "sign" /\ c.b = drafts[id] /\ c.id = id
  BY <1>2 DEF CallType, Call
<1> HIDE DEF c
<1>4. ChainCallOK(docs, served, approved', anchor[r], c, r)
  BY <1>1, <1>2, <1>3 DEF ChainCallOK, Trusted
<1> QED BY <1>1, <1>4, CallMoves DEF ChainInv

LEMMA CountersignKeeps ==
    ASSUME ChainInv, NEW r \in Replicas, Countersign(r)
    PROVE  ChainInv' /\ Trail' = Trail /\ anchor' = anchor
<1> DEFINE id == pc[r].id
           c == Call("append", drafts[id], id)
<1>1. ChainCallOK(docs, served, approved, anchor[r], pc[r], r) /\ pc[r].op = "sign" /\ id \in Drafts
  BY DEF ChainInv, Countersign, ChainCallOK
<1>2. /\ UNCHANGED <<docs, head, served, drafts, anchor, etag, approved>>
      /\ pc' = [pc EXCEPT ![r] = IF drafts[id] # None /\ drafts[id].doc = pc[r].b.doc THEN c ELSE Idle]
  <2>1. UNCHANGED <<docs, head, served, drafts, anchor, etag, approved>>
    BY DEF Countersign
  <2>2. CASE drafts[id] # None /\ drafts[id].doc = pc[r].b.doc
    <3>1. pc' = [pc EXCEPT ![r] = Call("append", drafts[id], pc[r].id)]
      BY <2>2 DEF Countersign
    <3> QED BY <2>1, <2>2, <3>1
  <2>3. CASE ~(drafts[id] # None /\ drafts[id].doc = pc[r].b.doc)
    <3>1. pc' = [pc EXCEPT ![r] = Idle]
      BY <2>3 DEF Countersign
    <3> QED BY <2>1, <2>3, <3>1
  <2> QED BY <2>2, <2>3
<1>3. ASSUME drafts[id] # None, drafts[id].doc = pc[r].b.doc
      PROVE  ChainCallOK(docs, served, approved', anchor[r], c, r)
  <2>1. drafts[id] \in Keyring /\ drafts[id].doc \in 1..Len(docs)
    BY <1>1, <1>3 DEF ChainInv, DraftOK
  <2>2. c \in CallType /\ c.op = "append" /\ c.b = drafts[id] /\ c.id = id
    BY <1>1, <2>1 DEF CallType, Call
  <2> HIDE DEF c
  <2> QED BY <1>1, <1>2, <1>3, <2>1, <2>2 DEF ChainCallOK
<1> HIDE DEF c
<1>4. PICK x : /\ pc' = [pc EXCEPT ![r] = x]
               /\ ChainCallOK(docs, served, approved', anchor[r], x, r)
  BY <1>2, <1>3, IdleOK
<1> QED BY <1>2, <1>4, CallMoves DEF ChainInv

\* Only what was reviewed is signed, by its reviewer or under the founder's new key.
LEMMA AppendSignatureKeeps ==
    ASSUME ChainInv, NEW r \in Replicas, AppendSignature(r)
    PROVE  ChainInv' /\ Trail' = Trail /\ anchor' = anchor
<1> DEFINE id == pc[r].id
<1>1. /\ ChainCallOK(docs, served, approved, anchor[r], pc[r], r) /\ pc[r].op = "append" /\ id \in Drafts
      /\ anchor[r] # None /\ r \in Members(docs[anchor[r].hash]) /\ <<r, pc[r].b.doc>> \in approved
  BY DEF ChainInv, AppendSignature, ChainCallOK
<1>2. UNCHANGED <<docs, head, served, anchor, etag, approved>>
  BY DEF AppendSignature
<1>3. CASE drafts[id] = pc[r].b
  <2> DEFINE x == [drafts[id] EXCEPT !.sigs = @ \cup {KeyOf(r)}]
  <2>1. drafts' = [drafts EXCEPT ![id] = x] /\ pc' = [pc EXCEPT ![r] = Idle]
    BY <1>3 DEF AppendSignature
  <2>2. KeyOf(r) \in {r, NewKey}
    BY <1>1, TrustedIs, AuthorKey DEF Trusted
  <2>3. drafts[id] \in Keyring /\ DraftOK(docs, approved, drafts[id])
    BY <1>1, <1>3 DEF ChainInv, ChainCallOK
  <2>4. x \in Keyring /\ x.doc = drafts[id].doc /\ x.sigs = drafts[id].sigs \cup {KeyOf(r)}
    BY <2>2, <2>3 DEF Keyring, Key, Person
  <2>5. drafts[id] # None
    BY <2>3, ChainAssumption
  <2> HIDE DEF x
  <2>6. DraftOK(docs, approved', x)
    BY <1>1, <1>2, <1>3, <2>2, <2>3, <2>4, <2>5, ChainAssumption DEF DraftOK
  <2>7. /\ drafts' = [i \in Drafts |-> drafts'[i]]
        /\ \A i \in Drafts : drafts'[i] = drafts[i] \/ DraftOK(docs, approved', drafts'[i])
    BY <2>1, <2>6 DEF ChainInv
  <2>8. ChainCallOK(docs, served, approved', anchor[r], Idle, r)
    BY IdleOK
  <2> QED BY <1>2, <2>1, <2>7, <2>8, CallMoves
<1>4. CASE drafts[id] # pc[r].b
  <2> DEFINE c == [pc[r] EXCEPT !.op = "sign"]
  <2>1. pc' = [pc EXCEPT ![r] = c] /\ drafts' = drafts
    BY <1>4 DEF AppendSignature
  <2>2. c \in CallType /\ c.op = "sign" /\ c.b = pc[r].b /\ c.id = id
    BY <1>1 DEF ChainCallOK, CallType
  <2> HIDE DEF c
  <2>3. ChainCallOK(docs, served, approved', anchor[r], c, r)
    BY <1>1, <1>2, <2>2 DEF ChainCallOK
  <2> QED BY <1>2, <2>1, <2>3, CallMoves DEF ChainInv
<1> QED BY <1>3, <1>4

LEMMA PromoteKeeps ==
    ASSUME ChainInv, NEW r \in Replicas, NEW id \in Drafts, Promote(r, id)
    PROVE  ChainInv' /\ Trail' = Trail /\ anchor' = anchor
<1> DEFINE b == drafts[id]
           c == Call("promote", b, id)
<1>1. /\ anchor[r] # None /\ b # None
      /\ Verdict(anchor[r], docs[b.doc], b.sigs) = "ok"
      /\ pc' = [pc EXCEPT ![r] = c]
      /\ UNCHANGED <<docs, head, served, drafts, anchor, etag, approved>>
  BY DEF Promote, Idles
<1>2. b \in Keyring /\ b.doc \in 1..Len(docs) /\ BodyOK(docs[b.doc])
  BY <1>1 DEF ChainInv, DraftOK, DocsOK
<1>3. /\ docs[b.doc].rev = Trusted(r).rev + 1 /\ docs[b.doc].prev = anchor[r].hash
      /\ Consented(Trusted(r), docs[b.doc], b.sigs)
  BY <1>1, <1>2, TrustedIs, VerdictConsents
<1>4. PutOK(docs, anchor[r], b)
  BY <1>1, <1>3, TrustedIs DEF PutOK, Trusted
<1>5. c \in CallType /\ c.op = "promote" /\ c.b = b /\ c.id = id
  BY <1>2 DEF CallType, Call
<1> HIDE DEF c
<1>6. ChainCallOK(docs, served, approved', anchor[r], c, r)
  BY <1>1, <1>2, <1>4, <1>5 DEF ChainCallOK
<1> QED BY <1>1, <1>6, CallMoves DEF ChainInv

LEMMA PromoteRecordKeeps ==
    ASSUME ChainInv, NEW r \in Replicas, PromoteRecord(r)
    PROVE  ChainInv' /\ Trail' = Trail /\ anchor' = anchor
<1> DEFINE c == [pc[r] EXCEPT !.op = "tidy"]
<1>1. ChainCallOK(docs, served, approved, anchor[r], pc[r], r) /\ pc[r].op = "record"
  BY DEF ChainInv, PromoteRecord
<1>2. c \in CallType /\ c.op = "tidy" /\ c.b = pc[r].b /\ c.id = pc[r].id
  BY <1>1 DEF ChainCallOK, CallType
<1>3. pc' = [pc EXCEPT ![r] = c] /\ UNCHANGED <<docs, head, served, drafts, anchor, etag, approved>>
  BY DEF PromoteRecord
<1> HIDE DEF c
<1>4. ChainCallOK(docs, served, approved', anchor[r], c, r)
  BY <1>1, <1>2, <1>3 DEF ChainCallOK
<1> QED BY <1>3, <1>4, CallMoves DEF ChainInv

LEMMA PromoteTidyKeeps ==
    ASSUME ChainInv, NEW r \in Replicas, PromoteTidy(r)
    PROVE  ChainInv' /\ Trail' = Trail /\ anchor' = anchor
<1>1. /\ drafts' = [drafts EXCEPT ![pc[r].id] = None] /\ pc' = [pc EXCEPT ![r] = Idle]
      /\ UNCHANGED <<docs, head, served, anchor, etag, approved>>
  BY DEF PromoteTidy
<1>2. /\ drafts' = [i \in Drafts |-> drafts'[i]]
      /\ \A i \in Drafts : drafts'[i] = drafts[i] \/ DraftOK(docs, approved', drafts'[i])
  BY <1>1 DEF ChainInv, DraftOK
<1>3. ChainCallOK(docs, served, approved', anchor[r], Idle, r)
  BY IdleOK
<1> QED BY <1>1, <1>2, <1>3, CallMoves

LEMMA ProposeKeeps ==
    ASSUME ChainInv, NEW r \in Replicas, NEW id \in Drafts, Propose(r, id)
    PROVE  ChainInv' /\ Trail' = Trail /\ anchor' = anchor
<1>1. anchor[r] # None /\ r \in Members(Trusted(r))
  BY DEF Propose, Idles, RoleOf, Members
<1>2. PICK e \in Drafted(r) :
        /\ Writes(r, e)
        /\ drafts' = [drafts EXCEPT ![id] = Signed(HashOf(e), {KeyOf(r)})]
        /\ approved' = approved \cup {<<r, HashOf(e)>>}
  BY DEF Propose
<1>3. UNCHANGED <<head, served, rev, anchor, etag, pc>>
  BY DEF Propose
<1>4. BodyOK(e)
  BY <1>1, TrustedIs, DraftedOK
<1>5. KeyOf(r) \in {r, NewKey}
  BY <1>1, TrustedIs, AuthorKey
<1>6. /\ Moved /\ Trail' = Trail
      /\ HashOf(e) \in 1..Len(docs') /\ docs'[HashOf(e)] = e /\ Len(docs') \in Nat
  BY <1>2, <1>3, <1>4, WritingMoves
<1> DEFINE x == Signed(HashOf(e), {KeyOf(r)})
<1>7. x \in Keyring /\ x.doc = HashOf(e) /\ x.sigs = {KeyOf(r)}
  BY <1>5, <1>6 DEF Keyring, Signed, Key, Person
<1>8. drafts' = [drafts EXCEPT ![id] = x]
  BY <1>2
<1> HIDE DEF x
<1>9. DraftOK(docs', approved', x)
  BY <1>2, <1>5, <1>6, <1>7, ChainAssumption DEF DraftOK
<1>10. /\ drafts' = [i \in Drafts |-> drafts'[i]]
       /\ \A i \in Drafts : drafts'[i] = drafts[i] \/ DraftOK(docs', approved', drafts'[i])
  BY <1>8, <1>9 DEF ChainInv
<1>11. ReplicasStay(r)
  BY <1>3 DEF ReplicasStay, ChainInv
<1>12. /\ TrustOK(docs', Trail', anchor'[r], etag'[r])
       /\ ChainCallOK(docs', served', approved', anchor'[r], pc'[r], r)
  BY <1>3, <1>6, Carried
<1>13. /\ \A b \in served' : b \in served
       /\ head' = None => head = None /\ anchor'[r] = None
  BY <1>3 DEF ChainInv
<1>14. ChainInv'
  BY <1>3, <1>6, <1>10, <1>11, <1>12, <1>13, ChainStepKeeps
<1> QED BY <1>3, <1>6, <1>14

LEMMA AnchorIsTrust ==
    ASSUME NEW d, BodyOK(d), NEW h \in Nat
    PROVE  Anchor(d, h) # None /\ Anchor(d, h).hash = h /\ Anchor(d, h).rev = d.rev
<1>1. Anchor(d, h) \in Trust
  BY DEF Anchor, Trust, BodyOK, Body, SignersOf
<1> QED BY <1>1, ChainAssumption DEF Anchor

\* What a step does to the register: nothing, or one replica adds to it, moves up or forgets.
Stayed == Trail' = Trail /\ anchor' = anchor
Added(r, b) ==
  /\ Trail' = Append(Trail, b) /\ anchor' = [anchor EXCEPT ![r] = Anchor(docs[b], b)]
  /\ b \in 1..Len(docs) /\ \A n \in DOMAIN Trail : Trail[n] # b
  /\ IF Trail = <<>> THEN anchor[r] = None
     ELSE anchor[r] # None /\ anchor[r].hash = Trail[Len(Trail)] /\ Len(Trail) \in DOMAIN Trail
Followed(r, b) ==
  /\ Trail' = Trail /\ anchor' = [anchor EXCEPT ![r] = Anchor(docs[b], b)]
  /\ b \in 1..Len(docs)
  /\ \E n \in 1..Len(Trail) :
       Trail[n] = b /\ \A k \in n..Len(Trail) :
                          Trail[k] \in Nat /\ (anchor[r] # None => Trail[k] # anchor[r].hash)
Forgot(r) == Trail' = Trail /\ anchor[r] # None /\ anchor' = [anchor EXCEPT ![r] = None]

\* The store takes the head: it stands on the last one, with the consent that takes.
LEMMA AdvanceKeeps ==
    ASSUME ChainInv, NEW r \in Replicas, pc[r].op \in {"head", "promote"}, CasWins(r), Advance(r),
           docs' = docs, drafts' = drafts, approved' = approved, NEW c, pc' = [pc EXCEPT ![r] = c],
           c = Idle \/ (c = [pc[r] EXCEPT !.op = "record"] /\ pc[r].op = "promote")
    PROVE  ChainInv' /\ Added(r, pc[r].b.doc) /\ HeadConsented
<1> DEFINE b == pc[r].b
           a == Anchor(docs[b.doc], b.doc)
<1>1. /\ head' = b /\ served' = served \cup {b} /\ etag' = [etag EXCEPT ![r] = b]
      /\ anchor' = [anchor EXCEPT ![r] = a]
  BY DEF Advance
<1>2. /\ Trail' = Append(Trail, b.doc)
      /\ HeadOK(docs', Trail', head') /\ Longer(Trail, Trail') /\ head' # None
      /\ OnTrail(docs', Trail', b)
      /\ docs[b.doc].rev = Len(Trail) + 1 /\ Len(Trail) \in Nat
      /\ b.doc \in 1..Len(docs)
      /\ head # None => /\ anchor[r] # None /\ anchor[r].hash = head.doc
                        /\ Trail[Len(Trail)] = head.doc
                        /\ Consented(docs[head.doc], docs[b.doc], b.sigs)
      /\ head = None => Trail = <<>>
  BY <1>1, TrailGrows
<1>3. BodyOK(docs[b.doc]) /\ b.doc \in Nat /\ Len(docs) \in Nat
  BY <1>2 DEF ChainInv, DocsOK
<1>4. a # None
  BY <1>3, AnchorIsTrust
<1>5. ChainCallOK(docs, served, approved, anchor[r], pc[r], r)
  BY DEF ChainInv
<1>6. Moved
  <2>1. DocsOK(docs') /\ Extends(docs, docs')
    BY DEF ChainInv, DocsOK, Extends
  <2> QED BY <1>1, <1>2, <2>1 DEF Moved
<1>7. ChainCallOK(docs', served', approved', a, c, r)
  <2>1. CASE c = Idle
    BY <2>1, IdleOK
  <2>2. CASE c = [pc[r] EXCEPT !.op = "record"] /\ pc[r].op = "promote"
    <3>1. c \in CallType /\ c.op = "record" /\ c.b = b /\ c.id = pc[r].id
      BY <1>5, <2>2 DEF ChainCallOK, CallType
    <3> QED BY <1>5, <2>2, <3>1 DEF ChainCallOK
  <2> QED BY <2>1, <2>2
<1> HIDE DEF a
<1>8. ReplicasStay(r) /\ anchor'[r] = a /\ etag'[r] = b /\ pc'[r] = c
  BY <1>1 DEF ReplicasStay, ChainInv
<1>9. TrustOK(docs', Trail', a, b)
  BY <1>2, <1>4 DEF TrustOK, a
<1>10. /\ \A x \in served' : x \in served \/ OnTrail(docs', Trail', x)
       /\ drafts' = [id \in Drafts |-> drafts'[id]] /\ \A id \in Drafts : drafts'[id] = drafts[id]
  BY <1>1, <1>2 DEF ChainInv
<1>11. ChainInv'
  BY <1>2, <1>6, <1>7, <1>8, <1>9, <1>10, ChainStepKeeps
<1>12. Added(r, b.doc)
  <2>1. CASE head = None
    <3>1. Trail = <<>> /\ anchor[r] = None /\ DOMAIN Trail = {}
      BY <1>2, <2>1 DEF ChainInv
    <3> QED BY <1>1, <1>2, <3>1 DEF Added, a
  <2>2. CASE head # None
    <3>1. Linked(docs, head.doc, Trail)
      BY <2>2 DEF ChainInv, HeadOK
    <3>2. DOMAIN Trail = 1..Len(Trail) /\ Len(Trail) \in DOMAIN Trail /\ Trail # <<>>
      BY <1>2, <3>1 DEF Linked
    <3>3. \A n \in DOMAIN Trail : docs[Trail[n]].rev = n /\ n # Len(Trail) + 1
      BY <1>2, <3>1, <3>2 DEF Linked
    <3>4. \A n \in DOMAIN Trail : Trail[n] # b.doc
      BY <1>2, <3>3
    <3> QED BY <1>1, <1>2, <2>2, <3>2, <3>4 DEF Added, a
  <2> QED BY <2>1, <2>2
<1>13. HeadConsented
  BY <1>1, <1>2 DEF HeadConsented
<1> QED BY <1>11, <1>12, <1>13

LEMMA PutHeadKeeps ==
    ASSUME ChainInv, NEW r \in Replicas, PutHead(r)
    PROVE  ChainInv' /\ (Stayed \/ Added(r, pc[r].b.doc)) /\ HeadConsented
<1>1. /\ pc[r].op = "head" /\ docs' = docs /\ drafts' = drafts /\ approved' = approved
      /\ pc' = [pc EXCEPT ![r] = Idle]
  BY DEF PutHead
<1>2. CASE CasWins(r)
  <2>1. Advance(r)
    BY <1>2 DEF PutHead
  <2>2. PICK c : c = Idle /\ pc' = [pc EXCEPT ![r] = c]
    BY <1>1
  <2> QED BY <1>1, <1>2, <2>1, <2>2, AdvanceKeeps
<1>3. CASE ~CasWins(r)
  <2>1. UNCHANGED <<head, served, etag, anchor>>
    BY <1>3 DEF PutHead
  <2>2. ChainCallOK(docs, served, approved', anchor[r], Idle, r)
    BY IdleOK
  <2>3. ChainInv' /\ Trail' = Trail /\ anchor' = anchor
    BY <1>1, <2>1, <2>2, CallMoves DEF ChainInv
  <2> QED BY <2>1, <2>3 DEF Stayed, HeadConsented
<1> QED BY <1>2, <1>3

LEMMA PromoteHeadKeeps ==
    ASSUME ChainInv, NEW r \in Replicas, PromoteHead(r)
    PROVE  ChainInv' /\ (Stayed \/ Added(r, pc[r].b.doc)) /\ HeadConsented
<1>1. pc[r].op = "promote" /\ docs' = docs /\ drafts' = drafts /\ approved' = approved
  BY DEF PromoteHead
<1>2. CASE CasWins(r)
  <2>1. Advance(r) /\ pc' = [pc EXCEPT ![r].op = "record"]
    BY <1>2 DEF PromoteHead
  <2>2. pc' = [pc EXCEPT ![r] = [pc[r] EXCEPT !.op = "record"]]
    BY <2>1
  <2> QED BY <1>1, <1>2, <2>1, <2>2, AdvanceKeeps
<1>3. CASE ~CasWins(r)
  <2>1. UNCHANGED <<head, served, etag, anchor>> /\ pc' = [pc EXCEPT ![r] = Idle]
    BY <1>3 DEF PromoteHead
  <2>2. ChainCallOK(docs, served, approved', anchor[r], Idle, r)
    BY IdleOK
  <2>3. ChainInv' /\ Trail' = Trail /\ anchor' = anchor
    BY <1>1, <2>1, <2>2, CallMoves DEF ChainInv
  <2> QED BY <2>1, <2>3 DEF Stayed, HeadConsented
<1> QED BY <1>2, <1>3

\* A head that was served is adopted: the first sight, a walk's end or a reset.
LEMMA AdoptKeeps ==
    ASSUME ChainInv, NEW r \in Replicas, NEW b \in served,
           anchor' = [anchor EXCEPT ![r] = Anchor(docs[b.doc], b.doc)], etag' = [etag EXCEPT ![r] = b],
           UNCHANGED <<docs, head, served, drafts, approved>>,
           (pc' = pc /\ pc[r].op = "idle") \/ pc' = [pc EXCEPT ![r] = Idle],
           anchor[r] # None => docs[b.doc].rev >= anchor[r].rev
    PROVE  ChainInv' /\ (Stayed \/ Followed(r, b.doc))
<1> DEFINE a == Anchor(docs[b.doc], b.doc)
<1>1. OnTrail(docs, Trail, b) /\ Moved /\ Trail' = Trail /\ OnTrail(docs', Trail', b)
  BY StillMoves, Carried DEF ChainInv
<1>2. /\ b.doc \in 1..Len(docs) /\ Len(docs) \in Nat /\ BodyOK(docs[b.doc]) /\ b.doc \in Nat
      /\ docs[b.doc].rev \in 1..Len(Trail) /\ Trail[docs[b.doc].rev] = b.doc
  BY <1>1 DEF OnTrail, ChainInv, DocsOK
<1>3. a # None /\ a.hash = b.doc
  BY <1>2, AnchorIsTrust
<1>4. head # None
  <2>1. head = None => Trail = <<>>
    BY DEF ChainInv, HeadOK
  <2> QED BY <1>2, <2>1
<1>5. Linked(docs, head.doc, Trail) /\ Len(Trail) \in Nat
  BY <1>4 DEF ChainInv, HeadOK, Linked
<1>6. \A n \in 1..Len(Trail) : Trail[n] \in Nat /\ docs[Trail[n]].rev = n
  BY <1>2, <1>5 DEF Linked
<1>7. ChainCallOK(docs', served', approved', a, pc'[r], r)
  <2>1. CASE pc' = [pc EXCEPT ![r] = Idle]
    BY <2>1, IdleOK DEF ChainInv
  <2>2. CASE pc' = pc /\ pc[r].op = "idle"
    BY <2>2 DEF ChainInv, ChainCallOK
  <2> QED BY <2>1, <2>2
<1> HIDE DEF a
<1>8. ReplicasStay(r) /\ anchor'[r] = a /\ etag'[r] = b
  BY DEF ReplicasStay, ChainInv, a
<1>9. TrustOK(docs', Trail', a, b)
  BY <1>1, <1>3 DEF TrustOK, a
<1>10. /\ \A x \in served' : x \in served
       /\ drafts' = [id \in Drafts |-> drafts'[id]] /\ \A id \in Drafts : drafts'[id] = drafts[id]
  BY DEF ChainInv
<1>11. ChainInv'
  BY <1>1, <1>4, <1>7, <1>8, <1>9, <1>10, ChainStepKeeps
<1>12. CASE anchor[r] = None
  <2>1. Followed(r, b.doc)
    BY <1>1, <1>2, <1>6, <1>12 DEF Followed
  <2> QED BY <1>11, <2>1
<1>13. CASE anchor[r] # None /\ docs[b.doc].rev > anchor[r].rev
  <2>1. \A k \in docs[b.doc].rev..Len(Trail) : Trail[k] # anchor[r].hash
    <3>1. docs[anchor[r].hash].rev = anchor[r].rev /\ anchor[r].rev \in Nat
      BY <1>13, TrustedIs DEF Trusted
    <3>2. \A k \in docs[b.doc].rev..Len(Trail) : k \in 1..Len(Trail) /\ k # anchor[r].rev
      BY <1>2, <1>5, <1>13, <3>1
    <3> QED BY <1>6, <3>1, <3>2
  <2>2. \A k \in docs[b.doc].rev..Len(Trail) : k \in 1..Len(Trail)
    BY <1>2, <1>5
  <2>3. Followed(r, b.doc)
    BY <1>1, <1>2, <1>6, <2>1, <2>2 DEF Followed
  <2> QED BY <1>11, <2>3
<1>14. CASE anchor[r] # None /\ docs[b.doc].rev = anchor[r].rev
  <2>1. anchor[r] = Anchor(docs[anchor[r].hash], anchor[r].hash) /\ anchor[r].hash = b.doc
    BY <1>2, <1>14, TrustedIs DEF Trusted
  <2>2. anchor' = anchor
    BY <2>1 DEF ChainInv
  <2> QED BY <1>1, <1>11, <2>2 DEF Stayed
<1>15. anchor[r] # None => docs[b.doc].rev \in Nat /\ anchor[r].rev \in Nat
  BY <1>2, TrustedIs DEF BodyOK, Body
<1> QED BY <1>12, <1>13, <1>14, <1>15

LEMMA PullKeeps ==
    ASSUME ChainInv, NEW r \in Replicas, Pull(r)
    PROVE  ChainInv' /\ (Stayed \/ \E b \in served : Followed(r, b.doc))
<1>1. pc[r].op = "idle" /\ UNCHANGED <<docs, head, served, rev, drafts, approved>>
  BY DEF Pull
<1>2. PICK b \in served : Bootstrap(r, b) \/ SameRevision(r, b) \/ Ahead(r, b)
  BY DEF Pull
<1>3. CASE Bootstrap(r, b)
  BY <1>1, <1>3, AdoptKeeps DEF Bootstrap, Adopt
<1>4. CASE SameRevision(r, b)
  <2>1. /\ anchor[r] # None /\ b.doc = anchor[r].hash /\ etag' = [etag EXCEPT ![r] = b]
        /\ UNCHANGED <<anchor, pc>>
    BY <1>4 DEF SameRevision
  <2>2. Moved /\ Trail' = Trail
    BY <1>1, StillMoves
  <2>3. OnTrail(docs', Trail', b) /\ TrustOK(docs', Trail', anchor[r], etag[r])
    BY <2>2, Carried
  <2>4. etag[r].doc = anchor[r].hash
    BY <2>1, TrustedIs
  <2>5. TrustOK(docs', Trail', anchor'[r], b)
    BY <2>1, <2>3, <2>4 DEF TrustOK
  <2>6. ChainCallOK(docs', served', approved', anchor'[r], pc'[r], r)
    BY <2>1, <2>2, Carried
  <2>7. ReplicasStay(r) /\ etag'[r] = b
    BY <2>1 DEF ReplicasStay, ChainInv
  <2>8. /\ \A x \in served' : x \in served
        /\ head' = None => head = None /\ anchor'[r] = None
        /\ drafts' = [id \in Drafts |-> drafts'[id]] /\ \A id \in Drafts : drafts'[id] = drafts[id]
    BY <1>1, <2>1 DEF ChainInv
  <2>9. ChainInv'
    BY <2>2, <2>5, <2>6, <2>7, <2>8, ChainStepKeeps
  <2> QED BY <2>1, <2>2, <2>9 DEF Stayed
<1>5. CASE Ahead(r, b)
  <2> DEFINE c == Call("walk", b, None)
  <2>1. /\ anchor[r] # None /\ docs[b.doc].rev > anchor[r].rev /\ pc' = [pc EXCEPT ![r] = c]
        /\ UNCHANGED <<anchor, etag>>
    BY <1>5 DEF Ahead
  <2>2. b \in Keyring /\ b.doc \in 1..Len(docs)
    BY DEF ChainInv, OnTrail
  <2>3. c \in CallType /\ c.op = "walk" /\ c.b = b
    BY <2>2 DEF CallType, Call
  <2> HIDE DEF c
  <2>4. ChainCallOK(docs, served, approved', anchor[r], c, r)
    BY <2>1, <2>2, <2>3 DEF ChainCallOK
  <2>5. ChainInv' /\ Trail' = Trail /\ anchor' = anchor
    BY <1>1, <2>1, <2>4, CallMoves DEF ChainInv
  <2> QED BY <2>5 DEF Stayed
<1> QED BY <1>2, <1>3, <1>4, <1>5

LEMMA WalkUpKeeps ==
    ASSUME ChainInv, NEW r \in Replicas, WalkUp(r)
    PROVE  ChainInv' /\ (Stayed \/ \E b \in served : Followed(r, b.doc))
<1>1. /\ pc[r].op = "walk" /\ pc' = [pc EXCEPT ![r] = Idle]
      /\ UNCHANGED <<docs, head, served, rev, drafts, approved>>
  BY DEF WalkUp
<1>2. /\ anchor[r] # None /\ pc[r].b \in served /\ docs[pc[r].b.doc].rev > anchor[r].rev
      /\ docs[pc[r].b.doc].rev >= anchor[r].rev
  <2>1. anchor[r] # None /\ pc[r].b \in served /\ docs[pc[r].b.doc].rev > anchor[r].rev
    BY <1>1 DEF ChainInv, ChainCallOK
  <2>2. docs[pc[r].b.doc].rev \in Nat
    BY <2>1 DEF ChainInv, OnTrail, DocsOK, BodyOK, Body
  <2> QED BY <2>1, <2>2, TrustedIs
<1>3. UNCHANGED <<anchor, etag>> \/ Adopt(r, pc[r].b, Anchor(docs[pc[r].b.doc], pc[r].b.doc))
  BY DEF WalkUp
<1>4. CASE UNCHANGED <<anchor, etag>>
  <2>1. ChainCallOK(docs, served, approved', anchor[r], Idle, r)
    BY IdleOK
  <2>2. ChainInv' /\ Trail' = Trail /\ anchor' = anchor
    BY <1>1, <1>4, <2>1, CallMoves DEF ChainInv
  <2> QED BY <2>2 DEF Stayed
<1>5. CASE Adopt(r, pc[r].b, Anchor(docs[pc[r].b.doc], pc[r].b.doc))
  BY <1>1, <1>2, <1>5, AdoptKeeps DEF Adopt
<1> QED BY <1>3, <1>4, <1>5

LEMMA AcceptResetKeeps ==
    ASSUME ChainInv, NEW r \in Replicas, AcceptReset(r)
    PROVE  ChainInv' /\ (Stayed \/ \E b \in served : Followed(r, b.doc))
<1>1. pc[r].op = "idle" /\ UNCHANGED <<docs, head, served, rev, drafts, pc, approved>>
  BY DEF AcceptReset, Idles
<1>2. PICK b \in served : /\ docs[b.doc].rev >= anchor[r].rev
                          /\ Adopt(r, b, Anchor(docs[b.doc], b.doc))
  BY DEF AcceptReset
<1> QED BY <1>1, <1>2, AdoptKeeps DEF Adopt

LEMMA ReopenKeeps ==
    ASSUME ChainInv, NEW r \in Replicas, Reopen(r)
    PROVE  ChainInv' /\ Forgot(r)
<1>1. /\ anchor[r] # None /\ anchor' = [anchor EXCEPT ![r] = None]
      /\ etag' = [etag EXCEPT ![r] = None] /\ pc' = [pc EXCEPT ![r] = Idle]
      /\ UNCHANGED <<docs, head, served, rev, drafts, approved>>
  BY DEF Reopen
<1>2. Moved /\ Trail' = Trail
  BY <1>1, StillMoves
<1>3. ReplicasStay(r) /\ anchor'[r] = None /\ etag'[r] = None /\ pc'[r] = Idle
  BY <1>1 DEF ReplicasStay, ChainInv
<1>4. /\ TrustOK(docs', Trail', anchor'[r], etag'[r])
      /\ ChainCallOK(docs', served', approved', anchor'[r], pc'[r], r)
  BY <1>3, IdleOK DEF TrustOK
<1>5. /\ \A x \in served' : x \in served
      /\ head' = None => head = None /\ anchor'[r] = None
      /\ drafts' = [id \in Drafts |-> drafts'[id]] /\ \A id \in Drafts : drafts'[id] = drafts[id]
  BY <1>1, <1>3 DEF ChainInv
<1>6. ChainInv'
  BY <1>2, <1>3, <1>4, <1>5, ChainStepKeeps
<1> QED BY <1>1, <1>2, <1>6 DEF Forgot

-----------------------------------------------------------------------------
(* The theorems.                                                           *)

LEMMA InitInv == ChainInit => ChainInv
<1> SUFFICES ASSUME ChainInit PROVE ChainInv
  OBVIOUS
<1>1. PICK g \in Rules : docs = <<Genesis(g)>>
  BY DEF ChainInit
<1>2. /\ head = None /\ served = {} /\ approved = {<<Founder, 1>>}
      /\ drafts = [i \in Drafts |-> None] /\ anchor = [r \in Replicas |-> None]
      /\ etag = [r \in Replicas |-> None]
      /\ pc = [r \in Replicas |-> IF r = Founder THEN Call("history", Signed(1, {Founder}), None) ELSE Idle]
  BY DEF ChainInit
<1> DEFINE f == [id |-> Founder, role |-> Owner, key |-> Founder]
           co == {[id |-> c, role |-> CoOwner, key |-> c] : c \in CoOwners}
           d == Genesis(g)
<1>3. d.rev = 1 /\ d.roster = {f} \cup co
  BY DEF Genesis
<1>4. BodyOK(d)
  <2>1. <<Replicas>> \in Seq(SUBSET Person) /\ {f} \cup co \in SUBSET Member
    BY DEF Member, Person, Key, Replicas, Owner, CoOwner
  <2>2. d \in Body
    <3> HIDE DEF f, co
    <3>1. d = [rev |-> 1, prev |-> 0, gov |-> g, rvk |-> Rvk, shared |-> 1, epochs |-> <<Replicas>>,
               roster |-> {f} \cup co]
      BY DEF Genesis, f, co
    <3> QED BY <2>1, <3>1 DEF Body
  <2>3. IsFiniteSet({f} \cup co)
    <3> DEFINE k == [c \in CoOwners |-> [id |-> c, role |-> CoOwner, key |-> c]]
    <3>1. k \in Surjection(CoOwners, co)
      <4>1. k \in [CoOwners -> co] /\ \A x \in co : \E c \in CoOwners : k[c] = x
        OBVIOUS
      <4> QED BY <4>1 DEF Surjection
    <3>2. IsFiniteSet(co)
      <4> HIDE DEF co, k
      <4> QED BY <3>1, FS_Surjection, ChainAssumption
    <3>3. IsFiniteSet(co \cup {f})
      <4> HIDE DEF co, f
      <4> QED BY <3>2, FS_AddElement
    <3>4. co \cup {f} = {f} \cup co
      OBVIOUS
    <3> QED BY <3>3, <3>4
  <2>4. /\ \A m, n \in {f} \cup co : m.id = n.id => m = n
        /\ \A m \in {f} \cup co : (IsFounder(m) <=> m.id = Founder) /\ m.key \in {m.id, NewKey}
        /\ IsFounder(f)
    BY ChainAssumption DEF IsFounder, Owner, CoOwner
  <2> HIDE DEF d, f, co
  <2> QED BY <1>3, <2>2, <2>3, <2>4 DEF BodyOK
<1>5. DocsOK(docs) /\ Len(docs) = 1 /\ docs[1] = d
  <2> HIDE DEF d
  <2>1. docs = <<d>> /\ d \in Body
    BY <1>1, <1>4 DEF d, BodyOK
  <2>2. docs \in Seq(Body) /\ Len(docs) = 1 /\ docs[1] = d
    BY <2>1
  <2> QED BY <1>4, <2>2, ChainAssumption DEF DocsOK
<1>6. HeadOK(docs, Trail, head)
  BY <1>2 DEF HeadOK, Trail
<1>7. ASSUME NEW r \in Replicas
      PROVE  /\ TrustOK(docs, Trail, anchor[r], etag[r])
             /\ ChainCallOK(docs, served, approved, anchor[r], pc[r], r)
  <2>1. TrustOK(docs, Trail, anchor[r], etag[r])
    BY <1>2, <1>7 DEF TrustOK
  <2>2. CASE r # Founder
    <3>1. pc[r] = Idle
      BY <1>2, <1>7, <2>2
    <3> QED BY <2>1, <3>1, IdleOK
  <2>3. CASE r = Founder
    <3> DEFINE c == Call("history", Signed(1, {Founder}), None)
    <3>1. c \in CallType /\ c.op = "history" /\ c.b \in Keyring /\ c.b.doc = 1
      BY DEF CallType, Call, Signed, Keyring, Key, Person, Replicas
    <3>2. pc[r] = c /\ anchor[r] = None
      BY <1>2, <1>7, <2>3
    <3> HIDE DEF c
    <3> QED BY <1>3, <1>5, <2>1, <3>1, <3>2 DEF ChainCallOK, PutOK
  <2> QED BY <2>2, <2>3
<1>8. \A id \in Drafts : DraftOK(docs, approved, drafts[id])
  BY <1>2 DEF DraftOK
<1> QED BY <1>2, <1>5, <1>6, <1>7, <1>8 DEF ChainInv

\* What each step of a replica does to the register and to the head.
LEMMA ReplicaStep ==
    ASSUME ChainInv, NEW r \in Replicas, Writing(r) \/ Reading(r) \/ Drafting(r)
    PROVE  /\ ChainInv' /\ HeadConsented
           /\ Stayed \/ Forgot(r) \/ \E b \in 1..Len(docs) : Added(r, b) \/ Followed(r, b)
<1>1. CASE Writing(r)
  <2>1. CASE Publish(r)
    BY <2>1, PublishKeeps DEF Publish, Stayed, HeadConsented
  <2>2. CASE PublishReset(r)
    BY <2>2, PublishResetKeeps DEF PublishReset, Stayed, HeadConsented
  <2>3. CASE PutHistory(r)
    BY <2>3, PutHistoryKeeps DEF PutHistory, Stayed, HeadConsented
  <2>4. CASE PutHead(r)
    BY <2>4, PutHeadKeeps DEF Added
  <2> QED BY <1>1, <2>1, <2>2, <2>3, <2>4 DEF Writing
<1>2. CASE Reading(r)
  <2>1. CASE Pull(r)
    BY <2>1, PullKeeps DEF Pull, Followed, HeadConsented
  <2>2. CASE WalkUp(r)
    BY <2>2, WalkUpKeeps DEF WalkUp, Followed, HeadConsented
  <2>3. CASE AcceptReset(r)
    BY <2>3, AcceptResetKeeps DEF AcceptReset, Followed, HeadConsented
  <2>4. CASE Reopen(r)
    BY <2>4, ReopenKeeps DEF Reopen, HeadConsented
  <2> QED BY <1>2, <2>1, <2>2, <2>3, <2>4 DEF Reading
<1>3. CASE Drafting(r)
  <2>1. ASSUME NEW id \in Drafts, Propose(r, id)
        PROVE  ChainInv' /\ HeadConsented /\ Stayed
    BY <2>1, ProposeKeeps DEF Propose, Stayed, HeadConsented
  <2>2. ASSUME NEW id \in Drafts, Review(r, id)
        PROVE  ChainInv' /\ HeadConsented /\ Stayed
    BY <2>2, ReviewKeeps DEF Review, Stayed, HeadConsented
  <2>3. ASSUME NEW id \in Drafts, Promote(r, id)
        PROVE  ChainInv' /\ HeadConsented /\ Stayed
    BY <2>3, PromoteKeeps DEF Promote, Stayed, HeadConsented
  <2>4. CASE Countersign(r)
    BY <2>4, CountersignKeeps DEF Countersign, Stayed, HeadConsented
  <2>5. CASE AppendSignature(r)
    BY <2>5, AppendSignatureKeeps DEF AppendSignature, Stayed, HeadConsented
  <2>6. CASE PromoteHead(r)
    BY <2>6, PromoteHeadKeeps DEF Added
  <2>7. CASE PromoteRecord(r)
    BY <2>7, PromoteRecordKeeps DEF PromoteRecord, Stayed, HeadConsented
  <2>8. CASE PromoteTidy(r)
    BY <2>8, PromoteTidyKeeps DEF PromoteTidy, Stayed, HeadConsented
  <2> QED BY <1>3, <2>1, <2>2, <2>3, <2>4, <2>5, <2>6, <2>7, <2>8 DEF Drafting
<1> QED BY <1>1, <1>2, <1>3

LEMMA StutterKeeps ==
    ASSUME ChainInv, UNCHANGED vars
    PROVE  ChainInv' /\ Stayed
<1>1. /\ UNCHANGED <<docs, head, served, rev, drafts, anchor, etag, pc, approved>>
  BY DEF vars
<1>2. Trail' = Trail
  BY <1>1 DEF Trail
<1> QED BY <1>1, <1>2 DEF ChainInv, Stayed

LEMMA ChainStep == ChainInv /\ [ChainNext]_vars => ChainInv' /\ [HeadConsented]_head
  BY ReplicaStep, StutterKeeps DEF ChainNext, vars

\* No draft carries the signature of a replica that neither wrote nor reviewed it, although
\* its id may have been freed and claimed again in between (blob_sync.rs: countersign).
THEOREM DraftsAreReviewed == ChainSpec => []SignedIsReviewed
<1>1. ChainInv => SignedIsReviewed
  BY DEF ChainInv, DraftOK, SignedIsReviewed
<1>2. ChainInv /\ [ChainNext]_vars => ChainInv'
  BY ChainStep
<1> QED BY <1>1, <1>2, InitInv, PTL DEF ChainSpec

\* A head changes signers or rule only by the consent of those it replaces, whether it was
\* published, promoted from a draft or signed by the recovery authority
\* (chain.rs: verify_transition; vault.rs: the flows).
THEOREM MovesAreConsented == ChainSpec => ConsentedMove
<1>1. ChainInv /\ [ChainNext]_vars => ChainInv'
  BY ChainStep
<1>2. ChainInv /\ [ChainNext]_vars => [HeadConsented]_head
  BY ChainStep
<1> QED BY <1>1, <1>2, InitInv, PTL DEF ChainSpec, ConsentedMove

-----------------------------------------------------------------------------
(* The register.                                                           *)

TrustOf == [r \in Replicas |-> IF anchor[r] = None THEN None ELSE anchor[r].hash]

LEMMA TrustMoves ==
    ASSUME ChainInv, NEW r \in Replicas, NEW a, anchor' = [anchor EXCEPT ![r] = a]
    PROVE  TrustOf' = [TrustOf EXCEPT ![r] = IF a = None THEN None ELSE a.hash]
<1>1. \A q \in Replicas : anchor'[q] = IF q = r THEN a ELSE anchor[q]
  BY DEF ChainInv
<1> DEFINE v == IF a = None THEN None ELSE a.hash
<1>2. \A q \in Replicas : TrustOf'[q] = IF q = r THEN v ELSE TrustOf[q]
  BY <1>1 DEF TrustOf
<1>3. TrustOf = [q \in Replicas |-> TrustOf[q]] /\ TrustOf' = [q \in Replicas |-> TrustOf'[q]]
  BY DEF TrustOf
<1> HIDE DEF v
<1>4. TrustOf' = [TrustOf EXCEPT ![r] = v]
  BY <1>2, <1>3
<1> QED BY <1>4 DEF v

LEMMA StayedIsStutter ==
    ASSUME Stayed
    PROVE  UNCHANGED <<Trail, TrustOf>>
  BY DEF Stayed, TrustOf

LEMMA AddedIsExtend ==
    ASSUME ChainInv, NEW r \in Replicas, NEW b, Added(r, b)
    PROVE  b \in 1..MaxDocs /\ Register!Extend(r, b) /\ TrustOf'[r] # TrustOf[r]
<1>1. /\ Trail' = Append(Trail, b) /\ anchor' = [anchor EXCEPT ![r] = Anchor(docs[b], b)]
      /\ b \in 1..Len(docs) /\ \A n \in DOMAIN Trail : Trail[n] # b
      /\ IF Trail = <<>> THEN anchor[r] = None
         ELSE anchor[r] # None /\ anchor[r].hash = Trail[Len(Trail)] /\ Len(Trail) \in DOMAIN Trail
  BY DEF Added
<1>2. b \in 1..MaxDocs /\ b \in Nat /\ BodyOK(docs[b])
  BY <1>1, ChainAssumption DEF ChainInv, DocsOK
<1>3. TrustOf' = [TrustOf EXCEPT ![r] = b] /\ TrustOf'[r] = b
  <2>1. PICK a : /\ anchor' = [anchor EXCEPT ![r] = a]
                 /\ a # None /\ a.hash = b
    BY <1>1, <1>2, AnchorIsTrust
  <2>2. TrustOf' = [TrustOf EXCEPT ![r] = b]
    BY <2>1, TrustMoves
  <2> QED BY <2>2 DEF TrustOf
<1>4. Trail # <<>> => TrustOf[r] = Trail[Len(Trail)]
  BY <1>1 DEF TrustOf
<1>5. TrustOf[r] # b
  <2>1. CASE Trail = <<>>
    <3>1. TrustOf[r] = None
      BY <1>1, <2>1 DEF TrustOf
    <3> QED BY <1>2, <3>1, ChainAssumption
  <2>2. CASE Trail # <<>>
    BY <1>1, <1>4, <2>2
  <2> QED BY <2>1, <2>2
<1>6. Register!Extend(r, b)
  BY <1>1, <1>3, <1>4 DEF Register!Extend, Register!Trusts, TrustOf
<1> QED BY <1>2, <1>3, <1>5, <1>6

LEMMA FollowedIsFollow ==
    ASSUME ChainInv, NEW r \in Replicas, NEW b, Followed(r, b)
    PROVE  b \in 1..MaxDocs /\ Register!Follow(r, b) /\ TrustOf'[r] # TrustOf[r]
<1>1. /\ Trail' = Trail /\ anchor' = [anchor EXCEPT ![r] = Anchor(docs[b], b)]
      /\ b \in 1..Len(docs)
  BY DEF Followed
<1>2. PICK n \in 1..Len(Trail) :
        Trail[n] = b /\ \A k \in n..Len(Trail) :
                           Trail[k] \in Nat /\ (anchor[r] # None => Trail[k] # anchor[r].hash)
  BY DEF Followed
<1>3. b \in 1..MaxDocs /\ b \in Nat /\ BodyOK(docs[b])
  BY <1>1, ChainAssumption DEF ChainInv, DocsOK
<1>4. TrustOf' = [TrustOf EXCEPT ![r] = b] /\ TrustOf'[r] = b
  <2>1. PICK a : /\ anchor' = [anchor EXCEPT ![r] = a]
                 /\ a # None /\ a.hash = b
    BY <1>1, <1>3, AnchorIsTrust
  <2>2. TrustOf' = [TrustOf EXCEPT ![r] = b]
    BY <2>1, TrustMoves
  <2> QED BY <2>2 DEF TrustOf
<1>5. Trail \in Seq(1..Len(docs)) /\ Len(Trail) \in Nat /\ DOMAIN Trail = 1..Len(Trail)
  BY <1>2 DEF ChainInv, HeadOK, Linked
<1>6. \A k \in n..Len(Trail) : TrustOf[r] # Trail[k]
  BY <1>2, ChainAssumption DEF TrustOf
<1>7. n \in n..Len(Trail) /\ n \in DOMAIN Trail
  BY <1>5
<1>8. Register!Follow(r, b)
  BY <1>1, <1>2, <1>4, <1>6, <1>7 DEF Register!Follow, Register!Trusts, TrustOf
<1> QED BY <1>2, <1>3, <1>4, <1>6, <1>7, <1>8

LEMMA ForgotIsForget ==
    ASSUME ChainInv, NEW r \in Replicas, Forgot(r)
    PROVE  Register!Forget(r) /\ TrustOf'[r] # TrustOf[r]
<1>1. Trail' = Trail /\ anchor[r] # None /\ anchor' = [anchor EXCEPT ![r] = None]
  BY DEF Forgot
<1>2. TrustOf' = [TrustOf EXCEPT ![r] = None] /\ TrustOf'[r] = None
  <2>1. TrustOf' = [TrustOf EXCEPT ![r] = None]
    BY <1>1, TrustMoves
  <2> QED BY <2>1 DEF TrustOf
<1>3. TrustOf[r] \in Nat
  BY <1>1, TrustedIs DEF TrustOf
<1> QED BY <1>1, <1>2, <1>3, ChainAssumption DEF Register!Forget, Register!Trusts, TrustOf

LEMMA RegisterStep ==
    ASSUME ChainInv, [ChainNext]_vars
    PROVE  [Register!RegisterNext]_<<Trail, TrustOf>>
<1>1. CASE UNCHANGED vars
  BY <1>1, StutterKeeps, StayedIsStutter
<1>2. ASSUME NEW r \in Replicas, Writing(r) \/ Reading(r) \/ Drafting(r)
      PROVE  [Register!RegisterNext]_<<Trail, TrustOf>>
  <2>1. Stayed \/ Forgot(r) \/ \E b \in 1..Len(docs) : Added(r, b) \/ Followed(r, b)
    BY <1>2, ReplicaStep
  <2>2. CASE Stayed
    BY <2>2, StayedIsStutter
  <2>3. CASE Forgot(r)
    BY <2>3, ForgotIsForget DEF Register!RegisterNext, TrustOf
  <2>4. ASSUME NEW b, Added(r, b) PROVE Register!RegisterNext
    BY <2>4, AddedIsExtend DEF Register!RegisterNext, TrustOf
  <2>5. ASSUME NEW b, Followed(r, b) PROVE Register!RegisterNext
    BY <2>5, FollowedIsFollow DEF Register!RegisterNext, TrustOf
  <2> QED BY <2>1, <2>2, <2>3, <2>4, <2>5
<1> QED BY <1>1, <1>2 DEF ChainNext

\* The chain over a blob store implements one register: however stale the heads that are
\* read and whatever races are lost, drafts promoted, histories walked and owners reset,
\* what a replica adds goes on top of the last revision, and each moves up the same chain
\* (blob_sync.rs: publish, promote, pull, accept_reset).
THEOREM RegisterIsImplemented == ChainSpec => OneRegister
<1>1. ChainInit => Register!RegisterInit
  BY DEF ChainInit, Register!RegisterInit, Trail
<1>2. ChainInv /\ [ChainNext]_vars => ChainInv'
  BY ChainStep
<1>3. ChainInv /\ [ChainNext]_vars => [Register!RegisterNext]_<<Trail, TrustOf>>
  BY RegisterStep
<1>4. <<Trail, TrustOf>> = <<Trail, [r \in Replicas |-> IF anchor[r] = None THEN None ELSE anchor[r].hash]>>
  BY DEF TrustOf
<1> QED BY <1>1, <1>2, <1>3, <1>4, InitInv, PTL DEF ChainSpec, OneRegister, Register!RegisterSpec, TrustOf

-----------------------------------------------------------------------------
(***************************************************************************)
(* The devices of a shared tree.                                           *)
(***************************************************************************)

(* The line of bodies, of explicit arguments: D the bodies, M their        *)
(* minted epochs.                                                          *)

Folk == {Founding} \cup Guests
Seat == [id : Folk, role : 1..5, key : Folk]
Page == [rev : Nat, prev : Nat, roster : SUBSET Seat, gov : {[kind |-> 0, threshold |-> 0]},
         rvk : {Rvk}, shared : Nat, epochs : Seq(SUBSET Folk)]
Acts(b, m) == \E x \in b.roster : x.id = m /\ x.role <= Maintainer

\* The founder stays, epochs are sealed to members, the newest one to all of them.
PageOK(b) ==
  /\ b \in Page
  /\ \E x \in b.roster : x.id = Founding
  /\ \A x \in b.roster : x.id = Founding <=> x.role = Owner
  /\ b.epochs # <<>> /\ b.epochs[Len(b.epochs)] = Members(b)
  /\ \A i \in 1..Len(b.epochs) : b.epochs[i] \subseteq Members(b)
  /\ b.shared = 0 => Members(b) = {Founding}

\* Either nobody leaves and no epoch is minted, or one is.
Follows(a, b) ==
  \/ Len(b.epochs) = Len(a.epochs) /\ Members(a) \subseteq Members(b)
  \/ Len(b.epochs) = Len(a.epochs) + 1

LineOK(D) ==
  /\ D \in Seq(Page) /\ D # <<>>
  /\ \A h \in 1..Len(D) : PageOK(D[h]) /\ D[h].rev = h /\ D[h].prev = h - 1
  /\ Len(D[1].epochs) = 1
  /\ \A g, h \in 1..Len(D) : g <= h =>
       /\ Len(D[g].epochs) <= Len(D[h].epochs)
       /\ Len(D[g].epochs) = Len(D[h].epochs) => Members(D[g]) \subseteq Members(D[h])

Latest(M, h) == M[h][Len(M[h])]
Opens(D, M, g, p) == {M[g][i] : i \in Reach(D[g], p)}
Mint(D, M, h) ==
  IF h = 1 THEN <<h>>
  ELSE IF Len(D[h].epochs) = Len(M[h - 1]) THEN M[h - 1]
  ELSE Append(M[h - 1], h)
MintsOK(D, M) ==
  /\ M = [h \in 1..Len(D) |-> M[h]]
  /\ \A h \in 1..Len(D) :
       /\ M[h] = Mint(D, M, h)
       /\ M[h] \in Seq(Nat) /\ Len(M[h]) = Len(D[h].epochs)
       /\ \A i \in 1..Len(M[h]) : M[h][i] <= h
  /\ \A g, h \in 1..Len(D) : g <= h /\ Len(M[g]) < Len(M[h]) => g < Latest(M, h)
Grown(D, M, D2, M2) ==
  /\ Len(D) \in Nat /\ Len(D2) \in Nat /\ Len(D) <= Len(D2)
  /\ \A h \in 1..Len(D) : D2[h] = D[h] /\ M2[h] = M[h]

-----------------------------------------------------------------------------
(* What each participant holds.                                            *)

\* Sealed under the newest epoch of the body its author was a member of.
SealOK(D, M, x) ==
  /\ x.by \in Folk /\ x.top \in 0..Len(D)
  /\ x.top # 0 /\ x.by \in Members(D[x.top]) => x.key = Latest(M, x.top)
SnapOK(D, M, s) == s = NoSnap \/ SealOK(D, M, s)
EntryOK(D, M, e) ==
  /\ SealOK(D, M, e) /\ e.ref \in 0..Len(D)
  /\ e.ref # 0 => Acts(D[e.ref], e.by) /\ e.key = Latest(M, e.ref)

ShelfOK(D, k, sh, d) ==
  /\ sh = OnShelf(sh.head, sh.kept)
  /\ sh.head \in 0..Len(D) /\ sh.kept \subseteq 1..Len(D)
  /\ sh.head # 0 => sh.kept # {}
  /\ d \in Owners => sh.head = Len(D) /\ 1..k \subseteq sh.kept
  /\ d \in Guests => sh.head <= k /\ sh.kept \subseteq 1..k
DiskOK(D, M, E, dk) ==
  /\ dk = [mir |-> dk.mir, snap |-> dk.snap]
  /\ dk.mir \subseteq 1..E /\ SnapOK(D, M, dk.snap)

Shaped(c) ==
  c = [open |-> c.open, inst |-> c.inst, top |-> c.top, keys |-> c.keys, wkey |-> c.wkey,
       ref |-> c.ref, eng |-> c.eng, mark |-> c.mark, mir |-> c.mir, snap |-> c.snap,
       refused |-> c.refused, len |-> c.len]

\* The body the owner's session runs on: the last, or the one before until it is swapped.
Current(D, cl) == IF cl.at = "reopen" THEN Len(D) - 1 ELSE Len(D)

\* What an open session seals with.
KeysOK(D, M, c, m) ==
  /\ c.top \in 0..Len(D) /\ c.ref \in 0..Len(D)
  /\ c.ref # 0 => c.top # 0
  /\ c.top # 0 /\ m \in Members(D[c.top]) => c.wkey = Latest(M, c.top)
  /\ c.ref # 0 /\ Acts(D[c.top], m) => Acts(D[c.ref], m) /\ c.wkey = Latest(M, c.ref)
RunsOn(D, M, c, h) ==
  c.top = (IF D[h].shared = 0 THEN 0 ELSE h) /\ c.wkey = Latest(M, h)
SessionOK(D, M, k, E, sh, c, cl, d) ==
  /\ Shaped(c) /\ c.mir \subseteq 1..E /\ SnapOK(D, M, c.snap)
  /\ ~c.open => c.top = 0 /\ cl.at = "idle"
  /\ c.open => /\ sh.head # 0
               /\ KeysOK(D, M, c, Holder(d))
               /\ d \in Guests => c.top <= k
               /\ d \in Owners => RunsOn(D, M, c, Current(D, cl))

\* The call under way: what the owner asked for, and what a tick may count on.
CallOK(D, k, sh, cl, d) ==
  /\ cl = [at |-> cl.at, op |-> cl.op, who |-> cl.who, role |-> cl.role]
  /\ d \in Guests => cl.at \in {"idle", "publish", "data"}
  /\ cl.at \in {"pin", "author"} =>
       /\ cl.op \in {"add", "remove", "promote", "demote"} /\ cl.who \in Guests
       /\ cl.op # "remove" => cl.role \in 2..5
  /\ cl.at = "reopen" =>
       /\ Len(D) > 1
       /\ cl.op \in {"promote", "demote"} =>
            /\ Len(D[Len(D)].epochs) = Len(D[Len(D) - 1].epochs)
            /\ D[Len(D)].shared = D[Len(D) - 1].shared
  /\ cl.at = "data" /\ d \in Owners /\ Len(D) \in sh.kept => k = Len(D)

DeviceOK(D, M, k, E, sh, dk, c, cl, d) ==
  /\ ShelfOK(D, k, sh, d) /\ DiskOK(D, M, E, dk)
  /\ SessionOK(D, M, k, E, sh, c, cl, d) /\ CallOK(D, k, sh, cl, d)

Published(k) == [i \in 1..k |-> i]
TreeInv ==
  /\ LineOK(bodies) /\ MintsOK(bodies, Minted)
  /\ Len(chain) \in 0..Len(bodies) /\ chain = Published(Len(chain))
  /\ Len(entries) \in Nat /\ entries = [i \in 1..Len(entries) |-> entries[i]]
  /\ \A i \in 1..Len(entries) : EntryOK(bodies, Minted, entries[i])
  /\ sent \subseteq 1..Len(entries) /\ SnapOK(bodies, Minted, base)
  /\ shelf = [d \in Devices |-> shelf[d]] /\ disk = [d \in Devices |-> disk[d]]
  /\ core = [d \in Devices |-> core[d]] /\ call = [d \in Devices |-> call[d]]
  /\ \A d \in Devices : DeviceOK(bodies, Minted, Len(chain), Len(entries),
                                 shelf[d], disk[d], core[d], call[d], d)

-----------------------------------------------------------------------------
(* The line and its epochs.                                                *)

\* A line has a first and a last body.
LEMMA LineHas ==
    ASSUME NEW D, LineOK(D)
    PROVE  /\ Len(D) \in Nat /\ 1 <= Len(D) /\ DOMAIN D = 1..Len(D)
           /\ \A h \in 1..Len(D) : D[h] \in Page /\ Len(D[h].epochs) \in Nat /\ 1 <= Len(D[h].epochs)
<1>1. D \in Seq(Page) /\ D # <<>>
  BY DEF LineOK
<1>2. ASSUME NEW h \in 1..Len(D)
      PROVE  D[h] \in Page /\ Len(D[h].epochs) \in Nat /\ 1 <= Len(D[h].epochs)
  <2>1. D[h] \in Page /\ D[h].epochs # <<>>
    BY DEF LineOK, PageOK
  <2>2. D[h].epochs \in Seq(SUBSET Folk)
    BY <2>1 DEF Page
  <2> QED BY <2>1, <2>2
<1> QED BY <1>1, <1>2

\* The epochs of a line are what its recursive definition names.
LEMMA MintedIs ==
    ASSUME NEW D, NEW M, LineOK(D), MintsOK(D, M)
    PROVE  MintedIn(D) = M
<1> DEFINE F(f) == f = [h \in DOMAIN D |->
                         IF D[h].prev = 0 THEN <<h>>
                         ELSE IF Len(D[h].epochs) = Len(f[D[h].prev]) THEN f[D[h].prev]
                         ELSE Append(f[D[h].prev], h)]
<1>1. MintedIn(D) = CHOOSE f : F(f)
  BY DEF MintedIn
<1>2. /\ Len(D) \in Nat /\ DOMAIN D = 1..Len(D)
      /\ \A h \in 1..Len(D) : D[h].prev = h - 1 /\ (h # 1 => h - 1 \in 1..Len(D))
  BY LineHas DEF LineOK
<1>3. \A f : F(f) => \A h \in 1..Len(D) : f[h] = Mint(D, f, h)
  <2> SUFFICES ASSUME NEW f, F(f), NEW h \in 1..Len(D) PROVE f[h] = Mint(D, f, h)
    OBVIOUS
  <2>1. D[h].prev = h - 1 /\ (h - 1 = 0 <=> h = 1) /\ h \in DOMAIN D
    BY <1>2
  <2>2. f[h] = IF D[h].prev = 0 THEN <<h>>
               ELSE IF Len(D[h].epochs) = Len(f[D[h].prev]) THEN f[D[h].prev]
               ELSE Append(f[D[h].prev], h)
    BY <2>1, Zenon
  <2> QED BY <2>1, <2>2 DEF Mint
<1>4. \A f : F(f) => f = [h \in 1..Len(D) |-> f[h]]
  BY <1>2
<1>5. F(M)
  <2>1. \A h \in 1..Len(D) :
          M[h] = IF D[h].prev = 0 THEN <<h>>
                 ELSE IF Len(D[h].epochs) = Len(M[D[h].prev]) THEN M[D[h].prev]
                 ELSE Append(M[D[h].prev], h)
    <3> SUFFICES ASSUME NEW h \in 1..Len(D)
                 PROVE  M[h] = IF D[h].prev = 0 THEN <<h>>
                               ELSE IF Len(D[h].epochs) = Len(M[D[h].prev]) THEN M[D[h].prev]
                               ELSE Append(M[D[h].prev], h)
      OBVIOUS
    <3>1. M[h] = Mint(D, M, h)
      BY DEF MintsOK
    <3>2. D[h].prev = h - 1 /\ (h - 1 = 0 <=> h = 1)
      BY <1>2
    <3> QED BY <3>1, <3>2 DEF Mint
  <2>2. M = [h \in 1..Len(D) |-> M[h]]
    BY DEF MintsOK
  <2> QED BY <1>2, <2>1, <2>2
<1>6. \A f : F(f) => f = M
  <2> SUFFICES ASSUME NEW f, F(f) PROVE f = M
    OBVIOUS
  <2>1. /\ f = [h \in 1..Len(D) |-> f[h]] /\ \A h \in 1..Len(D) : f[h] = Mint(D, f, h)
    BY <1>3, <1>4
  <2>2. /\ M = [h \in 1..Len(D) |-> M[h]] /\ \A h \in 1..Len(D) : M[h] = Mint(D, M, h)
    BY DEF MintsOK
  <2> HIDE DEF F
  <2> DEFINE W == {h \in 1..Len(D) : f[h] # M[h]}
  <2>3. W = {}
    <3> SUFFICES ASSUME W # {} PROVE FALSE
      OBVIOUS
    <3>1. W \in SUBSET Nat
      OBVIOUS
    <3>2. Min(W) \in W /\ \A y \in W : Min(W) <= y
      BY <3>1, MinProperties
    <3>3. PICK h \in 1..Len(D) : f[h] # M[h] /\ \A y \in W : h <= y
      BY <3>2
    <3>4. h # 1 => h - 1 \in 1..Len(D) /\ h - 1 \notin W
      BY <1>2, <3>3
    <3>5. h # 1 => f[h - 1] = M[h - 1]
      BY <3>4
    <3>6. Mint(D, f, h) = Mint(D, M, h)
      BY <3>5 DEF Mint
    <3> QED BY <2>1, <2>2, <3>3, <3>6
  <2>4. \A h \in 1..Len(D) : f[h] = M[h]
    BY <2>3
  <2> QED BY <2>1, <2>2, <2>4
<1> HIDE DEF F
<1> QED BY <1>1, <1>5, <1>6

\* Below a body of a line are the bodies of lower revisions.
LEMMA AncestorsAre ==
    ASSUME NEW D, LineOK(D), NEW h \in 1..Len(D)
    PROVE  AncestorsIn(D)[h] = 1..h
<1> DEFINE A == [g \in 1..Len(D) |-> 1..g]
           F(f) == f = [g \in DOMAIN D |-> {g} \cup (IF D[g].prev = 0 THEN {} ELSE f[D[g].prev])]
           Up(f, g) == {g} \cup (IF g = 1 THEN {} ELSE f[g - 1])
<1>1. AncestorsIn(D) = CHOOSE f : F(f)
  BY DEF AncestorsIn
<1>2. /\ Len(D) \in Nat /\ DOMAIN D = 1..Len(D)
      /\ \A g \in 1..Len(D) : /\ D[g].prev = g - 1 /\ (g - 1 = 0 <=> g = 1)
                              /\ (g # 1 => g - 1 \in 1..Len(D))
  BY LineHas DEF LineOK
<1>3. \A f : F(f) => f = [g \in 1..Len(D) |-> f[g]] /\ \A g \in 1..Len(D) : f[g] = Up(f, g)
  <2> SUFFICES ASSUME NEW f, F(f)
               PROVE  f = [g \in 1..Len(D) |-> f[g]] /\ \A g \in 1..Len(D) : f[g] = Up(f, g)
    OBVIOUS
  <2>1. f = [g \in 1..Len(D) |-> f[g]]
    BY <1>2
  <2>2. ASSUME NEW g \in 1..Len(D) PROVE f[g] = Up(f, g)
    <3>1. f[g] = {g} \cup (IF D[g].prev = 0 THEN {} ELSE f[D[g].prev])
      BY <1>2
    <3> QED BY <1>2, <3>1
  <2> QED BY <2>1, <2>2
<1>4. \A g \in 1..Len(D) : A[g] = Up(A, g)
  <2> SUFFICES ASSUME NEW g \in 1..Len(D) PROVE A[g] = Up(A, g)
    OBVIOUS
  <2>1. A[g] = 1..g /\ (g # 1 => A[g - 1] = 1..(g - 1))
    BY <1>2
  <2>2. g # 1 => 1..g = {g} \cup 1..(g - 1)
    BY <1>2
  <2> QED BY <2>1, <2>2
<1>5. F(A)
  <2>1. \A g \in 1..Len(D) : A[g] = {g} \cup (IF D[g].prev = 0 THEN {} ELSE A[D[g].prev])
    BY <1>2, <1>4
  <2>2. A = [g \in 1..Len(D) |-> A[g]]
    OBVIOUS
  <2> HIDE DEF A
  <2> QED BY <1>2, <2>1, <2>2
<1>6. \A f : F(f) => f = A
  <2> SUFFICES ASSUME NEW f, F(f) PROVE f = A
    OBVIOUS
  <2>1. f = [g \in 1..Len(D) |-> f[g]] /\ \A g \in 1..Len(D) : f[g] = Up(f, g)
    BY <1>3
  <2>2. A = [g \in 1..Len(D) |-> A[g]]
    OBVIOUS
  <2> HIDE DEF F, A
  <2> DEFINE W == {g \in 1..Len(D) : f[g] # A[g]}
  <2>3. W = {}
    <3> SUFFICES ASSUME W # {} PROVE FALSE
      OBVIOUS
    <3>1. W \in SUBSET Nat
      OBVIOUS
    <3>2. Min(W) \in W /\ \A y \in W : Min(W) <= y
      BY <3>1, MinProperties
    <3>3. PICK g \in 1..Len(D) : f[g] # A[g] /\ \A y \in W : g <= y
      BY <3>2
    <3>4. g # 1 => g - 1 \in 1..Len(D) /\ g - 1 \notin W
      BY <1>2, <3>3
    <3>5. g # 1 => f[g - 1] = A[g - 1]
      BY <3>4
    <3>6. Up(f, g) = Up(A, g)
      BY <3>5
    <3>7. f[g] = Up(f, g) /\ A[g] = Up(A, g)
      BY <1>4, <2>1, Zenon
    <3> QED BY <3>3, <3>6, <3>7
  <2>4. \A g \in 1..Len(D) : f[g] = A[g]
    BY <2>3
  <2> QED BY <2>1, <2>2, <2>4
<1>7. AncestorsIn(D) = A
  <2> HIDE DEF F
  <2> QED BY <1>1, <1>5, <1>6
<1> QED BY <1>7

\* A member writes under the newest epoch (unlock, adopt_epochs).
LEMMA WritesLatest ==
    ASSUME NEW D, NEW M, LineOK(D), MintsOK(D, M), NEW h \in 1..Len(D),
           NEW m \in Members(D[h])
    PROVE  M[h][WriteEpoch(D[h], m)] = Latest(M, h)
<1> DEFINE n == Len(D[h].epochs)
<1>1. /\ n \in Nat /\ 1 <= n /\ D[h].epochs \in Seq(SUBSET Folk)
      /\ D[h].epochs[n] = Members(D[h])
  BY LineHas DEF LineOK, PageOK, Page
<1>2. DOMAIN D[h].epochs = 1..n
  BY <1>1
<1>3. n \in Reach(D[h], m) /\ Reach(D[h], m) \subseteq 1..n
  BY <1>1, <1>2 DEF Reach
<1> HIDE DEF n
<1>4. \A i \in Reach(D[h], m) : (\A j \in Reach(D[h], m) : j <= i) => i = n
  BY <1>1, <1>3
<1>5. \A j \in Reach(D[h], m) : j <= n
  BY <1>1, <1>3
<1>6. WriteEpoch(D[h], m) = n
  BY <1>3, <1>4, <1>5 DEF WriteEpoch
<1>7. Len(M[h]) = n
  BY DEF MintsOK, n
<1> QED BY <1>6, <1>7 DEF Latest

\* The newest epoch of a body opens, on no body below it, to anyone the body leaves out.
LEMMA LockedOut ==
    ASSUME NEW D, NEW M, LineOK(D), MintsOK(D, M), NEW t \in 1..Len(D), NEW g \in 1..t,
           NEW p, p \notin Members(D[t])
    PROVE  Latest(M, t) \notin Opens(D, M, g, p)
<1> SUFFICES ASSUME NEW i \in Reach(D[g], p), M[g][i] = Latest(M, t) PROVE FALSE
  BY DEF Opens
<1>1. g \in 1..Len(D) /\ g <= t
  BY LineHas
<1>2. /\ D[g].epochs \in Seq(SUBSET Folk) /\ Len(D[g].epochs) \in Nat
      /\ \A j \in 1..Len(D[g].epochs) : D[g].epochs[j] \subseteq Members(D[g])
  BY <1>1, LineHas DEF LineOK, PageOK, Page
<1>3. i \in 1..Len(D[g].epochs) /\ p \in D[g].epochs[i]
  BY <1>2 DEF Reach
<1>4. p \in Members(D[g])
  BY <1>2, <1>3
<1>5. /\ Len(M[g]) = Len(D[g].epochs) /\ Len(M[t]) = Len(D[t].epochs)
      /\ M[g][i] <= g /\ M[g] \in Seq(Nat)
  BY <1>1, <1>3 DEF MintsOK
<1>6. CASE Len(M[g]) < Len(M[t])
  <2>1. g < Latest(M, t)
    BY <1>1, <1>6 DEF MintsOK
  <2>2. M[g][i] \in Nat
    BY <1>3, <1>5
  <2> QED BY <1>1, <1>5, <2>1, <2>2
<1>7. CASE ~(Len(M[g]) < Len(M[t]))
  <2>1. Len(D[g].epochs) <= Len(D[t].epochs) /\ Len(D[t].epochs) \in Nat
    BY <1>1, LineHas DEF LineOK
  <2>2. Len(D[g].epochs) = Len(D[t].epochs)
    BY <1>2, <1>5, <1>7, <2>1
  <2>3. Members(D[g]) \subseteq Members(D[t])
    BY <1>1, <2>2 DEF LineOK
  <2> QED BY <1>4, <2>3
<1> QED BY <1>6, <1>7

\* The next body makes the line one longer, and mints at most its own epoch.
LEMMA NextInLine ==
    ASSUME NEW D, NEW M, LineOK(D), MintsOK(D, M), NEW b, PageOK(b),
           b.rev = Len(D) + 1, b.prev = Len(D), Follows(D[Len(D)], b)
    PROVE  LET D2 == Append(D, b)
           IN  /\ LineOK(D2) /\ MintsOK(D2, MintedIn(D2)) /\ Len(D2) = Len(D) + 1
               /\ D2[Len(D2)] = b /\ Grown(D, M, D2, MintedIn(D2))
<1> DEFINE N == Len(D)
           D2 == Append(D, b)
           last == IF Len(b.epochs) = Len(M[N]) THEN M[N] ELSE Append(M[N], N + 1)
           M2 == [h \in 1..(N + 1) |-> IF h <= N THEN M[h] ELSE last]
<1>1. /\ N \in Nat /\ 1 <= N /\ DOMAIN D = 1..N /\ D \in Seq(Page) /\ b \in Page
      /\ N \in 1..N
  BY LineHas DEF LineOK, PageOK
<1>2. /\ D2 \in Seq(Page) /\ Len(D2) = N + 1 /\ D2[N + 1] = b /\ D2 # <<>>
      /\ \A h \in 1..N : D2[h] = D[h]
  BY <1>1
<1>3. /\ b.rev = N + 1 /\ b.prev = N /\ Follows(D[N], b)
      /\ Len(D[N].epochs) \in Nat /\ Len(b.epochs) \in Nat
      /\ b.epochs \in Seq(SUBSET Folk)
  BY <1>1, LineHas DEF Page
<1> HIDE DEF D2, N
<1>4. \A h \in 1..(N + 1) : h \in 1..N \/ h = N + 1
  BY <1>1
<1>5. /\ Len(D[N].epochs) <= Len(b.epochs)
      /\ Len(D[N].epochs) = Len(b.epochs) => Members(D[N]) \subseteq Members(b)
  BY <1>3 DEF Follows
<1>6. \A g \in 1..N : /\ Len(D[g].epochs) \in Nat
                      /\ Len(D[g].epochs) <= Len(D[N].epochs)
                      /\ Len(D[g].epochs) = Len(D[N].epochs) => Members(D[g]) \subseteq Members(D[N])
  <2> SUFFICES ASSUME NEW g \in 1..N
               PROVE  /\ Len(D[g].epochs) \in Nat
                      /\ Len(D[g].epochs) <= Len(D[N].epochs)
                      /\ Len(D[g].epochs) = Len(D[N].epochs) => Members(D[g]) \subseteq Members(D[N])
    OBVIOUS
  <2>1. g <= N
    BY <1>1
  <2> QED BY <1>1, <2>1, LineHas DEF LineOK, N
<1>7. \A g \in 1..N : /\ Len(D[g].epochs) <= Len(b.epochs)
                      /\ Len(D[g].epochs) = Len(b.epochs) => Members(D[g]) \subseteq Members(b)
  <2> SUFFICES ASSUME NEW g \in 1..N
               PROVE  /\ Len(D[g].epochs) <= Len(b.epochs)
                      /\ Len(D[g].epochs) = Len(b.epochs) => Members(D[g]) \subseteq Members(b)
    OBVIOUS
  <2>1. /\ Len(D[g].epochs) \in Nat /\ Len(D[g].epochs) <= Len(D[N].epochs)
        /\ Len(D[g].epochs) = Len(D[N].epochs) => Members(D[g]) \subseteq Members(D[N])
    BY <1>6
  <2>2. Len(D[g].epochs) <= Len(b.epochs)
    BY <1>3, <1>5, <2>1
  <2>3. Len(D[g].epochs) = Len(b.epochs) =>
          Len(D[g].epochs) = Len(D[N].epochs) /\ Len(D[N].epochs) = Len(b.epochs)
    BY <1>3, <1>5, <2>1
  <2> QED BY <1>5, <2>1, <2>2, <2>3
<1>8. LineOK(D2)
  <2>1. \A h \in 1..(N + 1) : PageOK(D2[h]) /\ D2[h].rev = h /\ D2[h].prev = h - 1
    <3> SUFFICES ASSUME NEW h \in 1..(N + 1)
                 PROVE  PageOK(D2[h]) /\ D2[h].rev = h /\ D2[h].prev = h - 1
      OBVIOUS
    <3>1. CASE h \in 1..N
      BY <1>2, <3>1 DEF LineOK, N
    <3>2. CASE h = N + 1
      <4>1. D2[h] = b /\ h - 1 = N
        BY <1>1, <1>2, <3>2
      <4> QED BY <1>3, <3>2, <4>1
    <3> QED BY <1>4, <3>1, <3>2
  <2>2. Len(D2[1].epochs) = 1
    BY <1>1, <1>2 DEF LineOK
  <2>3. ASSUME NEW g \in 1..(N + 1), NEW h \in 1..(N + 1), g <= h
        PROVE  /\ Len(D2[g].epochs) <= Len(D2[h].epochs)
               /\ Len(D2[g].epochs) = Len(D2[h].epochs) => Members(D2[g]) \subseteq Members(D2[h])
    <3>1. CASE h \in 1..N
      <4>1. g \in 1..N
        BY <1>1, <2>3, <3>1
      <4> QED BY <1>2, <2>3, <3>1, <4>1 DEF LineOK, N
    <3>2. CASE h = N + 1 /\ g \in 1..N
      BY <1>2, <1>7, <3>2
    <3>3. CASE h = N + 1 /\ g = N + 1
      BY <1>2, <1>3, <3>3
    <3> QED BY <1>4, <3>1, <3>2, <3>3
  <2> QED BY <1>2, <2>1, <2>2, <2>3 DEF LineOK
<1>9. /\ \A h \in 1..N : M[h] \in Seq(Nat) /\ Len(M[h]) = Len(D[h].epochs)
                         /\ \A i \in 1..Len(M[h]) : M[h][i] <= h
      /\ M[N] \in Seq(Nat) /\ Len(M[N]) = Len(D[N].epochs)
  BY <1>1 DEF MintsOK, N
<1>10. /\ last \in Seq(Nat) /\ Len(last) = Len(b.epochs)
       /\ \A i \in 1..Len(last) : last[i] <= N + 1
       /\ \/ last = M[N] /\ Len(b.epochs) = Len(D[N].epochs)
          \/ Len(last) = Len(M[N]) + 1 /\ last[Len(last)] = N + 1
  <2>1. CASE Len(b.epochs) = Len(M[N])
    <3>1. last = M[N]
      BY <2>1
    <3>2. \A i \in 1..Len(M[N]) : M[N][i] <= N /\ M[N][i] \in Nat
      BY <1>1, <1>9
    <3>3. \A i \in 1..Len(M[N]) : M[N][i] <= N + 1
      BY <1>1, <3>2
    <3> HIDE DEF last
    <3> QED BY <1>9, <2>1, <3>1, <3>3
  <2>2. CASE Len(b.epochs) # Len(M[N])
    <3>1. Len(b.epochs) = Len(M[N]) + 1
      BY <1>3, <1>9, <2>2 DEF Follows
    <3>2. last = Append(M[N], N + 1)
      BY <2>2
    <3>3. \A i \in 1..Len(M[N]) : M[N][i] <= N /\ M[N][i] \in Nat
      BY <1>1, <1>9
    <3> HIDE DEF last
    <3>4. /\ last \in Seq(Nat) /\ Len(last) = Len(M[N]) + 1 /\ last[Len(M[N]) + 1] = N + 1
          /\ \A i \in 1..Len(M[N]) : last[i] = M[N][i]
      BY <1>1, <1>9, <3>2
    <3>5. \A i \in 1..Len(last) : last[i] <= N + 1
      <4> SUFFICES ASSUME NEW i \in 1..Len(last) PROVE last[i] <= N + 1
        OBVIOUS
      <4>1. i \in 1..Len(M[N]) \/ i = Len(M[N]) + 1
        BY <1>9, <3>4
      <4>2. CASE i \in 1..Len(M[N])
        <5>1. last[i] = M[N][i] /\ M[N][i] <= N /\ M[N][i] \in Nat
          BY <3>3, <3>4, <4>2
        <5> QED BY <1>1, <5>1
      <4>3. CASE i = Len(M[N]) + 1
        <5>1. last[i] = N + 1
          BY <3>4, <4>3
        <5> QED BY <1>1, <5>1
      <4> QED BY <4>1, <4>2, <4>3
    <3> QED BY <3>1, <3>4, <3>5
  <2> QED BY <2>1, <2>2
<1>11. /\ M2 = [h \in 1..(N + 1) |-> M2[h]] /\ M2[N + 1] = last
       /\ \A h \in 1..N : M2[h] = M[h]
  <2>1. \A h \in 1..(N + 1) : M2[h] = IF h <= N THEN M[h] ELSE last
    OBVIOUS
  <2>2. \A h \in 1..N : h \in 1..(N + 1) /\ h <= N
    BY <1>1
  <2>3. N + 1 \in 1..(N + 1) /\ ~(N + 1 <= N)
    BY <1>1
  <2>4. M2 = [h \in 1..(N + 1) |-> M2[h]]
    OBVIOUS
  <2> HIDE DEF M2, last
  <2> QED BY <2>1, <2>2, <2>3, <2>4
<1>12. last = Mint(D2, M2, N + 1)
  <2>1. N + 1 # 1 /\ (N + 1) - 1 = N
    BY <1>1
  <2>2. M2[N] = M[N] /\ D2[N + 1] = b
    BY <1>1, <1>2, <1>11
  <2> HIDE DEF M2
  <2> QED BY <2>1, <2>2 DEF Mint
<1> HIDE DEF last, M2
<1>13. MintsOK(D2, M2)
  <2>1. ASSUME NEW h \in 1..(N + 1)
        PROVE  /\ M2[h] = Mint(D2, M2, h)
               /\ M2[h] \in Seq(Nat) /\ Len(M2[h]) = Len(D2[h].epochs)
               /\ \A i \in 1..Len(M2[h]) : M2[h][i] <= h
    <3>1. CASE h \in 1..N
      <4>1. M[h] = Mint(D, M, h)
        BY <3>1 DEF MintsOK, N
      <4>2. h # 1 => h - 1 \in 1..N
        BY <1>1, <3>1
      <4>3. Mint(D2, M2, h) = Mint(D, M, h)
        BY <1>2, <1>11, <3>1, <4>2 DEF Mint
      <4> QED BY <1>2, <1>9, <1>11, <3>1, <4>1, <4>3
    <3>2. CASE h = N + 1
      BY <1>2, <1>10, <1>11, <1>12, <3>2
    <3> QED BY <1>4, <3>1, <3>2
  <2>2. ASSUME NEW g \in 1..(N + 1), NEW h \in 1..(N + 1), g <= h, Len(M2[g]) < Len(M2[h])
        PROVE  g < Latest(M2, h)
    <3>1. CASE h \in 1..N
      <4>1. g \in 1..N
        BY <1>1, <2>2, <3>1
      <4>2. Len(M[g]) < Len(M[h]) /\ M2[h] = M[h]
        BY <1>11, <2>2, <3>1, <4>1
      <4>3. g < Latest(M, h)
        BY <2>2, <3>1, <4>1, <4>2 DEF MintsOK, N
      <4> QED BY <4>2, <4>3 DEF Latest
    <3>2. CASE h = N + 1 /\ g \in 1..N
      <4>1. M2[h] = last /\ M2[g] = M[g] /\ Len(M[g]) < Len(last)
        BY <1>11, <2>2, <3>2
      <4>2. CASE last = M[N]
        <5>1. Len(M[g]) < Len(M[N]) /\ g <= N
          BY <1>1, <3>2, <4>1, <4>2
        <5>2. g < Latest(M, N)
          BY <1>1, <3>2, <5>1 DEF MintsOK, N
        <5> QED BY <4>1, <4>2, <5>2 DEF Latest
      <4>3. CASE last[Len(last)] = N + 1
        <5>1. Latest(M2, h) = N + 1
          BY <4>1, <4>3 DEF Latest
        <5> QED BY <1>1, <3>2, <5>1
      <4> QED BY <1>10, <4>2, <4>3
    <3>3. CASE h = N + 1 /\ g = N + 1
      <4>1. Len(M2[g]) \in Nat /\ M2[g] = M2[h]
        BY <1>3, <1>10, <1>11, <3>3
      <4> QED BY <2>2, <4>1
    <3> QED BY <1>4, <3>1, <3>2, <3>3
  <2> QED BY <1>2, <1>11, <2>1, <2>2 DEF MintsOK
<1>14. MintedIn(D2) = M2
  BY <1>8, <1>13, MintedIs
<1>15. Grown(D, M, D2, M2)
  <2>1. Len(D) \in Nat /\ Len(D2) \in Nat /\ Len(D) <= Len(D2)
    <3>1. N \in Nat /\ N + 1 \in Nat /\ N <= N + 1
      BY <1>1
    <3> QED BY <1>2, <3>1 DEF N
  <2>2. \A h \in 1..N : D2[h] = D[h] /\ M2[h] = M[h]
    BY <1>2, <1>11
  <2> QED BY <2>1, <2>2 DEF Grown, N
<1> QED BY <1>2, <1>8, <1>13, <1>14, <1>15 DEF D2, N

-----------------------------------------------------------------------------
(* The builders: what each writes on a page is the next page.              *)

Onward(d, h, n, e) == PageOK(e) /\ e.rev = n /\ e.prev = h /\ Follows(d, e)

LEMMA NextOnPage ==
    ASSUME NEW d \in Page, NEW h \in Nat, NEW n \in Nat
    PROVE  /\ NextOn(d, h, n) \in Page /\ NextOn(d, h, n).rev = n /\ NextOn(d, h, n).prev = h
           /\ NextOn(d, h, n).shared = d.shared /\ NextOn(d, h, n).epochs = d.epochs
BY DEF NextOn, Page

\* Who is on a page: its seats' people, the founder among them.
LEMMA Seated ==
    ASSUME NEW d, PageOK(d)
    PROVE  /\ d \in Page /\ d.roster \in SUBSET Seat /\ d.shared \in Nat
           /\ d.epochs \in Seq(SUBSET Folk) /\ Len(d.epochs) \in Nat /\ 1 <= Len(d.epochs)
           /\ DOMAIN d.epochs = 1..Len(d.epochs) /\ Len(d.epochs) \in 1..Len(d.epochs)
           /\ Founding \in Members(d) /\ Members(d) \subseteq Folk
<1>1. d \in Page /\ d.epochs # <<>> /\ \E x \in d.roster : x.id = Founding
  BY DEF PageOK
<1>2. d.roster \in SUBSET Seat /\ d.shared \in Nat /\ d.epochs \in Seq(SUBSET Folk)
  BY <1>1 DEF Page
<1>3. Founding \in Members(d) /\ Members(d) \subseteq Folk
  BY <1>1, <1>2 DEF Members, Seat
<1> QED BY <1>1, <1>2, <1>3

\* A member added is wrapped into every epoch the founder reaches.
LEMMA WithMemberOnward ==
    ASSUME NEW d, PageOK(d), NEW h \in Nat, NEW n \in Nat \ {0}, NEW p \in Guests,
           NEW role \in 2..5
    PROVE  Onward(d, h, n, WithMember(d, h, n, Reach(d, Founding), p, role))
<1> DEFINE reach == Reach(d, Founding)
           e == WithMember(d, h, n, reach, p, role)
           m == [id |-> p, role |-> role, key |-> p]
           L == Len(d.epochs)
           s == IF d.shared = 0 THEN n ELSE d.shared
           eps == [i \in DOMAIN d.epochs |-> IF i \in reach THEN d.epochs[i] \cup {p} ELSE d.epochs[i]]
<1>1. /\ d \in Page /\ d.roster \in SUBSET Seat /\ d.shared \in Nat
      /\ L \in Nat /\ L \in 1..L /\ DOMAIN d.epochs = 1..L
      /\ \A i \in 1..L : d.epochs[i] \in SUBSET Folk
      /\ Founding \in Members(d) /\ p \in Folk /\ p # Founding
      /\ d.epochs[L] = Members(d) /\ \A i \in 1..L : d.epochs[i] \subseteq Members(d)
  BY Seated, SharedTreeAssumption DEF PageOK, Folk
<1>2. m \in Seat /\ m.id = p /\ m.role # Owner
  BY <1>1 DEF Seat, Owner
<1>3. L \in reach
  BY <1>1 DEF Reach
<1>4. /\ eps \in Seq(SUBSET Folk) /\ Len(eps) = L
      /\ eps[L] = Members(d) \cup {p}
      /\ \A i \in 1..L : eps[i] \subseteq Members(d) \cup {p}
  <2> HIDE DEF reach, L
  <2>1. eps = [i \in 1..L |-> IF i \in reach THEN d.epochs[i] \cup {p} ELSE d.epochs[i]]
    BY <1>1
  <2>2. \A i \in 1..L : eps[i] = IF i \in reach THEN d.epochs[i] \cup {p} ELSE d.epochs[i]
    BY <2>1
  <2>3. eps \in [1..L -> SUBSET Folk] /\ eps \in Seq(SUBSET Folk) /\ Len(eps) = L
    BY <1>1, <2>1
  <2> HIDE DEF eps
  <2> QED BY <1>1, <1>3, <2>2, <2>3
<1>5. /\ e \in Page /\ e.rev = n /\ e.prev = h
      /\ e.roster = d.roster \cup {m} /\ e.shared = s /\ e.epochs = eps
  <2>1. e = [NextOn(d, h, n) EXCEPT !.roster = d.roster \cup {m}, !.shared = s, !.epochs = eps]
    BY Zenon DEF WithMember
  <2>2. d.roster \cup {m} \in SUBSET Seat /\ s \in Nat
    BY <1>1, <1>2
  <2>3. PICK N \in Page : N = NextOn(d, h, n) /\ N.rev = n /\ N.prev = h
    BY Seated, NextOnPage
  <2>4. PICK R \in SUBSET Seat : R = d.roster \cup {m}
    BY <2>2
  <2>5. PICK sh \in Nat : sh = s
    BY <2>2
  <2> HIDE DEF e, eps, s, m
  <2>6. e = [N EXCEPT !.roster = R, !.shared = sh, !.epochs = eps]
    BY <2>1, <2>3, <2>4, <2>5
  <2> QED BY <1>4, <2>3, <2>4, <2>5, <2>6 DEF Page
<1> HIDE DEF e, eps, m, reach
<1>6. Members(e) = Members(d) \cup {p}
  BY <1>2, <1>5 DEF Members
<1>7. /\ \E x \in e.roster : x.id = Founding
      /\ \A x \in e.roster : x.id = Founding <=> x.role = Owner
  BY <1>1, <1>2, <1>5 DEF PageOK
<1>8. e.shared # 0
  BY <1>1, <1>5
<1>9. PageOK(e)
  <2>1. e.epochs # <<>> /\ Len(e.epochs) = L
    BY <1>1, <1>4, <1>5
  <2> HIDE DEF L
  <2> QED BY <1>4, <1>5, <1>6, <1>7, <1>8, <2>1 DEF PageOK
<1>10. Follows(d, e)
  BY <1>4, <1>5, <1>6 DEF Follows
<1> QED BY <1>5, <1>9, <1>10 DEF Onward, e, reach

\* A member removed is dropped from every epoch, and a new one is minted for those who stay.
LEMMA WithoutMemberOnward ==
    ASSUME NEW d, PageOK(d), NEW h \in Nat, NEW n \in Nat \ {0}, NEW p \in Guests
    PROVE  Onward(d, h, n, WithoutMember(d, h, n, p))
<1> DEFINE e == WithoutMember(d, h, n, p)
           L == Len(d.epochs)
           stay == {m \in d.roster : m.id # p}
           left == {m.id : m \in stay}
           cut == [i \in DOMAIN d.epochs |-> d.epochs[i] \ {p}]
           eps == Append(cut, left)
<1>1. /\ d \in Page /\ d.roster \in SUBSET Seat /\ d.shared \in Nat
      /\ L \in Nat /\ L \in 1..L /\ DOMAIN d.epochs = 1..L
      /\ \A i \in 1..L : d.epochs[i] \in SUBSET Folk
      /\ Founding \in Members(d) /\ p # Founding /\ Members(d) \subseteq Folk
      /\ \A i \in 1..L : d.epochs[i] \subseteq Members(d)
  BY Seated, SharedTreeAssumption DEF PageOK
<1>2. left = Members(d) \ {p}
  BY DEF Members
<1>3. /\ cut \in Seq(SUBSET Folk) /\ Len(cut) = L
      /\ \A i \in 1..L : cut[i] \subseteq Members(d) \ {p}
  <2> HIDE DEF L
  <2>1. cut = [i \in 1..L |-> d.epochs[i] \ {p}]
    BY <1>1
  <2>2. \A i \in 1..L : cut[i] = d.epochs[i] \ {p}
    BY <2>1
  <2>3. cut \in [1..L -> SUBSET Folk] /\ cut \in Seq(SUBSET Folk) /\ Len(cut) = L
    BY <1>1, <2>1
  <2> HIDE DEF cut
  <2> QED BY <1>1, <2>2, <2>3
<1>4. left \in SUBSET Folk
  BY <1>1, <1>2
<1> HIDE DEF cut, left
<1>5. /\ eps \in Seq(SUBSET Folk) /\ Len(eps) = L + 1 /\ eps[L + 1] = left
      /\ \A i \in 1..L : eps[i] = cut[i]
  <2> HIDE DEF L
  <2> QED BY <1>1, <1>3, <1>4
<1>6. /\ e \in Page /\ e.rev = n /\ e.prev = h
      /\ e.roster = stay /\ e.shared = d.shared /\ e.epochs = eps
  <2>1. e = [NextOn(d, h, n) EXCEPT !.roster = stay, !.epochs = eps]
    BY Zenon DEF WithoutMember, cut, left
  <2>2. PICK N \in Page : N = NextOn(d, h, n) /\ N.rev = n /\ N.prev = h /\ N.shared = d.shared
    BY Seated, NextOnPage
  <2>3. PICK R \in SUBSET Seat : R = stay
    BY <1>1
  <2> HIDE DEF e, eps, stay
  <2>4. e = [N EXCEPT !.roster = R, !.epochs = eps]
    BY <2>1, <2>2, <2>3
  <2> QED BY <1>5, <2>2, <2>3, <2>4 DEF Page
<1> HIDE DEF e, eps
<1>7. Members(e) = left
  BY <1>6 DEF Members, left
<1>8. /\ \E x \in e.roster : x.id = Founding
      /\ \A x \in e.roster : x.id = Founding <=> x.role = Owner
  BY <1>1, <1>6 DEF PageOK
<1>9. \A i \in 1..(L + 1) : eps[i] \subseteq left
  <2> SUFFICES ASSUME NEW i \in 1..(L + 1) PROVE eps[i] \subseteq left
    OBVIOUS
  <2>1. i \in 1..L \/ i = L + 1
    BY <1>1
  <2>2. CASE i \in 1..L
    BY <1>2, <1>3, <1>5, <2>2
  <2>3. CASE i = L + 1
    BY <1>5, <2>3
  <2> QED BY <2>1, <2>2, <2>3
<1>10. e.shared = 0 => Members(e) = {Founding}
  <2>1. d.shared = 0 => Members(d) = {Founding}
    BY DEF PageOK
  <2> QED BY <1>1, <1>2, <1>6, <1>7, <2>1
<1>11. PageOK(e)
  <2>1. e.epochs # <<>> /\ Len(e.epochs) = L + 1
    BY <1>1, <1>5, <1>6
  <2> HIDE DEF L
  <2> QED BY <1>5, <1>6, <1>7, <1>8, <1>9, <1>10, <2>1 DEF PageOK
<1>12. Follows(d, e)
  BY <1>5, <1>6 DEF Follows
<1> QED BY <1>6, <1>11, <1>12 DEF Onward, e

\* A role changed: the same people, the same epochs.
LEMMA WithRoleOnward ==
    ASSUME NEW d, PageOK(d), NEW h \in Nat, NEW n \in Nat \ {0}, NEW p \in Guests,
           NEW role \in 2..5
    PROVE  /\ Onward(d, h, n, WithRole(d, h, n, p, role))
           /\ WithRole(d, h, n, p, role).epochs = d.epochs
           /\ WithRole(d, h, n, p, role).shared = d.shared
<1> DEFINE e == WithRole(d, h, n, p, role)
           f(m) == IF m.id = p THEN [m EXCEPT !.role = role] ELSE m
           R == {f(m) : m \in d.roster}
<1>1. /\ d \in Page /\ d.roster \in SUBSET Seat /\ p # Founding
      /\ Len(d.epochs) \in Nat
  BY Seated, SharedTreeAssumption
<1>2. \A m \in d.roster : f(m) \in Seat /\ f(m).id = m.id
                          /\ (m.id # p => f(m) = m) /\ (m.id = p => f(m).role # Owner)
  <2> SUFFICES ASSUME NEW m \in d.roster
               PROVE  f(m) \in Seat /\ f(m).id = m.id
                      /\ (m.id # p => f(m) = m) /\ (m.id = p => f(m).role # Owner)
    OBVIOUS
  <2>1. m \in Seat
    BY <1>1
  <2> QED BY <2>1 DEF Seat, Owner
<1>3. R \in SUBSET Seat
  BY <1>2
<1>4. /\ e \in Page /\ e.rev = n /\ e.prev = h
      /\ e.roster = R /\ e.shared = d.shared /\ e.epochs = d.epochs
  <2>1. e = [NextOn(d, h, n) EXCEPT !.roster = R]
    BY Zenon DEF WithRole
  <2>2. PICK N \in Page : /\ N = NextOn(d, h, n) /\ N.rev = n /\ N.prev = h
                          /\ N.shared = d.shared /\ N.epochs = d.epochs
    BY Seated, NextOnPage
  <2>3. PICK Q \in SUBSET Seat : Q = R
    BY <1>3
  <2> HIDE DEF e, R
  <2>4. e = [N EXCEPT !.roster = Q]
    BY <2>1, <2>2, <2>3
  <2> QED BY <2>2, <2>3, <2>4 DEF Page
<1> HIDE DEF e, f
<1>5. Members(e) = Members(d)
  <2>1. Members(e) = {x.id : x \in R}
    BY <1>4 DEF Members
  <2> QED BY <1>2, <2>1 DEF Members
<1>6. /\ \E x \in R : x.id = Founding
      /\ \A x \in R : x.id = Founding <=> x.role = Owner
  <2>1. /\ \E x \in d.roster : x.id = Founding
        /\ \A x \in d.roster : x.id = Founding <=> x.role = Owner
    BY DEF PageOK
  <2> QED BY <1>1, <1>2, <2>1
<1> HIDE DEF R
<1>7. PageOK(e)
  BY <1>4, <1>5, <1>6 DEF PageOK
<1>8. Follows(d, e)
  BY <1>4, <1>5 DEF Follows
<1> QED BY <1>4, <1>7, <1>8 DEF Onward, e

-----------------------------------------------------------------------------
(* Sessions: what folding, adopting, refreshing and compacting keep.       *)

Keeps(c, e) ==
  /\ Shaped(e) /\ e.open = c.open /\ e.top = c.top /\ e.ref = c.ref /\ e.wkey = c.wkey
  /\ e.mir = c.mir /\ e.snap = c.snap

LEMMA KeepsOn ==
    ASSUME NEW c, NEW e, NEW f, Keeps(c, e), Keeps(e, f)
    PROVE  Keeps(c, f)
BY DEF Keeps

LEMMA RejudgeKeeps ==
    ASSUME NEW c, Shaped(c), NEW S
    PROVE  Keeps(c, Rejudge(c, S))
<1> DEFINE now == [i \in S |-> Marked(c, i)]
           marks == [i \in DOMAIN c.mark |-> IF i \in S THEN now[i] ELSE c.mark[i]]
           engs == c.eng \cup {i \in S : now[i] = "past"}
<1>1. Rejudge(c, S) = [c EXCEPT !.mark = marks, !.eng = engs]
  BY Zenon DEF Rejudge
<1> HIDE DEF marks, engs
<1> QED BY <1>1 DEF Keeps, Shaped

LEMMA FoldKeeps ==
    ASSUME NEW c, Shaped(c)
    PROVE  Keeps(c, Fold(c)) /\ Keeps(c, Retry(c))
BY RejudgeKeeps DEF Fold, Retry

LEMMA AdoptBaseKeeps ==
    ASSUME NEW c, Shaped(c)
    PROVE  Keeps(c, AdoptBase(c)) /\ Keeps(c, Bootstrapped(c))
<1> DEFINE marks == [i \in DOMAIN c.mark |->
                       IF i \in c.snap.covers /\ c.mark[i] = "dropped" THEN "past" ELSE c.mark[i]]
           engs == c.eng \cup c.snap.holds
<1>1. Keeps(c, [c EXCEPT !.refused = c.snap])
  BY DEF Keeps, Shaped
<1>2. Keeps(c, [c EXCEPT !.eng = engs, !.mark = marks])
  <2> HIDE DEF marks, engs
  <2>1. PICK e : e = [c EXCEPT !.eng = engs, !.mark = marks]
    OBVIOUS
  <2>2. Keeps(c, e)
    BY <2>1 DEF Keeps, Shaped
  <2> QED BY <2>1, <2>2
<1>3. Keeps(c, c)
  BY DEF Keeps
<1>4. AdoptBase(c) \in {c, [c EXCEPT !.refused = c.snap], [c EXCEPT !.eng = engs, !.mark = marks]}
  BY Zenon DEF AdoptBase
<1>5. Keeps(c, AdoptBase(c))
  <2> HIDE DEF marks, engs
  <2> QED BY <1>1, <1>2, <1>3, <1>4
<1>6. Shaped(AdoptBase(c))
  BY <1>5 DEF Keeps
<1>7. Keeps(AdoptBase(c), Fold(AdoptBase(c)))
  BY <1>6, FoldKeeps
<1>8. Keeps(c, Fold(AdoptBase(c)))
  BY <1>5, <1>7, KeepsOn
<1> QED BY <1>5, <1>8 DEF Bootstrapped

\* What installing a membership leaves: the gate runs on h once the tree was ever shared.
Gated(c, h, e) ==
  /\ Shaped(e) /\ e.open = c.open /\ e.ref = c.ref /\ e.wkey = c.wkey
  /\ e.mir = c.mir /\ e.snap = c.snap
  /\ e.top = IF bodies[h].shared = 0 THEN c.top ELSE h

LEMMA InstalledGates ==
    ASSUME NEW c, Shaped(c), NEW h, NEW kept
    PROVE  Gated(c, h, Installed(c, h, kept))
BY DEF Gated, Installed, Shaped

LEMMA SetMembershipGates ==
    ASSUME NEW c, Shaped(c), NEW h, NEW kept
    PROVE  Gated(c, h, SetMembership(c, h, kept))
<1> DEFINE g == Installed(c, h, kept)
<1>1. Gated(c, h, g) /\ Shaped(g)
  BY InstalledGates DEF Gated
<1> HIDE DEF g
<1>2. Keeps(g, Fold(g)) /\ Shaped(Fold(g))
  BY <1>1, FoldKeeps DEF Keeps
<1>3. Keeps(Fold(g), Retry(Fold(g)))
  BY <1>2, FoldKeeps
<1>4. Keeps(g, Retry(Fold(g)))
  BY <1>2, <1>3, KeepsOn
<1>5. SetMembership(c, h, kept) \in {g, Retry(Fold(g))}
  BY Zenon DEF SetMembership, g
<1> QED BY <1>1, <1>4, <1>5 DEF Gated, Keeps

\* A session unlocked on h, gated or not.
Fresh(d, h, dk, e) ==
  /\ Shaped(e) /\ e.open = TRUE /\ e.wkey = WriteKey(h, Holder(d))
  /\ e.ref = (IF bodies[h].shared # 0 THEN RevOf(h) ELSE 0)
  /\ e.mir = dk.mir /\ e.snap = dk.snap

LEMMA UnlockedIs ==
    ASSUME NEW d, NEW h, NEW dk
    PROVE  Fresh(d, h, dk, Unlocked(d, h, dk)) /\ Unlocked(d, h, dk).top = 0
<1>1. PICK mk, no, yes, z, es :
        /\ mk = [i \in 1..MaxEntries |-> "unseen"]
        /\ no = FALSE /\ yes = TRUE /\ z = 0 /\ es = {}
  OBVIOUS
<1>2. PICK nc : nc = NoCore
  OBVIOUS
<1>3. nc = [open |-> no, inst |-> es, top |-> z, keys |-> es, wkey |-> z,
            ref |-> z, eng |-> es, mark |-> mk, mir |-> es,
            snap |-> NoSnap, refused |-> NoSnap, len |-> z]
  BY <1>1, <1>2, Zenon DEF NoCore
<1>4. PICK ks, w, r, mi, sn :
        /\ ks = Reached(h, Holder(d)) /\ w = WriteKey(h, Holder(d))
        /\ r = (IF bodies[h].shared # 0 THEN RevOf(h) ELSE 0)
        /\ mi = dk.mir /\ sn = dk.snap
  OBVIOUS
<1>5. PICK u : u = Unlocked(d, h, dk)
  OBVIOUS
<1>6. u = [nc EXCEPT !.open = yes, !.keys = ks, !.wkey = w, !.ref = r, !.mir = mi, !.snap = sn]
  BY <1>1, <1>2, <1>4, <1>5, Zenon DEF Unlocked
<1>7. u = [open |-> yes, inst |-> es, top |-> z, keys |-> ks, wkey |-> w,
           ref |-> r, eng |-> es, mark |-> mk, mir |-> mi,
           snap |-> sn, refused |-> NoSnap, len |-> z]
  BY <1>3, <1>6
<1>8. /\ Shaped(u) /\ u.open = yes /\ u.top = z /\ u.wkey = w /\ u.ref = r
      /\ u.mir = mi /\ u.snap = sn
  BY <1>7 DEF Shaped
<1> QED BY <1>1, <1>4, <1>5, <1>8 DEF Fresh

LEMMA OpenedIs ==
    ASSUME NEW d, NEW h, NEW kept, NEW dk
    PROVE  /\ Fresh(d, h, dk, Opened(d, h, kept, dk))
           /\ Opened(d, h, kept, dk).top = IF bodies[h].shared = 0 THEN 0 ELSE h
<1> DEFINE u == Unlocked(d, h, dk)
           g == Installed(u, h, kept)
<1> HIDE DEF u
<1>1. Fresh(d, h, dk, u) /\ u.top = 0 /\ Shaped(u)
  <2>1. Fresh(d, h, dk, u) /\ u.top = 0
    BY UnlockedIs, Zenon DEF u
  <2> QED BY <2>1 DEF Fresh
<1>2. Gated(u, h, g) /\ Shaped(g)
  BY <1>1, InstalledGates DEF Gated
<1> HIDE DEF g
<1>3. Keeps(g, Bootstrapped(g))
  BY <1>2, AdoptBaseKeeps
<1>4. Opened(d, h, kept, dk) = Bootstrapped(g)
  BY DEF Opened, g, u
<1> QED BY <1>1, <1>2, <1>3, <1>4 DEF Fresh, Gated, Keeps

\* What a refresh leaves: the gate of the new head, and for a member its epoch.
Refreshes(d, c, h, e) ==
  /\ Shaped(e) /\ e.open = c.open /\ e.mir = c.mir /\ e.snap = c.snap
  /\ e.top = (IF bodies[h].shared = 0 THEN c.top ELSE h)
  /\ d \in Owners \/ Reached(h, d) = {} => e.wkey = c.wkey /\ e.ref = c.ref
  /\ ~(d \in Owners \/ Reached(h, d) = {}) => e.wkey = WriteKey(h, d) /\ e.ref = RevOf(h)

LEMMA RefreshedIs ==
    ASSUME NEW d, NEW c, Shaped(c), NEW h, NEW kept
    PROVE  Refreshes(d, c, h, Refreshed(d, c, h, kept))
<1>0. PICK e : e = Refreshed(d, c, h, kept)
  OBVIOUS
<1>1. PICK g : g = SetMembership(c, h, kept)
  OBVIOUS
<1>2. Gated(c, h, g)
  BY <1>1, SetMembershipGates
<1>3. PICK ks, w, r : ks = g.keys \cup Reached(h, d) /\ w = WriteKey(h, d) /\ r = RevOf(h)
  OBVIOUS
<1>4. Refreshes(d, c, h, e)
  <2>1. CASE d \in Owners \/ Reached(h, d) = {}
    <3>1. e = g
      BY <1>0, <1>1, <2>1, Zenon DEF Refreshed, Adopted
    <3> QED BY <1>2, <2>1, <3>1 DEF Gated, Refreshes
  <2>2. CASE ~(d \in Owners \/ Reached(h, d) = {})
    <3>1. e = [g EXCEPT !.keys = ks, !.wkey = w, !.ref = r]
      BY <1>0, <1>1, <1>3, <2>2, Zenon DEF Refreshed, Adopted
    <3>2. Shaped(g)
      BY <1>2 DEF Gated
    <3>3. /\ Shaped(e) /\ e.open = g.open /\ e.mir = g.mir /\ e.snap = g.snap /\ e.top = g.top
          /\ e.wkey = w /\ e.ref = r
      BY <3>1, <3>2 DEF Shaped
    <3> QED BY <1>2, <1>3, <2>2, <3>3 DEF Gated, Refreshes
  <2> QED BY <2>1, <2>2
<1> QED BY <1>0, <1>4

\* A snapshot this session seals, or one it had.
Sealable(d, c, s) == s.by = Holder(d) /\ s.key = c.wkey /\ s.top = c.top

LEMMA CompactedIs ==
    ASSUME NEW d, NEW c, Shaped(c), NEW k, NEW e, e = Compacted(d, c, k)
    PROVE  /\ Shaped(e) /\ e.open = c.open /\ e.top = c.top /\ e.ref = c.ref /\ e.wkey = c.wkey
           /\ e.mir = c.mir /\ (e.snap = c.snap \/ Sealable(d, c, e.snap))
<1> DEFINE seal == Sealed(d, c)
           sn == [by |-> seal.by, key |-> seal.key, ref |-> seal.ref, top |-> seal.top,
                  covers |-> Subsumed(c), holds |-> c.eng]
           n == Cardinality(c.mir)
<1>1. sn.by = Holder(d) /\ sn.key = c.wkey /\ sn.top = c.top
  BY DEF Sealed
<1>2. \/ e = c
      \/ e = [c EXCEPT !.len = n]
      \/ e = [c EXCEPT !.len = n, !.snap = sn]
  BY Zenon DEF Compacted
<1> HIDE DEF sn, n
<1>3. CASE e = c
  BY <1>3
<1>4. CASE e = [c EXCEPT !.len = n]
  <2>1. /\ Shaped(e) /\ e.open = c.open /\ e.top = c.top /\ e.ref = c.ref /\ e.wkey = c.wkey
        /\ e.mir = c.mir /\ e.snap = c.snap
    BY <1>4 DEF Shaped
  <2> QED BY <2>1
<1>5. CASE e = [c EXCEPT !.len = n, !.snap = sn]
  <2>1. /\ Shaped(e) /\ e.open = c.open /\ e.top = c.top /\ e.ref = c.ref /\ e.wkey = c.wkey
        /\ e.mir = c.mir /\ e.snap = sn
    BY <1>5 DEF Shaped
  <2> QED BY <1>1, <2>1 DEF Sealable
<1> QED BY <1>2, <1>3, <1>4, <1>5

\* What a data step leaves in the session.
Stepped(d, c, e) ==
  /\ Shaped(e) /\ e.open = c.open /\ e.top = c.top /\ e.ref = c.ref /\ e.wkey = c.wkey
  /\ e.mir \in {c.mir, c.mir \cup sent}
  /\ e.snap \in {c.snap, base} \/ Sealable(d, c, e.snap)

LEMMA FetchedIs ==
    ASSUME NEW d, Shaped(core[d])
    PROVE  Stepped(d, core[d], Fetched(d))
<1>1. PICK c : c = core[d]
  OBVIOUS
<1>2. PICK m, s : m = c.mir \cup sent /\ s = IF base = NoSnap THEN c.snap ELSE base
  OBVIOUS
<1>3. PICK e : e = Fetched(d)
  OBVIOUS
<1>4. e = [c EXCEPT !.mir = m, !.snap = s]
  BY <1>1, <1>2, <1>3, Zenon DEF Fetched
<1>5. Shaped(c)
  BY <1>1
<1>6. /\ Shaped(e) /\ e.open = c.open /\ e.top = c.top /\ e.ref = c.ref /\ e.wkey = c.wkey
      /\ e.mir = m /\ e.snap = s
  BY <1>4, <1>5 DEF Shaped
<1> QED BY <1>1, <1>2, <1>3, <1>6 DEF Stepped

LEMMA FoldedIs ==
    ASSUME NEW d, Shaped(core[d]), NEW k
    PROVE  Stepped(d, core[d], Folded(d, k))
<1>1. PICK c : c = Fetched(d)
  OBVIOUS
<1>2. Stepped(d, core[d], c) /\ Shaped(c)
  BY <1>1, FetchedIs DEF Stepped
<1>3. PICK f : f = IF NeedsAdoption(c) THEN Bootstrapped(c) ELSE Fold(c)
  OBVIOUS
<1>4. Keeps(c, f) /\ Shaped(f)
  BY <1>2, <1>3, FoldKeeps, AdoptBaseKeeps DEF Keeps
<1>5. PICK e : e = Folded(d, k)
  OBVIOUS
<1>6. e = Compacted(d, f, k)
  BY <1>1, <1>3, <1>5, Zenon DEF Folded
<1>7. /\ Shaped(e) /\ e.open = f.open /\ e.top = f.top /\ e.ref = f.ref /\ e.wkey = f.wkey
      /\ e.mir = f.mir /\ (e.snap = f.snap \/ Sealable(d, f, e.snap))
  BY <1>4, <1>6, CompactedIs
<1> QED BY <1>2, <1>4, <1>5, <1>7 DEF Stepped, Keeps, Sealable

-----------------------------------------------------------------------------
(* What stands while the line, the published chain and the entries grow.   *)

LEMMA SealStays ==
    ASSUME NEW D, NEW M, NEW D2, NEW M2, Grown(D, M, D2, M2), NEW x, SealOK(D, M, x)
    PROVE  SealOK(D2, M2, x)
<1>1. x.top # 0 => x.top \in 1..Len(D)
  BY DEF Grown, SealOK
<1>2. x.top \in 0..Len(D2)
  BY DEF Grown, SealOK
<1> QED BY <1>1, <1>2 DEF Grown, SealOK, Latest

LEMMA SnapStays ==
    ASSUME NEW D, NEW M, NEW D2, NEW M2, Grown(D, M, D2, M2), NEW s, SnapOK(D, M, s)
    PROVE  SnapOK(D2, M2, s)
BY SealStays DEF SnapOK

LEMMA EntryStays ==
    ASSUME NEW D, NEW M, NEW D2, NEW M2, Grown(D, M, D2, M2), NEW e, EntryOK(D, M, e)
    PROVE  EntryOK(D2, M2, e)
<1>1. SealOK(D2, M2, e)
  BY SealStays DEF EntryOK
<1>2. e.ref # 0 => e.ref \in 1..Len(D)
  BY DEF Grown, EntryOK
<1>3. e.ref \in 0..Len(D2)
  BY DEF Grown, EntryOK
<1> QED BY <1>1, <1>2, <1>3 DEF Grown, EntryOK, Latest

LEMMA KeysStay ==
    ASSUME NEW D, NEW M, NEW D2, NEW M2, Grown(D, M, D2, M2), NEW c, NEW m, KeysOK(D, M, c, m)
    PROVE  KeysOK(D2, M2, c, m)
<1>1. (c.top # 0 => c.top \in 1..Len(D)) /\ (c.ref # 0 => c.ref \in 1..Len(D) /\ c.top # 0)
  BY DEF Grown, KeysOK
<1>2. c.top \in 0..Len(D2) /\ c.ref \in 0..Len(D2)
  BY DEF Grown, KeysOK
<1> QED BY <1>1, <1>2 DEF Grown, KeysOK, Latest

\* Another device's step disturbs no device: a guest's state stands on what only grows.
LEMMA DeviceStays ==
    ASSUME NEW D, NEW M, NEW D2, NEW M2, Grown(D, M, D2, M2),
           NEW k \in Nat, NEW k2 \in Nat, k <= k2, NEW E \in Nat, NEW E2 \in Nat, E <= E2,
           NEW sh, NEW dk, NEW c, NEW cl, NEW d \in Devices,
           d \in Guests \/ (D2 = D /\ M2 = M /\ k2 = k),
           DeviceOK(D, M, k, E, sh, dk, c, cl, d)
    PROVE  DeviceOK(D2, M2, k2, E2, sh, dk, c, cl, d)
<1>1. DiskOK(D2, M2, E2, dk)
  <2>1. 1..E \subseteq 1..E2
    OBVIOUS
  <2> QED BY <2>1, SnapStays DEF DeviceOK, DiskOK
<1>2. /\ Shaped(c) /\ c.mir \subseteq 1..E2 /\ SnapOK(D2, M2, c.snap)
      /\ ~c.open => c.top = 0 /\ cl.at = "idle"
      /\ c.open => sh.head # 0 /\ KeysOK(D2, M2, c, Holder(d))
  <2>1. 1..E \subseteq 1..E2
    OBVIOUS
  <2> QED BY <2>1, SnapStays, KeysStay DEF DeviceOK, SessionOK
<1>3. CASE d \in Guests
  <2>1. d \notin Owners
    BY <1>3, SharedTreeAssumption
  <2>2. ShelfOK(D2, k2, sh, d)
    <3>1. 1..k \subseteq 1..k2 /\ 1..Len(D) \subseteq 1..Len(D2) /\ 0..Len(D) \subseteq 0..Len(D2)
      BY DEF Grown
    <3>2. sh.head \in 0..Len(D) /\ sh.head <= k
      BY <1>3 DEF DeviceOK, ShelfOK
    <3>3. sh.head \in 0..Len(D2) /\ sh.head <= k2
      BY <3>1, <3>2
    <3> QED BY <1>3, <2>1, <3>1, <3>3 DEF DeviceOK, ShelfOK
  <2>3. SessionOK(D2, M2, k2, E2, sh, c, cl, d)
    <3>1. c.open => c.top <= k2
      <4>1. c.open => c.top \in 0..Len(D) /\ c.top <= k /\ Len(D) \in Nat
        BY <1>3 DEF DeviceOK, SessionOK, KeysOK, Grown
      <4> QED BY <4>1
    <3> QED BY <1>2, <2>1, <3>1 DEF SessionOK
  <2>4. CallOK(D2, k2, sh, cl, d)
    <3>1. CallOK(D, k, sh, cl, d)
      BY DEF DeviceOK
    <3>2. cl.at \in {"idle", "publish", "data"}
      BY <1>3, <3>1 DEF CallOK
    <3> QED BY <2>1, <3>1, <3>2 DEF CallOK
  <2> QED BY <1>1, <2>2, <2>3, <2>4 DEF DeviceOK
<1>4. CASE D2 = D /\ M2 = M /\ k2 = k
  BY <1>1, <1>2, <1>4 DEF DeviceOK, SessionOK
<1> QED BY <1>3, <1>4

-----------------------------------------------------------------------------
(* One device's step.                                                      *)

OthersStay(d) ==
  /\ shelf' = [shelf EXCEPT ![d] = shelf'[d]] /\ disk' = [disk EXCEPT ![d] = disk'[d]]
  /\ core' = [core EXCEPT ![d] = core'[d]] /\ call' = [call EXCEPT ![d] = call'[d]]
OwnPart(d) == DeviceOK(bodies, Minted, Len(chain), Len(entries),
                       shelf[d], disk[d], core[d], call[d], d)
ServerPart == sent \subseteq 1..Len(entries) /\ SnapOK(bodies, Minted, base)

LEMMA SizesOf ==
    ASSUME TreeInv
    PROVE  /\ Len(bodies) \in Nat /\ 1 <= Len(bodies) /\ Len(bodies) \in 1..Len(bodies)
           /\ Len(chain) \in Nat /\ Len(chain) <= Len(bodies) /\ Len(entries) \in Nat
<1>1. Len(bodies) \in Nat /\ 1 <= Len(bodies)
  BY LineHas DEF TreeInv
<1> QED BY <1>1 DEF TreeInv

LEMMA GrownFrom ==
    ASSUME TreeInv
    PROVE  Grown(bodies, Minted, bodies, Minted)
BY SizesOf DEF Grown

\* An action's new value at d is its only change.
LEMMA Touched ==
    ASSUME NEW f, NEW d \in Devices, f = [g \in Devices |-> f[g]]
    PROVE  /\ f = [f EXCEPT ![d] = f[d]]
           /\ \A x, f2 : f2 = [f EXCEPT ![d] = x] => f2[d] = x /\ f2 = [f EXCEPT ![d] = f2[d]]
OBVIOUS

LEMMA PartsOf ==
    ASSUME TreeInv, NEW d \in Devices
    PROVE  /\ ShelfOK(bodies, Len(chain), shelf[d], d)
           /\ DiskOK(bodies, Minted, Len(entries), disk[d])
           /\ SessionOK(bodies, Minted, Len(chain), Len(entries), shelf[d], core[d], call[d], d)
           /\ CallOK(bodies, Len(chain), shelf[d], call[d], d)
           /\ ServerPart
BY DEF TreeInv, DeviceOK, ServerPart

\* A step of one device that writes neither bodies, keyrings nor entries.
LEMMA StepKeeps ==
    ASSUME TreeInv, NEW d \in Devices, UNCHANGED <<bodies, chain, entries>>,
           OthersStay(d), OwnPart(d)', ServerPart'
    PROVE  TreeInv'
<1>1. Minted' = Minted
  BY DEF Minted
<1>2. /\ shelf' = [g \in Devices |-> shelf'[g]] /\ disk' = [g \in Devices |-> disk'[g]]
      /\ core' = [g \in Devices |-> core'[g]] /\ call' = [g \in Devices |-> call'[g]]
      /\ \A g \in Devices \ {d} : /\ shelf'[g] = shelf[g] /\ disk'[g] = disk[g]
                                  /\ core'[g] = core[g] /\ call'[g] = call[g]
  BY DEF TreeInv, OthersStay
<1>3. ASSUME NEW g \in Devices
      PROVE  DeviceOK(bodies', Minted', Len(chain'), Len(entries'),
                      shelf'[g], disk'[g], core'[g], call'[g], g)
  <2>1. CASE g = d
    BY <2>1 DEF OwnPart
  <2>2. CASE g # d
    BY <1>1, <1>2, <2>2 DEF TreeInv
  <2> QED BY <2>1, <2>2
<1> QED BY <1>1, <1>2, <1>3 DEF TreeInv, ServerPart

-----------------------------------------------------------------------------
(* A device's own part.                                                    *)

LEMMA FounderActs ==
    ASSUME NEW b, PageOK(b)
    PROVE  Acts(b, Founding)
<1>1. PICK x \in b.roster : x.id = Founding /\ x.role = Owner
  BY DEF PageOK
<1> QED BY <1>1 DEF Acts, Owner, Maintainer

LEMMA ActingIsMember ==
    ASSUME NEW b, NEW m, Acts(b, m)
    PROVE  m \in Members(b)
BY DEF Acts, Members

LEMMA HolderIs ==
    ASSUME NEW d \in Devices
    PROVE  /\ Holder(d) \in Folk
           /\ d \in Owners => Holder(d) = Founding /\ d \notin Guests
           /\ d \in Guests => Holder(d) = d /\ d \notin Owners
           /\ d \in Owners \/ d \in Guests
BY SharedTreeAssumption DEF Devices, Holder, Folk

\* A body of the line.
LEMMA BodyOf ==
    ASSUME LineOK(bodies), MintsOK(bodies, Minted), NEW h \in 1..Len(bodies)
    PROVE  /\ PageOK(bodies[h]) /\ RevOf(h) = h /\ bodies[h].prev = h - 1
           /\ Newest(h) = Latest(Minted, h)
           /\ \A m \in Members(bodies[h]) : WriteKey(h, m) = Latest(Minted, h)
           /\ \A m : Reached(h, m) # {} => m \in Members(bodies[h])
           /\ \A m \in Members(bodies[h]) : Reached(h, m) # {}
<1>1. PageOK(bodies[h]) /\ RevOf(h) = h /\ bodies[h].prev = h - 1
  BY DEF LineOK, RevOf
<1>2. \A m \in Members(bodies[h]) : WriteKey(h, m) = Latest(Minted, h)
  BY WritesLatest DEF WriteKey
<1>3. /\ DOMAIN bodies[h].epochs = 1..Len(bodies[h].epochs)
      /\ Len(bodies[h].epochs) \in 1..Len(bodies[h].epochs)
  BY <1>1, Seated
<1>4. ASSUME NEW m, Reached(h, m) # {} PROVE m \in Members(bodies[h])
  <2>1. PICK i \in Reach(bodies[h], m) : TRUE
    BY <1>4 DEF Reached
  <2>2. i \in DOMAIN bodies[h].epochs /\ m \in bodies[h].epochs[i]
    BY <2>1 DEF Reach
  <2> QED BY <1>1, <1>3, <2>2 DEF PageOK
<1>5. ASSUME NEW m \in Members(bodies[h]) PROVE Reached(h, m) # {}
  <2>1. Len(bodies[h].epochs) \in Reach(bodies[h], m)
    BY <1>1, <1>3 DEF Reach, PageOK
  <2> QED BY <2>1 DEF Reached
<1>6. Newest(h) = Latest(Minted, h)
  <2>1. Newest(h) = Minted[h][Len(Minted[h])]
    BY Zenon DEF Newest, Last
  <2> QED BY <2>1 DEF Latest
<1> QED BY <1>1, <1>2, <1>4, <1>5, <1>6

LEMMA BodyIs ==
    ASSUME TreeInv, NEW h \in 1..Len(bodies)
    PROVE  /\ PageOK(bodies[h]) /\ RevOf(h) = h /\ bodies[h].prev = h - 1
           /\ Newest(h) = Latest(Minted, h)
           /\ \A m \in Members(bodies[h]) : WriteKey(h, m) = Latest(Minted, h)
           /\ \A m : Reached(h, m) # {} => m \in Members(bodies[h])
           /\ \A m \in Members(bodies[h]) : Reached(h, m) # {}
BY BodyOf DEF TreeInv

\* A session unlocked on a body that lists its holder seals with that body's newest epoch.
LEMMA FreshRuns ==
    ASSUME LineOK(bodies), MintsOK(bodies, Minted), NEW d \in Devices,
           NEW h \in 1..Len(bodies), NEW dk, NEW e, Fresh(d, h, dk, e),
           e.top = (IF bodies[h].shared = 0 THEN 0 ELSE h), Holder(d) \in Members(bodies[h])
    PROVE  /\ KeysOK(bodies, Minted, e, Holder(d)) /\ RunsOn(bodies, Minted, e, h)
           /\ e.top <= h
<1>1. e.wkey = Latest(Minted, h) /\ e.ref = e.top /\ e.top \in {0, h}
  BY BodyOf DEF Fresh
<1>2. Len(bodies) \in Nat
  BY LineHas
<1> QED BY <1>1, <1>2 DEF KeysOK, RunsOn

LEMMA RunsOnceOpened ==
    ASSUME LineOK(bodies), MintsOK(bodies, Minted), NEW d \in Devices, NEW k \in Nat, NEW E,
           NEW sh, NEW dk, NEW e, NEW cl,
           ShelfOK(bodies, k, sh, d), DiskOK(bodies, Minted, E, dk), sh.head # 0,
           Holder(d) \in Members(bodies[sh.head]), Fresh(d, sh.head, dk, e),
           e.top = (IF bodies[sh.head].shared = 0 THEN 0 ELSE sh.head),
           Current(bodies, cl) = Len(bodies) \/ d \in Guests
    PROVE  SessionOK(bodies, Minted, k, E, sh, e, cl, d)
<1>1. sh.head \in 1..Len(bodies) /\ Len(bodies) \in Nat
  BY LineHas DEF ShelfOK
<1>2. /\ KeysOK(bodies, Minted, e, Holder(d)) /\ RunsOn(bodies, Minted, e, sh.head)
      /\ e.top <= sh.head
  BY <1>1, FreshRuns
<1>3. Shaped(e) /\ e.open = TRUE /\ e.mir = dk.mir /\ e.snap = dk.snap
  BY DEF Fresh
<1>4. d \in Guests => e.top <= k
  <2>1. d \in Guests => sh.head <= k
    BY DEF ShelfOK
  <2>2. e.top \in 0..Len(bodies)
    BY <1>2 DEF KeysOK
  <2> QED BY <1>1, <1>2, <2>1, <2>2
<1>5. d \in Owners => Current(bodies, cl) = sh.head
  BY HolderIs DEF ShelfOK
<1> QED BY <1>2, <1>3, <1>4, <1>5 DEF SessionOK, DiskOK

LEMMA OpenedRuns ==
    ASSUME TreeInv, NEW d \in Devices, NEW k \in Nat, NEW sh, NEW dk, NEW e, NEW cl,
           ShelfOK(bodies, k, sh, d), DiskOK(bodies, Minted, Len(entries), dk), sh.head # 0,
           Holder(d) \in Members(bodies[sh.head]), Fresh(d, sh.head, dk, e),
           e.top = (IF bodies[sh.head].shared = 0 THEN 0 ELSE sh.head),
           Current(bodies, cl) = Len(bodies) \/ d \in Guests
    PROVE  SessionOK(bodies, Minted, k, Len(entries), sh, e, cl, d)
BY RunsOnceOpened DEF TreeInv

\* A data step leaves the session what it seals with, and seals at most one snapshot.
LEMMA SessionSteps ==
    ASSUME TreeInv, NEW d \in Devices, NEW k, NEW sh, NEW c, NEW cl, NEW cl2, NEW e,
           SessionOK(bodies, Minted, k, Len(entries), sh, c, cl, d), c.open,
           Stepped(d, c, e), Current(bodies, cl2) = Current(bodies, cl)
    PROVE  /\ SessionOK(bodies, Minted, k, Len(entries), sh, e, cl2, d)
           /\ SnapOK(bodies, Minted, e.snap)
<1>1. sent \subseteq 1..Len(entries) /\ SnapOK(bodies, Minted, base)
  BY DEF TreeInv
<1>2. e.mir \subseteq 1..Len(entries)
  BY <1>1 DEF Stepped, SessionOK
<1>3. KeysOK(bodies, Minted, c, Holder(d)) /\ SnapOK(bodies, Minted, c.snap)
  BY DEF SessionOK
<1>4. KeysOK(bodies, Minted, e, Holder(d))
  BY <1>3 DEF KeysOK, Stepped
<1>5. SnapOK(bodies, Minted, e.snap)
  <2>1. CASE e.snap \in {c.snap, base}
    BY <1>1, <1>3, <2>1
  <2>2. CASE Sealable(d, c, e.snap)
    <3>1. Holder(d) \in Folk
      BY HolderIs
    <3> QED BY <1>3, <2>2, <3>1 DEF Sealable, SnapOK, SealOK, KeysOK
  <2> QED BY <2>1, <2>2 DEF Stepped
<1> QED BY <1>2, <1>4, <1>5 DEF SessionOK, Stepped, RunsOn

LEMMA ClosedOK ==
    ASSUME NEW D, NEW M, NEW k, NEW E, NEW sh, NEW d
    PROVE  SessionOK(D, M, k, E, sh, NoCore, Resting, d)
<1>1. PICK mk, no, z, es :
        /\ mk = [i \in 1..MaxEntries |-> "unseen"] /\ no = FALSE /\ z = 0 /\ es = {}
  OBVIOUS
<1>2. PICK nc : nc = NoCore
  OBVIOUS
<1>3. nc = [open |-> no, inst |-> es, top |-> z, keys |-> es, wkey |-> z,
            ref |-> z, eng |-> es, mark |-> mk, mir |-> es,
            snap |-> NoSnap, refused |-> NoSnap, len |-> z]
  BY <1>1, <1>2, Zenon DEF NoCore
<1>4. Shaped(nc) /\ nc.open = no /\ nc.top = z /\ nc.mir = es /\ nc.snap = NoSnap
  BY <1>3 DEF Shaped
<1>5. Resting.at = "idle"
  BY DEF Resting
<1> QED BY <1>1, <1>2, <1>4, <1>5 DEF SessionOK, SnapOK

LEMMA RestingOK ==
    ASSUME NEW D, NEW k, NEW sh, NEW d
    PROVE  CallOK(D, k, sh, Resting, d) /\ Current(D, Resting) = Len(D)
BY DEF CallOK, Current, Resting

-----------------------------------------------------------------------------
(* Each action.                                                            *)

LEMMA CrashKeeps ==
    ASSUME TreeInv, NEW d \in Devices, Crash(d)
    PROVE  TreeInv'
<1>1. UNCHANGED <<bodies, chain, entries, sent, base, shelf, disk>>
  BY DEF Crash, serverSide
<1>2. core'[d] = NoCore /\ call'[d] = Resting /\ OthersStay(d)
  <2>1. core' = [core EXCEPT ![d] = NoCore] /\ call' = [call EXCEPT ![d] = Resting]
    BY DEF Crash
  <2> QED BY <1>1, <2>1, Touched DEF TreeInv, OthersStay
<1>3. Minted' = Minted
  BY <1>1 DEF Minted
<1>4. OwnPart(d)'
  BY <1>1, <1>2, <1>3, PartsOf, ClosedOK, RestingOK DEF OwnPart, DeviceOK
<1>5. ServerPart'
  BY <1>1, <1>3, PartsOf DEF ServerPart
<1> QED BY <1>1, <1>2, <1>4, <1>5, StepKeeps

LEMMA OpenStoredKeeps ==
    ASSUME TreeInv, NEW d \in Devices, OpenStored(d)
    PROVE  TreeInv'
<1>1. /\ UNCHANGED <<bodies, chain, entries, sent, base, shelf, disk, call>>
      /\ ~core[d].open /\ shelf[d].head # 0
      /\ Holder(d) \in Members(bodies[shelf[d].head])
  BY DEF OpenStored, serverSide
<1>2. PICK e : e = Opened(d, shelf[d].head, shelf[d].kept, disk[d])
  OBVIOUS
<1>3. core'[d] = e /\ OthersStay(d)
  <2>1. core' = [core EXCEPT ![d] = e]
    BY <1>2 DEF OpenStored
  <2> QED BY <1>1, <2>1, Touched DEF TreeInv, OthersStay
<1>4. Minted' = Minted
  BY <1>1 DEF Minted
<1>5. /\ Fresh(d, shelf[d].head, disk[d], e)
      /\ e.top = IF bodies[shelf[d].head].shared = 0 THEN 0 ELSE shelf[d].head
  BY <1>2, OpenedIs
<1>6. Current(bodies, call[d]) = Len(bodies)
  BY <1>1, PartsOf DEF SessionOK, Current
<1>7. SessionOK(bodies, Minted, Len(chain), Len(entries), shelf[d], e, call[d], d)
  BY <1>1, <1>5, <1>6, PartsOf, SizesOf, OpenedRuns
<1>8. OwnPart(d)'
  BY <1>1, <1>3, <1>4, <1>7, PartsOf DEF OwnPart, DeviceOK
<1>9. ServerPart'
  BY <1>1, <1>4, PartsOf DEF ServerPart
<1> QED BY <1>1, <1>3, <1>8, <1>9, StepKeeps

LEMMA BeginKeeps ==
    ASSUME TreeInv, NEW d \in Devices, Begin(d)
    PROVE  TreeInv'
<1>1. /\ UNCHANGED <<bodies, chain, entries, sent, base, shelf, disk, core>>
      /\ d \in Owners /\ core[d].open /\ call[d] = Resting
  BY DEF Begin, serverSide
<1>2. PICK o \in Calls(d) : call' = [call EXCEPT ![d] = o]
  BY DEF Begin
<1>3. call'[d] = o /\ OthersStay(d)
  BY <1>1, <1>2, Touched DEF TreeInv, OthersStay
<1>4. Minted' = Minted
  BY <1>1 DEF Minted
<1>5. /\ o = [at |-> o.at, op |-> o.op, who |-> o.who, role |-> o.role]
      /\ o.at \in {"pin", "author"} /\ o.op \in {"add", "remove", "promote", "demote"}
      /\ o.who \in Guests /\ (o.op # "remove" => o.role \in 2..5)
  <2> DEFINE b == bodies[shelf[d].head]
             plain == {m \in b.roster : ~IsFounder(m)}
             asked(op, m, r) == [at |-> IF op \in {"remove", "demote"} THEN "pin" ELSE "author",
                                 op |-> op, who |-> m, role |-> r]
  <2>1. \/ \E g \in Guests \ Members(b), r \in GuestRoles : o = asked("add", g, r)
        \/ \E m \in plain : o = asked("remove", m.id, 0)
        \/ \E m \in plain : o = asked("promote", m.id, CoOwner)
        \/ \E m \in plain, r \in GuestRoles : o = asked("demote", m.id, r)
    BY <1>2 DEF Calls
  <2>2. GuestRoles \subseteq 2..5 /\ CoOwner \in 2..5
    BY SharedTreeAssumption DEF CoOwner
  <2>3. \A m \in plain : m.id \in Guests
    <3>1. shelf[d].head \in 1..Len(bodies)
      BY <1>1, PartsOf, SizesOf DEF ShelfOK
    <3>2. PageOK(b)
      BY <3>1, BodyIs
    <3>3. \A m \in b.roster : m.id \in Folk /\ (m.id = Founding <=> m.role = Owner)
      BY <3>2, Seated DEF PageOK, Seat
    <3> QED BY <3>3 DEF Folk, IsFounder
  <2> HIDE DEF plain, b
  <2> QED BY <2>1, <2>2, <2>3
<1>6. CallOK(bodies, Len(chain), shelf[d], o, d)
  BY <1>1, <1>5, HolderIs DEF CallOK
<1>7. SessionOK(bodies, Minted, Len(chain), Len(entries), shelf[d], core[d], o, d)
  <2>1. Current(bodies, o) = Current(bodies, call[d])
    BY <1>1, <1>5 DEF Current, Resting
  <2> QED BY <1>1, <2>1, PartsOf DEF SessionOK
<1>8. OwnPart(d)'
  BY <1>1, <1>3, <1>4, <1>6, <1>7, PartsOf DEF OwnPart, DeviceOK
<1>9. ServerPart'
  BY <1>1, <1>4, PartsOf DEF ServerPart
<1> QED BY <1>1, <1>3, <1>8, <1>9, StepKeeps

LEMMA DecidePendingKeeps ==
    ASSUME TreeInv, NEW d \in Devices, DecidePending(d)
    PROVE  TreeInv'
<1>1. /\ UNCHANGED <<bodies, chain, entries, sent, base, shelf, disk, call>>
      /\ core[d].open
  BY DEF DecidePending, serverSide
<1>2. PICK i, keep : core' = [core EXCEPT ![d].mark[i] = "past",
                                          ![d].eng = IF keep THEN @ \cup {i} ELSE @]
  BY DEF DecidePending
<1>3. PICK c : c = core[d]
  OBVIOUS
<1>4. PICK mk, en : mk = [c.mark EXCEPT ![i] = "past"]
                    /\ en = IF keep THEN c.eng \cup {i} ELSE c.eng
  OBVIOUS
<1>5. PICK e : e = [c EXCEPT !.mark = mk, !.eng = en]
  OBVIOUS
<1>6. core'[d] = e /\ OthersStay(d)
  <2>1. core' = [core EXCEPT ![d] = e]
    BY <1>2, <1>3, <1>4, <1>5
  <2> QED BY <1>1, <2>1, Touched DEF TreeInv, OthersStay
<1>7. Minted' = Minted
  BY <1>1 DEF Minted
<1>8. SessionOK(bodies, Minted, Len(chain), Len(entries), shelf[d], c, call[d], d)
  BY <1>3, PartsOf
<1>9. Shaped(c)
  BY <1>8 DEF SessionOK
<1>10. /\ Shaped(e) /\ e.open = c.open /\ e.top = c.top /\ e.ref = c.ref /\ e.wkey = c.wkey
       /\ e.mir = c.mir /\ e.snap = c.snap
  BY <1>5, <1>9 DEF Shaped
<1>11. SessionOK(bodies, Minted, Len(chain), Len(entries), shelf[d], e, call[d], d)
  BY <1>8, <1>10 DEF SessionOK, KeysOK, RunsOn
<1>12. OwnPart(d)'
  BY <1>1, <1>6, <1>7, <1>11, PartsOf DEF OwnPart, DeviceOK
<1>13. ServerPart'
  BY <1>1, <1>7, PartsOf DEF ServerPart
<1> QED BY <1>1, <1>6, <1>12, <1>13, StepKeeps

\* A data step, landed or not, moves only what the session, the disk and the server hold.
LEMMA DataMoves ==
    ASSUME TreeInv, NEW d \in Devices, NEW k, core[d].open, UNCHANGED <<bodies, entries>>,
           DataFails(d, k) \/ DataLands(d, k)
    PROVE  /\ core' = [core EXCEPT ![d] = core'[d]] /\ disk' = [disk EXCEPT ![d] = disk'[d]]
           /\ core'[d] = core[d] \/ Stepped(d, core[d], core'[d])
           /\ DiskOK(bodies, Minted, Len(entries), disk'[d])
           /\ sent' \subseteq 1..Len(entries) /\ SnapOK(bodies, Minted, base')
<1>1. Shaped(core[d])
  BY PartsOf DEF SessionOK
<1>2. Stepped(d, core[d], Fetched(d)) /\ Stepped(d, core[d], Folded(d, k))
  BY <1>1, FetchedIs, FoldedIs
<1>3. core = [g \in Devices |-> core[g]] /\ disk = [g \in Devices |-> disk[g]]
  BY DEF TreeInv
<1>4. CASE DataFails(d, k)
  <2>1. UNCHANGED <<sent, base, disk>>
    BY <1>4 DEF DataFails
  <2>2. \/ core' = core \/ core' = [core EXCEPT ![d] = Fetched(d)]
        \/ core' = [core EXCEPT ![d] = Folded(d, k)]
    BY <1>4 DEF DataFails
  <2>3. /\ core' = [core EXCEPT ![d] = core'[d]]
        /\ core'[d] \in {core[d], Fetched(d), Folded(d, k)}
    BY <1>3, <2>2, Touched
  <2>4. disk' = [disk EXCEPT ![d] = disk'[d]]
    BY <1>3, <2>1, Touched
  <2> QED BY <1>2, <2>1, <2>3, <2>4, PartsOf DEF ServerPart
<1>5. CASE DataLands(d, k)
  <2>1. PICK e : e = Folded(d, k)
    OBVIOUS
  <2>2. PICK dk : dk = [mir |-> e.mir, snap |-> e.snap]
    OBVIOUS
  <2>3. /\ core' = [core EXCEPT ![d] = e] /\ disk' = [disk EXCEPT ![d] = dk]
        /\ sent' = sent \cup e.mir /\ base' = e.snap
    BY <1>5, <2>1, <2>2, Zenon DEF DataLands
  <2>4. /\ core'[d] = e /\ disk'[d] = dk
        /\ core' = [core EXCEPT ![d] = core'[d]] /\ disk' = [disk EXCEPT ![d] = disk'[d]]
    BY <1>3, <2>3, Touched
  <2>5. Stepped(d, core[d], e)
    BY <1>2, <2>1
  <2>6. /\ SessionOK(bodies, Minted, Len(chain), Len(entries), shelf[d], e, call[d], d)
        /\ SnapOK(bodies, Minted, e.snap)
    BY <2>5, PartsOf, SessionSteps
  <2>7. e.mir \subseteq 1..Len(entries) /\ sent \subseteq 1..Len(entries)
    BY <2>6, PartsOf DEF SessionOK, ServerPart
  <2>8. DiskOK(bodies, Minted, Len(entries), dk)
    BY <2>2, <2>6, <2>7 DEF DiskOK
  <2> QED BY <2>3, <2>4, <2>5, <2>6, <2>7, <2>8
<1> QED BY <1>4, <1>5

LEMMA DataKeeps ==
    ASSUME TreeInv, NEW d \in Devices, NEW k, DataFails(d, k) \/ DataLands(d, k),
           call[d].at # "idle", NEW cl, call' = [call EXCEPT ![d] = cl],
           CallOK(bodies, Len(chain), shelf[d], cl, d),
           Current(bodies, cl) = Current(bodies, call[d]),
           UNCHANGED <<bodies, chain, entries, shelf>>
    PROVE  TreeInv'
<1>1. core[d].open
  BY PartsOf DEF SessionOK
<1>2. /\ core' = [core EXCEPT ![d] = core'[d]] /\ disk' = [disk EXCEPT ![d] = disk'[d]]
      /\ core'[d] = core[d] \/ Stepped(d, core[d], core'[d])
      /\ DiskOK(bodies, Minted, Len(entries), disk'[d])
      /\ sent' \subseteq 1..Len(entries) /\ SnapOK(bodies, Minted, base')
  BY <1>1, DataMoves
<1>3. call'[d] = cl /\ OthersStay(d)
  <2>1. call'[d] = cl /\ call' = [call EXCEPT ![d] = call'[d]] /\ shelf' = [shelf EXCEPT ![d] = shelf'[d]]
    BY Touched DEF TreeInv
  <2> QED BY <1>2, <2>1 DEF OthersStay
<1>4. Minted' = Minted
  BY DEF Minted
<1>5. PICK e : e = core'[d]
  OBVIOUS
<1>6. SessionOK(bodies, Minted, Len(chain), Len(entries), shelf[d], e, cl, d)
  <2>1. SessionOK(bodies, Minted, Len(chain), Len(entries), shelf[d], core[d], call[d], d)
    BY PartsOf
  <2>2. CASE e = core[d]
    BY <1>1, <2>1, <2>2 DEF SessionOK
  <2>3. CASE Stepped(d, core[d], e)
    BY <1>1, <2>1, <2>3, SessionSteps
  <2> QED BY <1>2, <1>5, <2>2, <2>3
<1>7. OwnPart(d)'
  BY <1>2, <1>3, <1>4, <1>5, <1>6, PartsOf DEF OwnPart, DeviceOK
<1>8. ServerPart'
  BY <1>2, <1>4 DEF ServerPart
<1> QED BY <1>3, <1>7, <1>8, StepKeeps

\* A call that moves to a later stage.
LEMMA StageOK ==
    ASSUME NEW D, NEW k, NEW sh, NEW cl, NEW d, CallOK(D, k, sh, cl, d),
           NEW at, NEW e, e = [cl EXCEPT !.at = at],
           \/ cl.at = "pin" /\ at = "author"
           \/ cl.at = "base" /\ at = "publish"
           \/ /\ cl.at = "publish" /\ at = "data"
              /\ d \in Owners /\ Len(D) \in sh.kept => k = Len(D)
    PROVE  /\ CallOK(D, k, sh, e, d) /\ e.at = at /\ e.op = cl.op
           /\ Current(D, e) = Current(D, cl)
<1>1. cl = [at |-> cl.at, op |-> cl.op, who |-> cl.who, role |-> cl.role]
  BY DEF CallOK
<1>2. /\ e = [at |-> e.at, op |-> e.op, who |-> e.who, role |-> e.role]
      /\ e.at = at /\ e.op = cl.op /\ e.who = cl.who /\ e.role = cl.role
  BY <1>1
<1>3. cl.at # "reopen" /\ at # "reopen"
  OBVIOUS
<1>4. CallOK(D, k, sh, e, d)
  <2>1. CASE cl.at = "pin" /\ at = "author"
    BY <1>2, <2>1 DEF CallOK
  <2>2. CASE cl.at = "base" /\ at = "publish"
    BY <1>2, <2>2 DEF CallOK
  <2>3. CASE cl.at = "publish" /\ at = "data"
    BY <1>2, <2>3 DEF CallOK
  <2> QED BY <2>1, <2>2, <2>3
<1> QED BY <1>2, <1>3, <1>4 DEF Current

LEMMA PinKeeps ==
    ASSUME TreeInv, NEW d \in Devices, Pin(d)
    PROVE  TreeInv'
<1>1. /\ UNCHANGED <<bodies, chain, entries, shelf>> /\ call[d].at = "pin"
      /\ DataFails(d, 1) \/ DataLands(d, 1)
  BY DEF Pin
<1>2. PICK e : e = [call[d] EXCEPT !.at = "author"]
  OBVIOUS
<1>3. call' = [call EXCEPT ![d] = e]
  BY <1>2 DEF Pin
<1>4. /\ CallOK(bodies, Len(chain), shelf[d], e, d)
      /\ Current(bodies, e) = Current(bodies, call[d])
  BY <1>1, <1>2, PartsOf, StageOK
<1> QED BY <1>1, <1>3, <1>4, DataKeeps

LEMMA SealBaseKeeps ==
    ASSUME TreeInv, NEW d \in Devices, SealBase(d)
    PROVE  TreeInv'
<1>1. /\ UNCHANGED <<bodies, chain, entries, shelf>> /\ call[d].at = "base"
      /\ DataFails(d, 1) \/ DataLands(d, 1)
  BY DEF SealBase
<1>2. PICK e : e = [call[d] EXCEPT !.at = "publish"]
  OBVIOUS
<1>3. call' = [call EXCEPT ![d] = e]
  BY <1>2 DEF SealBase
<1>4. /\ CallOK(bodies, Len(chain), shelf[d], e, d)
      /\ Current(bodies, e) = Current(bodies, call[d])
  BY <1>1, <1>2, PartsOf, StageOK
<1> QED BY <1>1, <1>3, <1>4, DataKeeps

LEMMA SyncDataKeeps ==
    ASSUME TreeInv, NEW d \in Devices, SyncData(d)
    PROVE  TreeInv'
<1>1. /\ UNCHANGED <<bodies, chain, entries, shelf>> /\ call[d].at = "data"
      /\ call' = [call EXCEPT ![d] = Resting]
      /\ \E k \in {0, 1} : DataFails(d, k) \/ DataLands(d, k)
  BY DEF SyncData
<1>2. PICK k \in {0, 1} : DataFails(d, k) \/ DataLands(d, k)
  BY <1>1
<1>3. Current(bodies, Resting) = Current(bodies, call[d])
  BY <1>1, RestingOK DEF Current
<1> QED BY <1>1, <1>2, <1>3, RestingOK, DataKeeps

LEMMA SequenceIs ==
    ASSUME NEW s, Len(s) \in Nat, s = [i \in 1..Len(s) |-> s[i]]
    PROVE  s \in Seq({s[i] : i \in 1..Len(s)})
<1> DEFINE S == {s[i] : i \in 1..Len(s)}
<1>1. PICK n \in Nat : n = Len(s)
  OBVIOUS
<1>2. s \in [1..n -> S]
  BY <1>1
<1> HIDE DEF S
<1>3. s \in Seq(S)
  BY <1>2
<1> QED BY <1>3 DEF S

LEMMA OnceAppended ==
    ASSUME NEW s, Len(s) \in Nat, s = [i \in 1..Len(s) |-> s[i]], NEW x
    PROVE  LET s2 == Append(s, x)
           IN  /\ Len(s2) = Len(s) + 1 /\ s2 = [i \in 1..Len(s2) |-> s2[i]]
               /\ s2[Len(s2)] = x /\ \A i \in 1..Len(s) : s2[i] = s[i]
<1>1. PICK S : S = {s[i] : i \in 1..Len(s)} \cup {x}
  OBVIOUS
<1>2. s \in Seq(S) /\ x \in S
  <2>1. s \in Seq({s[i] : i \in 1..Len(s)})
    BY SequenceIs
  <2> QED BY <1>1, <2>1
<1>3. PICK s2 : s2 = Append(s, x)
  OBVIOUS
<1>4. s2 \in Seq(S) /\ Len(s2) = Len(s) + 1 /\ s2[Len(s2)] = x /\ \A i \in 1..Len(s) : s2[i] = s[i]
  BY <1>2, <1>3
<1>5. s2 = [i \in 1..Len(s2) |-> s2[i]]
  BY <1>4
<1> QED BY <1>3, <1>4, <1>5

\* What a session that may commit seals is valid where it says it is.
LEMMA SealedIs ==
    ASSUME NEW D, NEW M, NEW d \in Devices, NEW c, KeysOK(D, M, c, Holder(d)),
           c.top # 0 => Acts(D[c.top], Holder(d))
    PROVE  EntryOK(D, M, Sealed(d, c))
<1>1. PICK x : x = Sealed(d, c)
  OBVIOUS
<1>2. x.by = Holder(d) /\ x.key = c.wkey /\ x.ref = c.ref /\ x.top = c.top
  BY <1>1 DEF Sealed
<1>3. Holder(d) \in Folk
  BY HolderIs
<1> QED BY <1>1, <1>2, <1>3 DEF EntryOK, SealOK, KeysOK

LEMMA CommitEditKeeps ==
    ASSUME TreeInv, NEW d \in Devices, CommitEdit(d)
    PROVE  TreeInv'
<1>1. /\ UNCHANGED <<bodies, chain, sent, base, shelf, call>>
      /\ core[d].open /\ MayCommit(core[d], d)
  BY DEF CommitEdit, serverSide
<1>2. PICK c, x, n : c = core[d] /\ x = Sealed(d, c) /\ n = Len(entries)
  OBVIOUS
<1>3. n \in Nat /\ n <= n + 1 /\ n + 1 \in Nat /\ n + 1 \in 1..(n + 1) /\ 1..n \subseteq 1..(n + 1)
  BY <1>2, SizesOf
<1>4. PICK mi, en, mk : /\ mi = c.mir \cup {n + 1} /\ en = c.eng \cup {n + 1}
                        /\ mk = [c.mark EXCEPT ![n + 1] = "past"]
  OBVIOUS
<1>5. PICK e, dk : /\ e = [c EXCEPT !.mir = mi, !.eng = en, !.mark = mk]
                   /\ dk = [mir |-> mi, snap |-> c.snap]
  OBVIOUS
<1>6. /\ entries' = Append(entries, x)
      /\ core' = [core EXCEPT ![d] = e] /\ disk' = [disk EXCEPT ![d] = dk]
  BY <1>2, <1>4, <1>5 DEF CommitEdit
<1>7. core'[d] = e /\ disk'[d] = dk /\ OthersStay(d)
  BY <1>1, <1>6, Touched DEF TreeInv, OthersStay
<1>8. Minted' = Minted
  BY <1>1 DEF Minted
<1>9. /\ Len(entries') = n + 1 /\ entries' = [i \in 1..Len(entries') |-> entries'[i]]
      /\ entries'[n + 1] = x /\ \A i \in 1..n : entries'[i] = entries[i]
  BY <1>2, <1>6, OnceAppended DEF TreeInv
<1>10. SessionOK(bodies, Minted, Len(chain), n, shelf[d], c, call[d], d)
  BY <1>2, PartsOf
<1>11. EntryOK(bodies, Minted, x)
  <2>1. c.top # 0 => Acts(bodies[c.top], Holder(d))
    BY <1>1, <1>2 DEF MayCommit, Shared, MayAct, Acts
  <2>2. KeysOK(bodies, Minted, c, Holder(d))
    BY <1>1, <1>2, <1>10 DEF SessionOK
  <2> QED BY <1>2, <2>1, <2>2, SealedIs
<1>12. \A i \in 1..Len(entries') : EntryOK(bodies', Minted', entries'[i])
  <2>1. \A i \in 1..(n + 1) : i \in 1..n \/ i = n + 1
    BY <1>3
  <2>2. \A i \in 1..n : EntryOK(bodies, Minted, entries[i])
    BY <1>2 DEF TreeInv
  <2> QED BY <1>1, <1>8, <1>9, <1>11, <2>1, <2>2
<1>13. /\ Shaped(e) /\ e.open = c.open /\ e.top = c.top /\ e.ref = c.ref /\ e.wkey = c.wkey
       /\ e.mir = mi /\ e.snap = c.snap
  <2>1. Shaped(c)
    BY <1>10 DEF SessionOK
  <2> QED BY <1>5, <2>1 DEF Shaped
<1>14. mi \subseteq 1..(n + 1)
  BY <1>3, <1>4, <1>10 DEF SessionOK
<1>15. SessionOK(bodies, Minted, Len(chain), n + 1, shelf[d], e, call[d], d)
  BY <1>10, <1>13, <1>14 DEF SessionOK, KeysOK, RunsOn
<1>16. DiskOK(bodies, Minted, n + 1, dk)
  BY <1>5, <1>10, <1>14 DEF DiskOK, SessionOK
<1>17. DeviceOK(bodies, Minted, Len(chain), n + 1, shelf[d], dk, e, call[d], d)
  BY <1>15, <1>16, PartsOf DEF DeviceOK
<1>18. /\ shelf' = [g \in Devices |-> shelf'[g]] /\ disk' = [g \in Devices |-> disk'[g]]
       /\ core' = [g \in Devices |-> core'[g]] /\ call' = [g \in Devices |-> call'[g]]
       /\ \A g \in Devices \ {d} : /\ shelf'[g] = shelf[g] /\ disk'[g] = disk[g]
                                   /\ core'[g] = core[g] /\ call'[g] = call[g]
  BY <1>7 DEF TreeInv, OthersStay
<1>19. ASSUME NEW g \in Devices
       PROVE  DeviceOK(bodies, Minted, Len(chain), n + 1, shelf'[g], disk'[g], core'[g], call'[g], g)
  <2>1. CASE g = d
    BY <1>1, <1>7, <1>17, <2>1
  <2>2. CASE g # d
    <3>1. DeviceOK(bodies, Minted, Len(chain), n, shelf[g], disk[g], core[g], call[g], g)
      BY <1>2 DEF TreeInv
    <3>2. DeviceOK(bodies, Minted, Len(chain), n + 1, shelf[g], disk[g], core[g], call[g], g)
      <4>1. Len(chain) <= Len(chain)
        BY SizesOf
      <4> QED BY <1>3, <3>1, <4>1, SizesOf, GrownFrom, DeviceStays
    <3> QED BY <1>18, <2>2, <3>2
  <2> QED BY <2>1, <2>2
<1>20. sent' \subseteq 1..(n + 1)
  BY <1>1, <1>2, <1>3 DEF TreeInv
<1>21. /\ LineOK(bodies') /\ MintsOK(bodies', Minted')
       /\ Len(chain') \in 0..Len(bodies') /\ chain' = Published(Len(chain'))
       /\ SnapOK(bodies', Minted', base')
  BY <1>1, <1>8 DEF TreeInv
<1> QED BY <1>1, <1>3, <1>8, <1>9, <1>12, <1>18, <1>19, <1>20, <1>21 DEF TreeInv

\* The published chain is the line's beginning.
LEMMA ChainIs ==
    ASSUME TreeInv
    PROVE  /\ DOMAIN chain = 1..Len(chain) /\ \A n \in 1..Len(chain) : chain[n] = n
           /\ chain # <<>> => Len(chain) \in 1..Len(bodies) /\ Last(chain) = Len(chain)
           /\ Len(chain) # 0 => chain # <<>>
           /\ Range(chain) = 1..Len(chain)
<1>1. chain = [i \in 1..Len(chain) |-> i] /\ Len(chain) \in Nat /\ Len(chain) <= Len(bodies)
  BY SizesOf DEF TreeInv, Published
<1>2. DOMAIN chain = 1..Len(chain) /\ \A n \in 1..Len(chain) : chain[n] = n
  BY <1>1
<1>3. Range(chain) = 1..Len(chain)
  BY <1>2 DEF Range
<1>4. chain # <<>> => Len(chain) # 0
  <2>1. PICK n \in Nat : n = Len(chain)
    BY <1>1
  <2>2. chain \in [1..n -> Nat]
    BY <1>1, <2>1
  <2>3. chain \in Seq(Nat)
    BY <2>2
  <2> QED BY <2>3
<1>5. chain # <<>> => Len(chain) \in 1..Len(bodies) /\ Last(chain) = Len(chain)
  <2>1. Last(chain) = chain[Len(chain)]
    BY Zenon DEF Last
  <2> QED BY <1>1, <1>2, <1>4, <2>1, SizesOf
<1>6. Len(chain) # 0 => chain # <<>>
  OBVIOUS
<1> QED BY <1>2, <1>3, <1>5, <1>6

LEMMA TopIs ==
    ASSUME TreeInv, NEW S, S \subseteq 1..Len(bodies), S # {}
    PROVE  TopOf(S) \in S /\ \A g \in S : g <= TopOf(S)
<1>1. \A g \in S : RevOf(g) = g
  BY BodyIs
<1>2. PICK N \in Nat : N = Len(bodies)
  BY SizesOf
<1>3. IsFiniteSet(S)
  <2>1. IsFiniteSet(1..N)
    BY <1>2, FS_Interval
  <2>2. S \subseteq 1..N
    BY <1>2
  <2> QED BY <2>1, <2>2, FS_Subset
<1>4. S \subseteq Nat
  BY <1>2
<1>5. PICK h \in S : \A g \in S : g <= h
  <2>1. Max(S) \in S /\ \A g \in S : g <= Max(S)
    BY <1>3, <1>4, MaxProperties
  <2> QED BY <2>1
<1>6. \E y \in S : \A g \in S : RevOf(g) <= RevOf(y)
  BY <1>1, <1>5
<1>7. TopOf(S) \in S /\ \A g \in S : RevOf(g) <= RevOf(TopOf(S))
  BY <1>6 DEF TopOf
<1> QED BY <1>1, <1>7

LEMMA LocalTopIs ==
    ASSUME TreeInv, NEW d \in Devices, shelf[d].head # 0
    PROVE  /\ LocalTop(d) \in shelf[d].kept /\ LocalTop(d) \in 1..Len(bodies)
           /\ \A g \in shelf[d].kept : g <= LocalTop(d)
<1>1. shelf[d].kept \subseteq 1..Len(bodies) /\ shelf[d].kept # {}
  BY PartsOf DEF ShelfOK
<1>2. /\ TopOf(shelf[d].kept) \in shelf[d].kept
      /\ \A g \in shelf[d].kept : g <= TopOf(shelf[d].kept)
  BY <1>1, TopIs
<1>3. LocalTop(d) = TopOf(shelf[d].kept)
  BY <1>1, <1>2, BodyIs DEF LocalTop
<1> QED BY <1>1, <1>2, <1>3

\* Only a guest is ever behind the server.
LEMMA Behind ==
    ASSUME TreeInv, NEW d \in Devices, shelf[d].head # 0, Len(chain) > LocalTop(d)
    PROVE  /\ d \in Guests /\ chain # <<>>
           /\ \A top \in LocalTop(d) + 1 .. Len(chain) :
                {chain[n] : n \in LocalTop(d) + 1 .. top} \subseteq 1..Len(chain)
<1>1. PICK t, k \in Nat : t = LocalTop(d) /\ k = Len(chain) /\ t \in 1..Len(bodies)
  BY LocalTopIs, SizesOf
<1>2. k > t /\ t >= 1 /\ t \in Nat
  BY <1>1, SizesOf
<1>3. d \in Guests
  <2>1. SUFFICES ASSUME d \in Owners PROVE FALSE
    BY HolderIs
  <2>2. k \in shelf[d].kept
    BY <1>1, <1>2, <2>1, PartsOf DEF ShelfOK
  <2>3. k <= t
    BY <1>1, <2>2, LocalTopIs
  <2> QED BY <1>2, <2>3
<1>4. ASSUME NEW top \in t + 1 .. k
      PROVE  {chain[n] : n \in t + 1 .. top} \subseteq 1..k
  <2>1. \A n \in t + 1 .. top : n \in 1..k
    BY <1>2
  <2> QED BY <1>1, <2>1, ChainIs
<1> QED BY <1>1, <1>2, <1>3, <1>4, ChainIs

\* A guest's session refreshed onto the head it followed to.
LEMMA RefreshRuns ==
    ASSUME TreeInv, NEW d \in Guests, NEW h \in 1..Len(bodies), NEW k \in Nat, h <= k,
           NEW sh, NEW sh2, sh2.head # 0, NEW c, NEW cl, NEW cl2, c.open,
           SessionOK(bodies, Minted, k, Len(entries), sh, c, cl, d),
           NEW e, Refreshes(d, c, h, e)
    PROVE  SessionOK(bodies, Minted, k, Len(entries), sh2, e, cl2, d)
<1>1. Holder(d) = d /\ d \notin Owners
  BY HolderIs DEF Devices
<1>2. KeysOK(bodies, Minted, c, d) /\ c.top <= k
  BY <1>1 DEF SessionOK
<1>3. /\ PageOK(bodies[h]) /\ RevOf(h) = h
      /\ d \in Members(bodies[h]) => WriteKey(h, d) = Latest(Minted, h)
      /\ Reached(h, d) # {} <=> d \in Members(bodies[h])
  BY BodyIs
<1>4. h \in Nat /\ h # 0 /\ h \in 0..Len(bodies) /\ Len(bodies) \in Nat
  BY SizesOf
<1>5. KeysOK(bodies, Minted, e, d) /\ e.top <= k
  <2>1. CASE Reached(h, d) # {}
    <3>1. e.wkey = Latest(Minted, h) /\ e.ref = h
      BY <1>1, <1>3, <2>1 DEF Refreshes
    <3>2. bodies[h].shared # 0
      <4>1. d # Founding
        BY SharedTreeAssumption
      <4> QED BY <1>3, <2>1, <4>1 DEF PageOK
    <3>3. e.top = h
      BY <3>2 DEF Refreshes
    <3> QED BY <1>4, <3>1, <3>3 DEF KeysOK
  <2>2. CASE Reached(h, d) = {}
    <3>1. e.wkey = c.wkey /\ e.ref = c.ref
      BY <2>2 DEF Refreshes
    <3>2. CASE bodies[h].shared = 0
      <4>1. e.top = c.top
        BY <3>2 DEF Refreshes
      <4> QED BY <1>2, <3>1, <4>1 DEF KeysOK
    <3>3. CASE bodies[h].shared # 0
      <4>1. e.top = h
        BY <3>3 DEF Refreshes
      <4>2. d \notin Members(bodies[h]) /\ ~Acts(bodies[h], d)
        BY <1>3, <2>2, ActingIsMember
      <4> QED BY <1>2, <1>4, <3>1, <4>1, <4>2 DEF KeysOK
    <3> QED BY <3>2, <3>3
  <2> QED BY <2>1, <2>2
<1> QED BY <1>1, <1>5 DEF SessionOK, Refreshes

LEMMA SyncKeyringKeeps ==
    ASSUME TreeInv, NEW d \in Devices, SyncKeyring(d)
    PROVE  TreeInv'
<1>1. UNCHANGED <<bodies, chain, entries, sent, base, disk>> /\ core[d].open /\ call[d] = Resting
  BY DEF SyncKeyring, serverSide
<1>2. PICK cl : cl = [Resting EXCEPT !.at = "publish", !.op = "tick"]
  OBVIOUS
<1>3. call' = [call EXCEPT ![d] = cl]
  BY <1>2 DEF SyncKeyring
<1>4. Minted' = Minted
  BY <1>1 DEF Minted
<1>5. cl.at = "publish" /\ cl = [at |-> cl.at, op |-> cl.op, who |-> cl.who, role |-> cl.role]
  BY <1>2 DEF Resting
<1>6. \A D, k, sh : CallOK(D, k, sh, cl, d)
  BY <1>5 DEF CallOK
<1>7. Current(bodies, cl) = Current(bodies, call[d])
  BY <1>1, <1>5, RestingOK DEF Current
<1>8. ServerPart'
  BY <1>1, <1>4, PartsOf DEF ServerPart
<1>9. SessionOK(bodies, Minted, Len(chain), Len(entries), shelf[d], core[d], call[d], d)
      /\ shelf[d].head # 0 /\ Shaped(core[d])
  BY <1>1, PartsOf DEF SessionOK
<1>10. CASE UNCHANGED <<shelf, core>>
  <2>1. call'[d] = cl /\ OthersStay(d)
    BY <1>1, <1>3, <1>10, Touched DEF TreeInv, OthersStay
  <2>2. SessionOK(bodies, Minted, Len(chain), Len(entries), shelf[d], core[d], cl, d)
    BY <1>1, <1>7, <1>9 DEF SessionOK
  <2>3. OwnPart(d)'
    BY <1>1, <1>4, <1>6, <1>10, <2>1, <2>2, PartsOf DEF OwnPart, DeviceOK
  <2> QED BY <1>1, <1>8, <2>1, <2>3, StepKeeps
<1>11. CASE ~UNCHANGED <<shelf, core>>
  <2> DEFINE new == {chain[n] : n \in LocalTop(d) + 1 .. Len(chain)}
             kept == shelf[d].kept \cup new
             h == Len(chain)
  <2>1. PICK k2, sh, e : /\ k2 = kept /\ sh = OnShelf(Last(chain), k2)
                         /\ e = Refreshed(d, core[d], Last(chain), k2)
    OBVIOUS
  <2>2. /\ ~(Len(chain) <= LocalTop(d))
        /\ shelf' = [shelf EXCEPT ![d] = sh] /\ core' = [core EXCEPT ![d] = e]
    BY <1>11, <2>1, Zenon DEF SyncKeyring
  <2>3. Len(chain) > LocalTop(d)
    BY <1>9, <2>2, SizesOf, LocalTopIs
  <2>4. d \in Guests /\ chain # <<>> /\ Last(chain) = h /\ h \in 1..Len(bodies) /\ h \in Nat
    BY <1>9, <2>3, Behind, ChainIs, SizesOf
  <2>5. new \subseteq 1..h
    <3>1. h \in LocalTop(d) + 1 .. h
      BY <1>9, <2>3, LocalTopIs, SizesOf
    <3> QED BY <1>9, <2>3, <3>1, Behind
  <2>6. shelf'[d] = sh /\ core'[d] = e /\ call'[d] = cl /\ OthersStay(d)
    BY <1>1, <1>3, <2>2, Touched DEF TreeInv, OthersStay
  <2> HIDE DEF new
  <2>7. ShelfOK(bodies, h, sh, d)
    <3>1. sh.head = h /\ sh.kept = k2 /\ sh = OnShelf(sh.head, sh.kept)
      BY <2>1, <2>4 DEF OnShelf
    <3>2. shelf[d].kept \subseteq 1..h /\ shelf[d].kept # {}
      BY <1>9, <2>4, PartsOf DEF ShelfOK
    <3>3. k2 \subseteq 1..h /\ k2 # {}
      BY <2>1, <2>5, <3>2
    <3>4. 1..h \subseteq 1..Len(bodies) /\ h \in 0..Len(bodies) /\ h # 0 /\ h <= h
      BY <2>4, SizesOf
    <3> QED BY <2>4, <3>1, <3>3, <3>4, HolderIs DEF ShelfOK
  <2>8. Refreshes(d, core[d], h, e)
    BY <1>9, <2>1, <2>4, RefreshedIs
  <2>9. SessionOK(bodies, Minted, h, Len(entries), sh, e, cl, d)
    <3>1. sh.head # 0 /\ h <= h
      BY <2>1, <2>4 DEF OnShelf
    <3> QED BY <1>1, <1>9, <2>4, <2>8, <3>1, RefreshRuns
  <2>10. OwnPart(d)'
    BY <1>1, <1>4, <1>6, <2>6, <2>7, <2>9, PartsOf DEF OwnPart, DeviceOK
  <2> QED BY <1>1, <1>8, <2>6, <2>10, StepKeeps
<1> QED BY <1>10, <1>11

LEMMA TornSyncKeeps ==
    ASSUME TreeInv, NEW d \in Devices, TornSync(d)
    PROVE  TreeInv'
<1>1. /\ UNCHANGED <<bodies, chain, entries, sent, base, disk, call>> /\ call[d] = Resting
      /\ Shared(core[d]) /\ Len(chain) > LocalTop(d)
  BY DEF TornSync, serverSide
<1>2. core[d].open /\ shelf[d].head # 0
  BY <1>1, PartsOf DEF SessionOK, Shared
<1>3. PICK top \in LocalTop(d) + 1 .. Len(chain) :
        shelf' = [shelf EXCEPT ![d].kept = @ \cup {chain[n] : n \in LocalTop(d) + 1 .. top}]
  BY DEF TornSync
<1>4. PICK new : new = {chain[n] : n \in LocalTop(d) + 1 .. top}
  OBVIOUS
<1>5. d \in Guests /\ new \subseteq 1..Len(chain)
  BY <1>1, <1>2, <1>4, Behind
<1>6. PICK kept : kept = shelf[d].kept \cup new
  OBVIOUS
<1>7. PICK sh : sh = [shelf[d] EXCEPT !.kept = kept]
  OBVIOUS
<1>8. shelf'[d] = sh /\ core'[d] = NoCore /\ call'[d] = Resting /\ OthersStay(d)
  <2>1. shelf' = [shelf EXCEPT ![d] = sh]
    BY <1>3, <1>4, <1>6, <1>7
  <2>2. core' = [core EXCEPT ![d] = NoCore]
    BY DEF TornSync
  <2> QED BY <1>1, <2>1, <2>2, Touched DEF TreeInv, OthersStay
<1>9. Minted' = Minted
  BY <1>1 DEF Minted
<1>10. ShelfOK(bodies, Len(chain), sh, d)
  <2>1. ShelfOK(bodies, Len(chain), shelf[d], d)
    BY PartsOf
  <2>2. sh.head = shelf[d].head /\ sh.kept = kept /\ sh = OnShelf(sh.head, sh.kept)
    BY <1>7, <2>1 DEF ShelfOK, OnShelf
  <2>3. 1..Len(chain) \subseteq 1..Len(bodies)
    BY SizesOf
  <2> QED BY <1>2, <1>5, <1>6, <2>1, <2>2, <2>3, HolderIs DEF ShelfOK
<1>11. OwnPart(d)'
  BY <1>1, <1>8, <1>9, <1>10, PartsOf, ClosedOK, RestingOK DEF OwnPart, DeviceOK
<1>12. ServerPart'
  BY <1>1, <1>9, PartsOf DEF ServerPart
<1> QED BY <1>1, <1>8, <1>11, <1>12, StepKeeps

LEMMA ArriveKeeps ==
    ASSUME TreeInv, NEW d \in Devices, Arrive(d)
    PROVE  TreeInv'
<1>1. /\ UNCHANGED <<bodies, chain, entries, sent, base, disk, call>>
      /\ shelf[d].head = 0 /\ chain # <<>> /\ Reached(Last(chain), Holder(d)) # {}
  BY DEF Arrive, serverSide
<1>2. PICK k \in Nat : k = Len(chain) /\ k \in 1..Len(bodies) /\ Last(chain) = k /\ Range(chain) = 1..k
  BY <1>1, ChainIs, SizesOf
<1>3. d \in Guests
  <2>1. d \in Owners => shelf[d].head = Len(bodies)
    BY PartsOf DEF ShelfOK
  <2> QED BY <1>1, <2>1, HolderIs, SizesOf
<1>4. PICK sh, e : sh = OnShelf(k, 1..k) /\ e = Opened(d, k, 1..k, disk[d])
  OBVIOUS
<1>5. shelf'[d] = sh /\ core'[d] = e /\ OthersStay(d)
  <2>1. shelf' = [shelf EXCEPT ![d] = sh] /\ core' = [core EXCEPT ![d] = e]
    BY <1>2, <1>4, Zenon DEF Arrive
  <2> QED BY <1>1, <2>1, Touched DEF TreeInv, OthersStay
<1>6. Minted' = Minted
  BY <1>1 DEF Minted
<1>7. sh.head = k /\ sh.head # 0 /\ sh.kept = 1..k /\ sh = OnShelf(sh.head, sh.kept)
  BY <1>2, <1>4 DEF OnShelf
<1>8. ShelfOK(bodies, k, sh, d)
  BY <1>2, <1>3, <1>7, HolderIs, SizesOf DEF ShelfOK
<1>9. Holder(d) \in Members(bodies[k])
  BY <1>1, <1>2, BodyIs
<1>10. SessionOK(bodies, Minted, k, Len(entries), sh, e, call[d], d)
  <2>1. Fresh(d, k, disk[d], e) /\ e.top = IF bodies[k].shared = 0 THEN 0 ELSE k
    BY <1>4, OpenedIs
  <2> QED BY <1>3, <1>7, <1>8, <1>9, <2>1, PartsOf, OpenedRuns
<1>11. CallOK(bodies, k, sh, call[d], d)
  BY <1>2, <1>3, PartsOf, HolderIs DEF CallOK
<1>12. OwnPart(d)'
  BY <1>1, <1>2, <1>5, <1>6, <1>8, <1>10, <1>11, PartsOf DEF OwnPart, DeviceOK
<1>13. ServerPart'
  BY <1>1, <1>6, PartsOf DEF ServerPart
<1> QED BY <1>1, <1>5, <1>12, <1>13, StepKeeps

\* The owner's one device may write bodies and keyrings: what the others hold only stands on more.
LEMMA OwnerStepKeeps ==
    ASSUME TreeInv, NEW o, Owners = {o}, UNCHANGED <<entries, sent, base>>,
           OthersStay(o), OwnPart(o)',
           LineOK(bodies'), MintsOK(bodies', Minted'), Grown(bodies, Minted, bodies', Minted'),
           Len(chain) <= Len(chain'), Len(chain') \in 0..Len(bodies'),
           chain' = Published(Len(chain'))
    PROVE  TreeInv'
<1>1. o \in Devices /\ \A g \in Devices : g = o \/ g \in Guests
  BY DEF Devices
<1>2. /\ shelf' = [g \in Devices |-> shelf'[g]] /\ disk' = [g \in Devices |-> disk'[g]]
      /\ core' = [g \in Devices |-> core'[g]] /\ call' = [g \in Devices |-> call'[g]]
      /\ \A g \in Devices \ {o} : /\ shelf'[g] = shelf[g] /\ disk'[g] = disk[g]
                                  /\ core'[g] = core[g] /\ call'[g] = call[g]
  BY <1>1 DEF TreeInv, OthersStay
<1>3. Len(chain') \in Nat
  <2>1. Len(bodies') \in Nat
    BY DEF Grown
  <2> QED BY <2>1
<1>4. ASSUME NEW g \in Devices
      PROVE  DeviceOK(bodies', Minted', Len(chain'), Len(entries'),
                      shelf'[g], disk'[g], core'[g], call'[g], g)
  <2>1. CASE g = o
    BY <2>1 DEF OwnPart
  <2>2. CASE g # o
    <3>1. DeviceOK(bodies, Minted, Len(chain), Len(entries), shelf[g], disk[g], core[g], call[g], g)
      BY DEF TreeInv
    <3>2. g \in Guests
      BY <1>1, <2>2
    <3>3. Len(entries) <= Len(entries)
      BY SizesOf
    <3>4. DeviceOK(bodies', Minted', Len(chain'), Len(entries), shelf[g], disk[g], core[g], call[g], g)
      BY <1>3, <3>1, <3>2, <3>3, SizesOf, DeviceStays
    <3> QED BY <1>2, <2>2, <3>4
  <2> QED BY <2>1, <2>2
<1>5. \A i \in 1..Len(entries') : EntryOK(bodies', Minted', entries'[i])
  <2>1. \A i \in 1..Len(entries) : EntryOK(bodies, Minted, entries[i])
    BY DEF TreeInv
  <2> QED BY <2>1, EntryStays
<1>6. SnapOK(bodies', Minted', base')
  <2>1. SnapOK(bodies, Minted, base)
    BY DEF TreeInv
  <2> QED BY <2>1, SnapStays
<1> QED BY <1>2, <1>4, <1>5, <1>6 DEF TreeInv

\* What a device may publish are the line's next bodies, each of them retained.
LEMMA PublishableIs ==
    ASSUME TreeInv, NEW d \in Devices, shelf[d].head # 0, NEW n \in Publishable(d)
    PROVE  /\ n \in Nat /\ Len(chain) <= n /\ n <= Len(bodies)
           /\ n = Len(chain) \/ n <= LocalTop(d)
           /\ \A m \in Len(chain) + 1 .. n : m \in shelf[d].kept
           /\ chain \o [i \in 1 .. n - Len(chain) |-> AtRev(shelf[d].kept, Len(chain) + i)]
                = Published(n)
<1>1. PICK k \in Nat : k = Len(chain) /\ k <= Len(bodies)
  BY SizesOf
<1>2. PICK K : K = shelf[d].kept /\ K \subseteq 1..Len(bodies)
  BY PartsOf DEF ShelfOK
<1>3. PICK t \in Nat : t = LocalTop(d) /\ t <= Len(bodies)
  BY LocalTopIs, SizesOf
<1>4. \A h \in K : RevOf(h) = h
  BY <1>2, BodyIs
<1>5. /\ n \in Nat /\ k <= n /\ n <= Len(bodies) /\ (n = k \/ n <= t)
      /\ \A m \in k + 1 .. n : m \in K
  <2>1. \/ n = k
        \/ /\ n \in k + 1 .. t
           /\ \A m \in k + 1 .. n : \E h \in K : RevOf(h) = m
    BY <1>1, <1>2, <1>3, Zenon DEF Publishable
  <2>2. CASE n = k
    BY <1>1, <2>2
  <2>3. CASE n \in k + 1 .. t /\ \A m \in k + 1 .. n : \E h \in K : RevOf(h) = m
    <3>1. \A m \in k + 1 .. n : m \in K
      BY <1>4, <2>3
    <3>2. n \in Nat /\ k <= n /\ n <= Len(bodies) /\ n <= t
      BY <1>1, <1>3, <2>3, SizesOf
    <3> QED BY <3>1, <3>2
  <2> QED BY <2>1, <2>2, <2>3
<1>6. \A m \in k + 1 .. n : AtRev(K, m) = m
  <2> SUFFICES ASSUME NEW m \in k + 1 .. n PROVE AtRev(K, m) = m
    OBVIOUS
  <2>1. m \in K /\ RevOf(m) = m
    BY <1>4, <1>5
  <2>2. AtRev(K, m) \in K /\ RevOf(AtRev(K, m)) = m
    BY <2>1 DEF AtRev
  <2> QED BY <1>4, <2>2
<1>7. PICK t2 : t2 = [i \in 1 .. n - k |-> AtRev(K, k + i)]
  OBVIOUS
<1>8. t2 = [i \in 1 .. n - k |-> k + i] /\ n - k \in Nat
  <2>1. \A i \in 1 .. n - k : k + i \in k + 1 .. n
    BY <1>1, <1>5
  <2>2. n - k \in Nat
    BY <1>1, <1>5
  <2> QED BY <1>6, <1>7, <2>1, <2>2
<1>9. t2 \in Seq(Nat) /\ Len(t2) = n - k /\ \A i \in 1 .. n - k : t2[i] = k + i
  <2>1. \A i \in 1 .. n - k : k + i \in Nat
    BY <1>1
  <2>2. t2 \in [1 .. n - k -> Nat]
    BY <1>8, <2>1
  <2> QED BY <1>8, <2>2
<1>10. chain \in Seq(Nat) /\ \A i \in 1..k : chain[i] = i
  <2>1. chain \in [1..k -> Nat]
    BY <1>1 DEF TreeInv, Published
  <2> QED BY <1>1, <2>1, ChainIs
<1>11. PICK s : s = chain \o t2
  OBVIOUS
<1>12. /\ s \in Seq(Nat) /\ Len(s) = k + (n - k)
       /\ \A i \in 1 .. k + (n - k) : s[i] = IF i <= k THEN chain[i] ELSE t2[i - k]
  <2>1. PICK j \in Nat : j = n - k
    BY <1>8
  <2>2. /\ s \in Seq(Nat) /\ Len(s) = k + j
        /\ \A i \in 1 .. k + j : s[i] = IF i <= k THEN chain[i] ELSE t2[i - k]
    <3>1. t2 \in Seq(Nat) /\ Len(t2) = j /\ chain \in Seq(Nat) /\ Len(chain) = k
      BY <1>1, <1>9, <1>10, <2>1
    <3>2. /\ chain \o t2 \in Seq(Nat) /\ Len(chain \o t2) = Len(chain) + Len(t2)
          /\ \A i \in 1 .. Len(chain) + Len(t2) :
               (chain \o t2)[i] = IF i <= Len(chain) THEN chain[i] ELSE t2[i - Len(chain)]
      BY <3>1, ConcatProperties
    <3> QED BY <1>11, <3>1, <3>2
  <2> QED BY <2>1, <2>2
<1>13. k + (n - k) = n
  BY <1>1, <1>5
<1>14. \A i \in 1..n : s[i] = i
  <2> SUFFICES ASSUME NEW i \in 1..n PROVE s[i] = i
    OBVIOUS
  <2>1. CASE i <= k
    <3>1. i \in 1..k
      BY <1>1, <2>1
    <3> QED BY <1>10, <1>12, <1>13, <2>1, <3>1
  <2>2. CASE ~(i <= k)
    <3>1. i - k \in 1 .. n - k /\ k + (i - k) = i
      BY <1>1, <1>5, <2>2
    <3>2. t2[i - k] = i
      BY <1>9, <3>1
    <3>3. s[i] = t2[i - k]
      BY <1>12, <1>13, <2>2
    <3> QED BY <3>2, <3>3
  <2> QED BY <2>1, <2>2
<1>15. s = Published(n)
  <2>1. s = [i \in 1..n |-> s[i]]
    BY <1>12, <1>13
  <2> QED BY <1>14, <2>1 DEF Published
<1> QED BY <1>1, <1>2, <1>3, <1>5, <1>7, <1>11, <1>15

LEMMA PublishKeyringKeeps ==
    ASSUME TreeInv, NEW o, Owners = {o}, NEW d \in Devices, PublishKeyring(d)
    PROVE  TreeInv'
<1>1. UNCHANGED <<bodies, entries, sent, base, shelf, disk, core>> /\ call[d].at = "publish"
  BY DEF PublishKeyring
<1>2. PICK n \in Publishable(d) :
        /\ chain' = chain \o [i \in 1 .. n - Len(chain) |-> AtRev(shelf[d].kept, Len(chain) + i)]
        /\ call' = [call EXCEPT ![d] =
             IF n >= LocalTop(d) /\ call[d].op \in {"tick", "remove"} THEN [@ EXCEPT !.at = "data"]
             ELSE Resting]
  BY DEF PublishKeyring
<1>3. core[d].open /\ shelf[d].head # 0
  BY <1>1, PartsOf DEF SessionOK
<1>4. /\ n \in Nat /\ Len(chain) <= n /\ n <= Len(bodies) /\ chain' = Published(n)
      /\ n = Len(chain) \/ n <= LocalTop(d)
      /\ \A m \in Len(chain) + 1 .. n : m \in shelf[d].kept
  BY <1>2, <1>3, PublishableIs
<1>5. Len(chain') = n
  <2>1. Published(n) \in [1..n -> Nat]
    BY <1>4 DEF Published
  <2>2. Published(n) \in Seq(Nat) /\ Len(Published(n)) = n
    BY <1>4, <2>1 DEF Published
  <2> QED BY <1>4, <2>2
<1>6. PICK e, cl : /\ e = [call[d] EXCEPT !.at = "data"]
                   /\ cl = IF n >= LocalTop(d) /\ call[d].op \in {"tick", "remove"} THEN e
                           ELSE Resting
  OBVIOUS
<1>7. call'[d] = cl /\ OthersStay(d)
  <2>1. call' = [call EXCEPT ![d] = cl]
    BY <1>2, <1>6
  <2> QED BY <1>1, <2>1, Touched DEF TreeInv, OthersStay
<1>8. Minted' = Minted
  BY <1>1 DEF Minted
<1>9. ShelfOK(bodies, n, shelf[d], d)
  <2>1. ShelfOK(bodies, Len(chain), shelf[d], d)
    BY PartsOf
  <2>2. 1..Len(chain) \subseteq 1..n
    BY <1>4, SizesOf
  <2>3. d \in Owners => 1..n \subseteq shelf[d].kept
    <3>1. \A m \in 1..n : m \in 1..Len(chain) \/ m \in Len(chain) + 1 .. n
      BY <1>4, SizesOf
    <3> QED BY <1>4, <2>1, <3>1 DEF ShelfOK
  <2>4. d \in Guests => shelf[d].head <= n
    BY <1>4, <2>1, SizesOf DEF ShelfOK
  <2> QED BY <2>1, <2>2, <2>3, <2>4 DEF ShelfOK
<1>10. CallOK(bodies, n, shelf[d], cl, d) /\ Current(bodies, cl) = Current(bodies, call[d])
  <2>1. CASE cl = Resting
    BY <1>1, <2>1, RestingOK DEF Current
  <2>2. CASE n >= LocalTop(d) /\ cl = e
    <3>1. CallOK(bodies, n, shelf[d], call[d], d)
      BY <1>1, PartsOf DEF CallOK
    <3>2. Len(bodies) \in shelf[d].kept => n = Len(bodies)
      <4>1. Len(bodies) \in shelf[d].kept => Len(bodies) <= LocalTop(d)
        BY <1>3, LocalTopIs
      <4>2. LocalTop(d) \in Nat
        BY <1>3, LocalTopIs, SizesOf
      <4> QED BY <1>4, <2>2, <4>1, <4>2, SizesOf
    <3>3. call[d].at = "publish" /\ e = [call[d] EXCEPT !.at = "data"]
      BY <1>1, <1>6
    <3>4. CallOK(bodies, n, shelf[d], e, d) /\ Current(bodies, e) = Current(bodies, call[d])
      BY <3>1, <3>2, <3>3, StageOK
    <3> QED BY <2>2, <3>4
  <2> QED BY <1>6, <2>1, <2>2
<1>11. SessionOK(bodies, Minted, n, Len(entries), shelf[d], core[d], cl, d)
  <2>1. SessionOK(bodies, Minted, Len(chain), Len(entries), shelf[d], core[d], call[d], d)
    BY PartsOf
  <2>2. d \in Guests => core[d].top <= n
    <3>1. core[d].top \in Nat /\ (d \in Guests => core[d].top <= Len(chain))
      BY <1>3, <2>1, SizesOf DEF SessionOK, KeysOK
    <3> QED BY <1>4, <3>1, SizesOf
  <2> QED BY <1>3, <1>10, <2>1, <2>2 DEF SessionOK
<1>12. OwnPart(d)'
  BY <1>1, <1>5, <1>7, <1>8, <1>9, <1>10, <1>11, PartsOf DEF OwnPart, DeviceOK
<1>13. CASE d \in Owners
  <2>1. n \in 0..Len(bodies) /\ n <= n
    BY <1>4, SizesOf
  <2> QED BY <1>1, <1>4, <1>5, <1>7, <1>8, <1>12, <1>13, <2>1, GrownFrom, OwnerStepKeeps DEF TreeInv
<1>14. CASE d \in Guests
  <2>1. n = Len(chain)
    <3>1. LocalTop(d) \in shelf[d].kept /\ shelf[d].kept \subseteq 1..Len(chain)
      BY <1>3, <1>14, LocalTopIs, PartsOf DEF ShelfOK
    <3>2. LocalTop(d) \in Nat /\ LocalTop(d) <= Len(chain)
      BY <3>1, SizesOf
    <3> QED BY <1>4, <3>2, SizesOf
  <2>2. chain' = chain
    BY <1>4, <2>1 DEF TreeInv
  <2>3. ServerPart'
    BY <1>1, <1>8, PartsOf DEF ServerPart
  <2> QED BY <1>1, <1>7, <1>12, <2>2, <2>3, StepKeeps
<1> QED BY <1>13, <1>14, HolderIs

\* What the owner's device is about to write stands on the last body.
LEMMA NextBodyOnward ==
    ASSUME TreeInv, NEW d \in Devices, call[d].at = "author"
    PROVE  /\ d \in Owners
           /\ Onward(bodies[Len(bodies)], Len(bodies), Len(bodies) + 1, NextBody(d))
           /\ call[d].op \in {"promote", "demote"} =>
                /\ NextBody(d).epochs = bodies[Len(bodies)].epochs
                /\ NextBody(d).shared = bodies[Len(bodies)].shared
<1>1. /\ d \in Owners /\ call[d].op \in {"add", "remove", "promote", "demote"}
      /\ call[d].who \in Guests /\ (call[d].op # "remove" => call[d].role \in 2..5)
  BY PartsOf, HolderIs DEF CallOK
<1>2. PICK N \in Nat : N = Len(bodies) /\ N \in 1..Len(bodies) /\ shelf[d].head = N
  BY <1>1, PartsOf, SizesOf DEF ShelfOK
<1>3. PICK b : b = bodies[N]
  OBVIOUS
<1>4. PageOK(b) /\ RevOf(N) + 1 = N + 1 /\ N + 1 \in Nat \ {0}
  BY <1>2, <1>3, BodyIs
<1>5. PICK p, r : p = call[d].who /\ r = call[d].role
  OBVIOUS
<1>6. CASE call[d].op = "add"
  <2>1. NextBody(d) = WithMember(b, N, N + 1, Reach(b, Founding), p, r)
    BY <1>2, <1>3, <1>4, <1>5, <1>6, Zenon DEF NextBody
  <2> QED BY <1>1, <1>2, <1>3, <1>4, <1>5, <1>6, <2>1, WithMemberOnward
<1>7. CASE call[d].op = "remove"
  <2>1. NextBody(d) = WithoutMember(b, N, N + 1, p)
    BY <1>2, <1>3, <1>4, <1>5, <1>7 DEF NextBody
  <2> QED BY <1>1, <1>2, <1>3, <1>4, <1>5, <1>7, <2>1, WithoutMemberOnward
<1>8. CASE call[d].op \in {"promote", "demote"}
  <2>1. NextBody(d) = WithRole(b, N, N + 1, p, r)
    BY <1>2, <1>3, <1>4, <1>5, <1>8 DEF NextBody
  <2>2. r \in 2..5
    BY <1>1, <1>5, <1>8
  <2>3. /\ Onward(b, N, N + 1, WithRole(b, N, N + 1, p, r))
        /\ WithRole(b, N, N + 1, p, r).epochs = b.epochs
        /\ WithRole(b, N, N + 1, p, r).shared = b.shared
    <3>1. PICK n \in Nat \ {0} : n = N + 1
      BY <1>4
    <3>2. p \in Guests /\ PageOK(b)
      BY <1>1, <1>4, <1>5
    <3> QED BY <2>2, <3>1, <3>2, WithRoleOnward
  <2> QED BY <1>1, <1>2, <1>3, <2>1, <2>3
<1> QED BY <1>1, <1>6, <1>7, <1>8

LEMMA AuthorKeeps ==
    ASSUME TreeInv, NEW o, Owners = {o}, NEW d \in Devices, Author(d)
    PROVE  TreeInv'
<1>1. /\ UNCHANGED <<chain, entries, sent, base, disk>> /\ call[d].at = "author"
      /\ bodies' = Append(bodies, NextBody(d))
  BY DEF Author, serverSide
<1>2. PICK b, N : b = NextBody(d) /\ N = Len(bodies) /\ N \in Nat /\ N \in 1..N
  BY SizesOf
<1>3. /\ d \in Owners /\ d = o /\ Onward(bodies[N], N, N + 1, b)
      /\ call[d].op \in {"promote", "demote"} =>
           b.epochs = bodies[N].epochs /\ b.shared = bodies[N].shared
  BY <1>1, <1>2, NextBodyOnward
<1>4. /\ LineOK(bodies') /\ MintsOK(bodies', Minted') /\ Len(bodies') = N + 1
      /\ bodies'[N + 1] = b /\ Grown(bodies, Minted, bodies', Minted')
  <2>1. LineOK(bodies) /\ MintsOK(bodies, Minted)
    BY DEF TreeInv
  <2>2. PageOK(b) /\ b.rev = Len(bodies) + 1 /\ b.prev = Len(bodies) /\ Follows(bodies[Len(bodies)], b)
    BY <1>2, <1>3 DEF Onward
  <2>3. Minted' = MintedIn(bodies')
    BY DEF Minted
  <2>4. bodies' = Append(bodies, b)
    BY <1>1, <1>2
  <2> QED BY <1>2, <2>1, <2>2, <2>3, <2>4, NextInLine
<1>5. bodies'[N] = bodies[N] /\ Minted'[N] = Minted[N] /\ (N + 1) - 1 = N /\ N + 1 > 1
  BY <1>2, <1>4 DEF Grown
<1>6. PICK h \in Nat : h = N + 1
  BY <1>2
<1>7. PICK cl : cl = [call[d] EXCEPT !.at = "reopen"]
  OBVIOUS
<1>8. PICK sh1, sh2 : sh1 = OnShelf(h, shelf[d].kept \cup {h}) /\ sh2 = OnShelf(h, shelf[d].kept)
  OBVIOUS
<1>9. \/ /\ shelf' = [shelf EXCEPT ![d] = sh1] /\ call' = [call EXCEPT ![d] = cl]
         /\ UNCHANGED core
      \/ /\ shelf' = [shelf EXCEPT ![d] = sh2] /\ call' = [call EXCEPT ![d] = Resting]
         /\ core' = [core EXCEPT ![d] = NoCore]
  BY <1>1, <1>2, <1>4, <1>6, <1>7, <1>8 DEF Author
<1>10. ShelfOK(bodies', Len(chain), sh1, d) /\ ShelfOK(bodies', Len(chain), sh2, d)
  <2>1. /\ shelf[d].kept \subseteq 1..N /\ 1..Len(chain) \subseteq shelf[d].kept
        /\ shelf[d].kept # {}
    BY <1>2, <1>3, PartsOf DEF ShelfOK
  <2>2. h \in 1..h /\ h # 0 /\ 1..N \subseteq 1..h /\ h \in 0..h
    BY <1>2, <1>6
  <2>3. d \notin Guests
    BY <1>3, HolderIs
  <2> QED BY <1>4, <1>6, <1>8, <2>1, <2>2, <2>3 DEF ShelfOK, OnShelf
<1>11. DiskOK(bodies', Minted', Len(entries), disk[d])
  BY <1>4, PartsOf, SnapStays DEF DiskOK
<1>12. /\ LineOK(bodies') /\ MintsOK(bodies', Minted') /\ Len(chain) <= Len(chain')
       /\ Len(chain') \in 0..Len(bodies') /\ chain' = Published(Len(chain'))
  <2>1. Len(chain) \in 0..(N + 1) /\ Len(chain) <= Len(chain)
    BY <1>2, SizesOf
  <2> QED BY <1>1, <1>4, <2>1 DEF TreeInv
<1>13. CASE /\ shelf' = [shelf EXCEPT ![d] = sh1] /\ call' = [call EXCEPT ![d] = cl]
            /\ UNCHANGED core
  <2>1. shelf'[d] = sh1 /\ call'[d] = cl /\ OthersStay(d)
    BY <1>1, <1>13, Touched DEF TreeInv, OthersStay
  <2>2. /\ CallOK(bodies, Len(chain), shelf[d], call[d], d)
        /\ cl.at = "reopen" /\ cl.op = call[d].op
        /\ cl = [at |-> cl.at, op |-> cl.op, who |-> cl.who, role |-> cl.role]
    BY <1>7, PartsOf DEF CallOK
  <2>3. CallOK(bodies', Len(chain), sh1, cl, d)
    <3>1. /\ Len(bodies') > 1 /\ Len(bodies') = N + 1 /\ Len(bodies') - 1 = N
          /\ bodies'[Len(bodies')] = b /\ bodies'[Len(bodies') - 1] = bodies[N]
      BY <1>4, <1>5
    <3>2. d \notin Guests
      BY <1>3, HolderIs
    <3> QED BY <1>3, <2>2, <3>1, <3>2 DEF CallOK
  <2>4. SessionOK(bodies', Minted', Len(chain), Len(entries), sh1, core[d], cl, d)
    <3>1. SessionOK(bodies, Minted, Len(chain), Len(entries), shelf[d], core[d], call[d], d)
      BY PartsOf
    <3>2. core[d].open
      BY <1>1, <3>1 DEF SessionOK
    <3>3. /\ SnapOK(bodies', Minted', core[d].snap)
          /\ KeysOK(bodies', Minted', core[d], Holder(d))
      BY <1>4, <3>1, <3>2, SnapStays, KeysStay DEF SessionOK
    <3>4. RunsOn(bodies', Minted', core[d], N)
      <4>1. Current(bodies, call[d]) = N
        BY <1>1, <1>2 DEF Current
      <4> QED BY <1>3, <1>5, <3>1, <3>2, <4>1 DEF SessionOK, RunsOn, Latest
    <3>5. Current(bodies', cl) = N
      BY <1>4, <1>5, <2>2 DEF Current
    <3>6. sh1.head # 0 /\ d \notin Guests
      BY <1>2, <1>3, <1>6, <1>8, HolderIs DEF OnShelf
    <3> QED BY <3>1, <3>2, <3>3, <3>4, <3>5, <3>6 DEF SessionOK
  <2>5. OwnPart(d)'
    BY <1>1, <1>10, <1>11, <1>13, <2>1, <2>3, <2>4 DEF OwnPart, DeviceOK
  <2> QED BY <1>1, <1>3, <1>4, <1>12, <2>1, <2>5, OwnerStepKeeps
<1>14. CASE /\ shelf' = [shelf EXCEPT ![d] = sh2] /\ call' = [call EXCEPT ![d] = Resting]
            /\ core' = [core EXCEPT ![d] = NoCore]
  <2>1. shelf'[d] = sh2 /\ call'[d] = Resting /\ core'[d] = NoCore /\ OthersStay(d)
    BY <1>1, <1>14, Touched DEF TreeInv, OthersStay
  <2>2. OwnPart(d)'
    BY <1>1, <1>10, <1>11, <2>1, ClosedOK, RestingOK DEF OwnPart, DeviceOK
  <2> QED BY <1>1, <1>3, <1>4, <1>12, <2>1, <2>2, OwnerStepKeeps
<1> QED BY <1>9, <1>13, <1>14

\* The session of a first share: folded without a gate, then gated.
LEMMA SharedAnewIs ==
    ASSUME NEW d, NEW h, NEW kept, NEW dk,
           NEW e, e = SetMembership(Bootstrapped(Unlocked(d, h, dk)), h, kept)
    PROVE  Fresh(d, h, dk, e) /\ e.top = IF bodies[h].shared = 0 THEN 0 ELSE h
<1>1. PICK u : u = Unlocked(d, h, dk)
  OBVIOUS
<1>2. Fresh(d, h, dk, u) /\ u.top = 0 /\ Shaped(u)
  <2>1. Fresh(d, h, dk, u) /\ u.top = 0
    BY <1>1, UnlockedIs
  <2> QED BY <2>1 DEF Fresh
<1>3. PICK b : b = Bootstrapped(u)
  OBVIOUS
<1>4. Keeps(u, b) /\ Shaped(b)
  BY <1>2, <1>3, AdoptBaseKeeps DEF Keeps
<1>5. Gated(b, h, e)
  <2>1. Gated(b, h, SetMembership(b, h, kept))
    BY <1>4, SetMembershipGates
  <2> QED BY <1>1, <1>3, <2>1
<1> QED BY <1>2, <1>4, <1>5 DEF Fresh, Keeps, Gated

\* After a role change the owner's session runs on the new body, under the epoch it had.
LEMMA RoleRuns ==
    ASSUME TreeInv, NEW d \in Owners, NEW N, N = Len(bodies), N > 1,
           Len(bodies[N].epochs) = Len(bodies[N - 1].epochs),
           bodies[N].shared = bodies[N - 1].shared,
           NEW c, KeysOK(bodies, Minted, c, Founding), RunsOn(bodies, Minted, c, N - 1),
           NEW e, Refreshes(d, c, N, e)
    PROVE  KeysOK(bodies, Minted, e, Founding) /\ RunsOn(bodies, Minted, e, N)
<1>1. N \in Nat /\ N \in 1..Len(bodies) /\ N - 1 \in 1..Len(bodies) /\ N # 1 /\ N # 0
      /\ N \in 0..Len(bodies)
  BY SizesOf
<1>2. Minted[N] = Minted[N - 1]
  <2>1. Minted[N] = Mint(bodies, Minted, N) /\ Len(Minted[N - 1]) = Len(bodies[N - 1].epochs)
    BY <1>1 DEF TreeInv, MintsOK
  <2> QED BY <1>1, <2>1 DEF Mint
<1>3. Latest(Minted, N) = Latest(Minted, N - 1)
  BY <1>2 DEF Latest
<1>4. e.wkey = c.wkey /\ e.ref = c.ref /\ e.top = (IF bodies[N].shared = 0 THEN c.top ELSE N)
  BY DEF Refreshes
<1>5. RunsOn(bodies, Minted, e, N)
  BY <1>3, <1>4 DEF RunsOn
<1>6. \A h \in 1..Len(bodies) : Acts(bodies[h], Founding)
  BY FounderActs, BodyIs
<1>7. /\ c.top \in 0..Len(bodies) /\ c.ref \in 0..Len(bodies)
      /\ c.top # 0 => c.top \in 1..Len(bodies)
      /\ c.ref # 0 => c.ref \in 1..Len(bodies)
  BY SizesOf DEF KeysOK
<1>8. c.ref # 0 => c.wkey = Latest(Minted, c.ref) /\ Acts(bodies[c.ref], Founding)
  BY <1>6, <1>7 DEF KeysOK
<1>9. c.ref # 0 => e.top # 0
  BY <1>1, <1>4 DEF KeysOK, RunsOn
<1>10. e.top # 0 => e.wkey = Latest(Minted, e.top) /\ e.top = N
  BY <1>5 DEF RunsOn
<1>11. e.top \in 0..Len(bodies)
  BY <1>1, <1>4, <1>7
<1> QED BY <1>4, <1>5, <1>7, <1>8, <1>9, <1>10, <1>11 DEF KeysOK

LEMMA SwapKeeps ==
    ASSUME TreeInv, NEW d \in Devices, Swap(d)
    PROVE  TreeInv'
<1>1. /\ UNCHANGED <<bodies, chain, entries, sent, base, shelf, disk>>
      /\ call[d].at = "reopen"
  BY DEF Swap, serverSide
<1>2. /\ d \in Owners /\ Holder(d) = Founding /\ d \notin Guests
  BY <1>1, PartsOf, HolderIs DEF CallOK
<1>3. PICK N : /\ N = Len(bodies) /\ N \in 1..Len(bodies) /\ N # 0 /\ shelf[d].head = N
  BY <1>2, PartsOf, SizesOf DEF ShelfOK
<1>4. /\ Shaped(core[d]) /\ core[d].open
      /\ KeysOK(bodies, Minted, core[d], Founding) /\ RunsOn(bodies, Minted, core[d], N - 1)
  BY <1>1, <1>2, <1>3, PartsOf DEF SessionOK, Current
<1>5. PICK x, y, z : /\ x = Refreshed(d, core[d], N, shelf[d].kept)
                     /\ y = SetMembership(Bootstrapped(Unlocked(d, N, disk[d])), N, shelf[d].kept)
                     /\ z = Opened(d, N, shelf[d].kept, disk[d])
  OBVIOUS
<1>6. PICK at \in {"base", "publish"} : call' = [call EXCEPT ![d].at = at]
  BY DEF Swap
<1>7. PICK cl : cl = [call[d] EXCEPT !.at = at]
  OBVIOUS
<1>8. PICK e : /\ core' = [core EXCEPT ![d] = e]
               /\ \/ call[d].op \in {"promote", "demote"} /\ e = x
                  \/ e \in {y, z}
  <2>1. core' = [core EXCEPT ![d] =
          IF call[d].op \in {"promote", "demote"} THEN x
          ELSE IF bodies[bodies[N].prev].shared = 0 THEN y ELSE z]
    BY <1>3, <1>5 DEF Swap
  <2> QED BY <2>1
<1>9. core'[d] = e /\ call'[d] = cl /\ OthersStay(d)
  <2>1. call' = [call EXCEPT ![d] = cl]
    BY <1>6, <1>7
  <2> QED BY <1>1, <1>8, <2>1, Touched DEF TreeInv, OthersStay
<1>10. Minted' = Minted
  BY <1>1 DEF Minted
<1>11. /\ CallOK(bodies, Len(chain), shelf[d], call[d], d)
       /\ cl = [at |-> cl.at, op |-> cl.op, who |-> cl.who, role |-> cl.role] /\ cl.at = at
  BY <1>7, PartsOf DEF CallOK
<1>12. CallOK(bodies, Len(chain), shelf[d], cl, d) /\ Current(bodies, cl) = Len(bodies)
  BY <1>2, <1>6, <1>11 DEF CallOK, Current
<1>13. SessionOK(bodies, Minted, Len(chain), Len(entries), shelf[d], e, cl, d)
  <2>1. CASE call[d].op \in {"promote", "demote"} /\ e = x
    <3>1. Refreshes(d, core[d], N, e)
      BY <1>4, <1>5, <2>1, RefreshedIs
    <3>2. KeysOK(bodies, Minted, e, Founding) /\ RunsOn(bodies, Minted, e, N)
      <4>1. /\ N > 1 /\ Len(bodies[N].epochs) = Len(bodies[N - 1].epochs)
            /\ bodies[N].shared = bodies[N - 1].shared
        BY <1>1, <1>3, <1>11, <2>1 DEF CallOK
      <4> QED BY <1>2, <1>3, <1>4, <3>1, <4>1, RoleRuns
    <3>3. /\ core[d].mir \subseteq 1..Len(entries) /\ SnapOK(bodies, Minted, core[d].snap)
      BY PartsOf DEF SessionOK
    <3> QED BY <1>2, <1>3, <1>4, <1>12, <3>1, <3>2, <3>3 DEF SessionOK, Refreshes
  <2>2. CASE e \in {y, z}
    <3>1. Fresh(d, N, disk[d], e) /\ e.top = IF bodies[N].shared = 0 THEN 0 ELSE N
      <4>1. CASE e = y
        BY <1>5, <4>1, SharedAnewIs
      <4>2. CASE e = z
        BY <1>5, <4>2, OpenedIs
      <4> QED BY <2>2, <4>1, <4>2
    <3>2. Holder(d) \in Members(bodies[N])
      BY <1>2, <1>3, BodyIs, Seated
    <3> QED BY <1>3, <1>12, <3>1, <3>2, PartsOf, SizesOf, OpenedRuns
  <2> QED BY <1>8, <2>1, <2>2
<1>14. OwnPart(d)'
  BY <1>1, <1>9, <1>10, <1>12, <1>13, PartsOf DEF OwnPart, DeviceOK
<1>15. ServerPart'
  BY <1>1, <1>10, PartsOf DEF ServerPart
<1> QED BY <1>1, <1>9, <1>14, <1>15, StepKeeps

-----------------------------------------------------------------------------
(* The first states, and every step.                                       *)

LEMMA FoundingPage ==
    /\ PageOK(Provisioned(Founding)) /\ Provisioned(Founding).rev = 1
    /\ Provisioned(Founding).prev = 0 /\ Len(Provisioned(Founding).epochs) = 1
    /\ Members(Provisioned(Founding)) = {Founding}
<1>1. PICK b : b = Provisioned(Founding)
  OBVIOUS
<1>2. PICK x : x = [id |-> Founding, role |-> Owner, key |-> Founding]
  OBVIOUS
<1>3. x \in Seat /\ x.id = Founding /\ x.role = Owner
  BY <1>2 DEF Seat, Folk, Owner
<1>4. PICK eps : eps = <<{Founding}>>
  OBVIOUS
<1>5. eps \in Seq(SUBSET Folk) /\ Len(eps) = 1 /\ eps[1] = {Founding} /\ eps # <<>>
  BY <1>4 DEF Folk
<1>6. b = [rev |-> 1, prev |-> 0, roster |-> {x},
           gov |-> [kind |-> 0, threshold |-> 0], rvk |-> Rvk, shared |-> 0, epochs |-> eps]
  BY <1>1, <1>2, <1>4, Zenon DEF Provisioned
<1>7. b \in Page /\ b.rev = 1 /\ b.prev = 0 /\ b.roster = {x} /\ b.shared = 0 /\ b.epochs = eps
  BY <1>3, <1>5, <1>6 DEF Page
<1>8. Members(b) = {Founding}
  BY <1>3, <1>7 DEF Members
<1>9. PageOK(b)
  BY <1>3, <1>5, <1>7, <1>8 DEF PageOK
<1> QED BY <1>1, <1>5, <1>7, <1>8, <1>9

LEMMA FoundingLine ==
    ASSUME NEW D, D = <<Provisioned(Founding)>>
    PROVE  LineOK(D) /\ MintsOK(D, MintedIn(D)) /\ Len(D) = 1 /\ D[1] = Provisioned(Founding)
<1>1. PICK b : b = Provisioned(Founding)
  OBVIOUS
<1>2. /\ PageOK(b) /\ b.rev = 1 /\ b.prev = 0 /\ Len(b.epochs) = 1 /\ b \in Page
  BY <1>1, FoundingPage, Seated
<1>3. D \in Seq(Page) /\ Len(D) = 1 /\ D[1] = b /\ D # <<>>
  BY <1>1, <1>2
<1>4. \A h \in 1..Len(D) : h = 1
  BY <1>3
<1>5. LineOK(D)
  <2>1. \A h \in 1..Len(D) : PageOK(D[h]) /\ D[h].rev = h /\ D[h].prev = h - 1
    BY <1>2, <1>3, <1>4
  <2>2. \A g, h \in 1..Len(D) : g = h /\ D[g] = b /\ D[h] = b
    BY <1>3, <1>4
  <2>3. Len(b.epochs) <= Len(b.epochs)
    BY <1>2
  <2> QED BY <1>2, <1>3, <2>1, <2>2, <2>3 DEF LineOK
<1>6. PICK m : m = <<1>>
  OBVIOUS
<1>7. m \in Seq(Nat) /\ Len(m) = 1 /\ m[1] = 1
  BY <1>6
<1>8. PICK M : M = [h \in 1..Len(D) |-> m]
  OBVIOUS
<1>9. M = [h \in 1..Len(D) |-> M[h]] /\ \A h \in 1..Len(D) : M[h] = m /\ h = 1
  BY <1>4, <1>8
<1>10. MintsOK(D, M)
  <2>1. \A h \in 1..Len(D) : M[h] = Mint(D, M, h)
    BY <1>6, <1>9 DEF Mint
  <2>2. \A h \in 1..Len(D) : M[h] \in Seq(Nat) /\ Len(M[h]) = Len(D[h].epochs)
                             /\ \A i \in 1..Len(M[h]) : M[h][i] <= h
    BY <1>2, <1>3, <1>7, <1>9
  <2>3. \A g, h \in 1..Len(D) : ~(Len(M[g]) < Len(M[h]))
    BY <1>7, <1>9
  <2> QED BY <1>9, <2>1, <2>2, <2>3 DEF MintsOK
<1> QED BY <1>1, <1>3, <1>5, <1>10, MintedIs

LEMMA SharedWithOnward ==
    ASSUME NEW guests, guests \subseteq Guests, guests # {}
    PROVE  /\ Onward(Provisioned(Founding), 1, 2, SharedWith(guests))
           /\ Members(SharedWith(guests)) = {Founding} \cup guests
<1>1. PICK b : b = Provisioned(Founding)
  OBVIOUS
<1>2. /\ PageOK(b) /\ b \in Page /\ Members(b) = {Founding} /\ Len(b.epochs) = 1 /\ b.roster \in SUBSET Seat
  BY <1>1, FoundingPage, Seated
<1>3. PICK g : g = (CHOOSE x \in guests : TRUE) /\ g \in Guests /\ g \in guests
  OBVIOUS
<1>4. 1 \in Nat /\ 2 \in Nat \ {0} /\ Maintainer \in 2..5 /\ {1} = Reach(b, Founding)
  <2>1. /\ DOMAIN b.epochs = 1..1 /\ b.epochs[1] = {Founding}
    BY <1>2, Seated DEF PageOK
  <2> QED BY <2>1 DEF Maintainer, Reach
<1>5. PICK w : w = WithMember(b, 1, 2, {1}, g, Maintainer)
  OBVIOUS
<1>6. Onward(b, 1, 2, w)
  <2>1. Onward(b, 1, 2, WithMember(b, 1, 2, Reach(b, Founding), g, Maintainer))
    BY <1>2, <1>3, <1>4, WithMemberOnward
  <2> QED BY <1>4, <1>5, <2>1
<1>7. PICK m : m = [id |-> g, role |-> Maintainer, key |-> g]
  OBVIOUS
<1>8. w \in Page /\ w.rev = 2 /\ w.prev = 1 /\ w.shared # 0 /\ w.roster = b.roster \cup {m}
  <2>1. PageOK(w) /\ w \in Page /\ w.rev = 2 /\ w.prev = 1
    BY <1>6, Seated DEF Onward
  <2>2. w.roster = b.roster \cup {m}
    <3>1. PICK N \in Page : N = NextOn(b, 1, 2)
      BY <1>2, NextOnPage
    <3>2. PICK s, eps : /\ s = (IF b.shared = 0 THEN 2 ELSE b.shared)
                        /\ eps = [i \in DOMAIN b.epochs |->
                                    IF i \in {1} THEN b.epochs[i] \cup {g} ELSE b.epochs[i]]
      OBVIOUS
    <3>3. w = [N EXCEPT !.roster = b.roster \cup {m}, !.shared = s, !.epochs = eps]
      BY <1>5, <1>7, <3>1, <3>2, Zenon DEF WithMember
    <3> QED BY <3>1, <3>3 DEF Page
  <2>3. w.shared # 0
    <3>1. g \in Members(w) /\ g # Founding
      BY <1>3, <1>7, <2>2, SharedTreeAssumption DEF Members
    <3> QED BY <2>1, <3>1 DEF PageOK
  <2> QED BY <2>1, <2>2, <2>3
<1>9. PICK seats : seats = {[id |-> x, role |-> Maintainer, key |-> x] : x \in guests}
  OBVIOUS
<1> DEFINE s(x) == [id |-> x, role |-> Maintainer, key |-> x]
<1>10. /\ seats \in SUBSET Seat /\ {x.id : x \in seats} = guests /\ m \in seats
       /\ \A x \in seats : x.id # Founding /\ x.role # Owner
  <2>1. \A x \in guests : x \in Folk /\ x # Founding
    BY SharedTreeAssumption DEF Folk
  <2>2. Maintainer \in 1..5 /\ Maintainer # Owner
    BY DEF Maintainer, Owner
  <2>3. /\ \A x \in guests : s(x) \in Seat /\ s(x).id = x /\ s(x).role = Maintainer
        /\ seats = {s(x) : x \in guests} /\ m = s(g)
    BY <1>7, <1>9, <2>1, <2>2 DEF Seat
  <2> HIDE DEF s
  <2>4. {x.id : x \in seats} = guests
    <3>1. \A x \in seats : x.id \in guests
      BY <2>3
    <3>2. \A x \in guests : s(x) \in seats /\ s(x).id = x
      BY <2>3
    <3> QED BY <3>1, <3>2
  <2>5. \A x \in seats : x.id # Founding /\ x.role # Owner
    BY <2>1, <2>2, <2>3
  <2>6. m \in seats /\ seats \in SUBSET Seat
    <3>1. g \in guests
      BY <1>3
    <3>2. m \in seats
      BY <2>3, <3>1, Zenon
    <3>3. \A x \in seats : x \in Seat
      BY <2>3
    <3> QED BY <3>2, <3>3
  <2> QED BY <2>4, <2>5, <2>6
<1>11. PICK R : R = w.roster \cup seats
  OBVIOUS
<1>12. R \in SUBSET Seat /\ R = b.roster \cup seats
  BY <1>2, <1>8, <1>10, <1>11
<1>13. PICK all, eps : all = {Founding} \cup guests /\ eps = <<all>>
  OBVIOUS
<1>14. eps \in Seq(SUBSET Folk) /\ Len(eps) = 1 /\ eps[1] = all /\ eps # <<>>
  <2>1. all \in SUBSET Folk
    BY <1>13 DEF Folk
  <2> QED BY <1>13, <2>1
<1>15. PICK e : e = SharedWith(guests)
  OBVIOUS
<1>16. e = [w EXCEPT !.roster = R, !.epochs = eps]
  BY <1>1, <1>3, <1>5, <1>9, <1>11, <1>13, <1>15 DEF SharedWith
<1>17. /\ e \in Page /\ e.rev = 2 /\ e.prev = 1 /\ e.shared # 0
       /\ e.roster = R /\ e.epochs = eps
  BY <1>8, <1>12, <1>14, <1>16 DEF Page
<1>18. Members(e) = all
  <2>1. Members(e) = {x.id : x \in b.roster} \cup {x.id : x \in seats}
    BY <1>12, <1>17 DEF Members
  <2> QED BY <1>2, <1>10, <1>13, <2>1 DEF Members
<1>19. /\ \E x \in R : x.id = Founding
       /\ \A x \in R : x.id = Founding <=> x.role = Owner
  BY <1>2, <1>10, <1>12 DEF PageOK
<1>20. PageOK(e)
  <2>1. \A i \in 1..Len(eps) : eps[i] = all
    BY <1>14
  <2> QED BY <1>14, <1>17, <1>18, <1>19, <2>1 DEF PageOK
<1>21. Follows(b, e)
  BY <1>2, <1>13, <1>14, <1>17, <1>18 DEF Follows
<1> QED BY <1>1, <1>13, <1>15, <1>17, <1>18, <1>20, <1>21 DEF Onward

\* The tree starts as its founder's, or shared once.
LEMMA StartingLine ==
    ASSUME NEW D, NEW guests, guests \subseteq Guests,
           D = IF guests = {} THEN <<Provisioned(Founding)>>
               ELSE <<Provisioned(Founding), SharedWith(guests)>>
    PROVE  /\ LineOK(D) /\ MintsOK(D, MintedIn(D))
           /\ Len(D) = (IF guests = {} THEN 1 ELSE 2)
           /\ Members(D[Len(D)]) = {Founding} \cup guests
<1>1. PICK L : L = <<Provisioned(Founding)>>
  OBVIOUS
<1>2. LineOK(L) /\ MintsOK(L, MintedIn(L)) /\ Len(L) = 1 /\ L[1] = Provisioned(Founding)
  BY <1>1, FoundingLine
<1>3. CASE guests = {}
  <2>1. D = L
    BY <1>1, <1>3
  <2> QED BY <1>2, <1>3, <2>1, FoundingPage
<1>4. CASE guests # {}
  <2>1. PICK b : b = SharedWith(guests)
    OBVIOUS
  <2>2. Onward(L[1], 1, 2, b) /\ Members(b) = {Founding} \cup guests
    BY <1>2, <1>4, <2>1, SharedWithOnward
  <2>3. D = Append(L, b)
    <3>1. PICK a : a = Provisioned(Founding)
      OBVIOUS
    <3>2. L = <<a>> /\ D = <<a, b>>
      BY <1>1, <1>4, <2>1, <3>1
    <3> QED BY <3>2
  <2>4. PageOK(b) /\ b.rev = Len(L) + 1 /\ b.prev = Len(L) /\ Follows(L[Len(L)], b)
    BY <1>2, <2>2 DEF Onward
  <2>5. PICK M : M = MintedIn(L)
    OBVIOUS
  <2>6. MintsOK(L, M)
    BY <1>2, <2>5
  <2>7. /\ LineOK(Append(L, b)) /\ MintsOK(Append(L, b), MintedIn(Append(L, b)))
        /\ Len(Append(L, b)) = Len(L) + 1 /\ Append(L, b)[Len(Append(L, b))] = b
    BY <1>2, <2>4, <2>6, NextInLine
  <2>8. LineOK(D) /\ MintsOK(D, MintedIn(D)) /\ Len(D) = Len(L) + 1 /\ D[Len(D)] = b
    BY <2>3, <2>7, Zenon
  <2> QED BY <1>2, <1>4, <2>2, <2>8
<1> QED BY <1>3, <1>4

LEMMA TreeInitInv ==
    ASSUME NEW o, Owners = {o}, TreeInit
    PROVE  TreeInv
<1>1. PICK guests \in SUBSET AtStart :
        LET n == IF guests = {} THEN 1 ELSE 2
            there == {CHOOSE p \in Owners : TRUE} \cup guests
        IN  /\ bodies = IF n = 1 THEN <<Provisioned(Founding)>>
                        ELSE <<Provisioned(Founding), SharedWith(guests)>>
            /\ chain = IF n = 1 THEN <<>> ELSE <<1, 2>>
            /\ acl = n
            /\ entries = <<>> /\ sent = {} /\ base = NoSnap
            /\ shelf = [d \in Devices |-> IF d \in there THEN OnShelf(n, 1..n) ELSE OnShelf(0, {})]
            /\ disk = [d \in Devices |-> NoDisk]
            /\ core = [d \in Devices |-> IF d \in there THEN Opened(d, n, 1..n, NoDisk) ELSE NoCore]
            /\ call = [d \in Devices |-> Resting]
            /\ crashes = 0
  BY DEF TreeInit
<1>2. PICK n, k, there :
        /\ n = (IF guests = {} THEN 1 ELSE 2) /\ k = (IF guests = {} THEN 0 ELSE 2)
        /\ there = {o} \cup guests
  OBVIOUS
<1>3. guests \subseteq Guests /\ (CHOOSE p \in Owners : TRUE) = o
  BY SharedTreeAssumption
<1>4. n \in Nat /\ k \in Nat /\ n # 0 /\ k <= n /\ k \in 0..n /\ (guests # {} => k = n) /\ (n = 1 <=> guests = {})
      /\ n \in 1..n
  BY <1>2
<1>5. /\ LineOK(bodies) /\ MintsOK(bodies, Minted) /\ Len(bodies) = n
      /\ Members(bodies[n]) = {Founding} \cup guests
  <2>1. bodies = IF guests = {} THEN <<Provisioned(Founding)>>
                 ELSE <<Provisioned(Founding), SharedWith(guests)>>
    BY <1>1
  <2> QED BY <1>2, <1>3, <2>1, StartingLine DEF Minted
<1>6. chain = Published(k) /\ Len(chain) = k
  <2>1. chain = IF guests = {} THEN <<>> ELSE <<1, 2>>
    BY <1>1
  <2>2. CASE guests = {}
    BY <1>2, <2>1, <2>2 DEF Published
  <2>3. CASE guests # {}
    <3>1. chain = <<1, 2>> /\ k = 2
      BY <1>2, <2>1, <2>3
    <3>2. chain \in Seq(Nat) /\ Len(chain) = 2 /\ chain[1] = 1 /\ chain[2] = 2
      BY <3>1
    <3>3. chain = [i \in 1..2 |-> chain[i]] /\ \A i \in 1..2 : chain[i] = i
      BY <3>2
    <3> QED BY <3>1, <3>2, <3>3 DEF Published
  <2> QED BY <2>2, <2>3
<1>7. Len(entries) = 0 /\ entries = [i \in 1..0 |-> entries[i]] /\ sent = {} /\ base = NoSnap
  BY <1>1
<1>8. /\ shelf = [d \in Devices |-> IF d \in there THEN OnShelf(n, 1..n) ELSE OnShelf(0, {})]
      /\ disk = [d \in Devices |-> NoDisk]
      /\ core = [d \in Devices |-> IF d \in there THEN Opened(d, n, 1..n, NoDisk) ELSE NoCore]
      /\ call = [d \in Devices |-> Resting]
  BY <1>1, <1>2, <1>3
<1>9. /\ DiskOK(bodies, Minted, 0, NoDisk)
      /\ \A d \in Devices : disk[d] = NoDisk /\ call[d] = Resting
  BY <1>8 DEF DiskOK, SnapOK, NoDisk
<1>10. ASSUME NEW d \in Devices
       PROVE  DeviceOK(bodies, Minted, k, 0, shelf[d], disk[d], core[d], call[d], d)
  <2>1. CASE d \in there
    <3>1. PICK sh, e : sh = OnShelf(n, 1..n) /\ e = Opened(d, n, 1..n, NoDisk)
      OBVIOUS
    <3>2. shelf[d] = sh /\ core[d] = e
      BY <1>8, <2>1, <3>1
    <3>3. sh.head = n /\ sh.kept = 1..n /\ sh = OnShelf(sh.head, sh.kept)
      BY <3>1 DEF OnShelf
    <3>4. d \in Guests => k = n
      BY <1>2, <1>3, <1>4, <2>1, HolderIs
    <3>5. ShelfOK(bodies, k, sh, d)
      <4>1. n \in 0..n /\ 1..n \subseteq 1..n /\ 1..n # {} /\ 1..k \subseteq 1..n /\ n <= n
        BY <1>4
      <4> QED BY <1>4, <1>5, <3>3, <3>4, <4>1 DEF ShelfOK
    <3>6. Holder(d) \in Members(bodies[n])
      BY <1>2, <1>3, <1>5, <2>1, HolderIs
    <3>7. Fresh(d, n, NoDisk, e) /\ e.top = IF bodies[n].shared = 0 THEN 0 ELSE n
      BY <3>1, OpenedIs
    <3>8. SessionOK(bodies, Minted, k, 0, sh, e, Resting, d)
      BY <1>4, <1>5, <1>9, <3>3, <3>5, <3>6, <3>7, RestingOK, RunsOnceOpened
    <3> QED BY <1>9, <3>2, <3>5, <3>8, RestingOK DEF DeviceOK
  <2>2. CASE d \notin there
    <3>1. PICK sh : sh = OnShelf(0, {})
      OBVIOUS
    <3>2. shelf[d] = sh /\ core[d] = NoCore /\ d \notin Owners
      BY <1>2, <1>8, <2>2, <3>1
    <3>3. ShelfOK(bodies, k, sh, d)
      <4>1. sh.head = 0 /\ sh.kept = {} /\ sh = OnShelf(sh.head, sh.kept) /\ 0 \in 0..n /\ 0 <= k
        BY <1>4, <3>1 DEF OnShelf
      <4> QED BY <1>5, <3>2, <4>1 DEF ShelfOK
    <3> QED BY <1>9, <3>2, <3>3, ClosedOK, RestingOK DEF DeviceOK
  <2> QED BY <2>1, <2>2
<1>11. /\ shelf = [d \in Devices |-> shelf[d]] /\ disk = [d \in Devices |-> disk[d]]
       /\ core = [d \in Devices |-> core[d]] /\ call = [d \in Devices |-> call[d]]
  BY <1>8
<1>12. 1..0 = {} /\ sent \subseteq 1..0 /\ SnapOK(bodies, Minted, base)
  BY <1>7 DEF SnapOK
<1> QED BY <1>4, <1>5, <1>6, <1>7, <1>10, <1>11, <1>12 DEF TreeInv

LEMMA TreeNextKeeps ==
    ASSUME TreeInv, NEW o, Owners = {o}, TreeNext \/ UNCHANGED treeVars
    PROVE  TreeInv'
<1>1. CASE TreeNext
  <2>1. PICK d \in Devices : Editing(d) \/ Administering(d) \/ Syncing(d) \/ Coming(d)
    BY <1>1 DEF TreeNext
  <2>2. CASE Editing(d)
    BY <2>2, CommitEditKeeps, DecidePendingKeeps DEF Editing
  <2>3. CASE Administering(d)
    <3>1. CASE Begin(d) \/ Pin(d) \/ Swap(d) \/ SealBase(d)
      BY <3>1, BeginKeeps, PinKeeps, SwapKeeps, SealBaseKeeps
    <3>2. CASE Author(d) \/ PublishKeyring(d)
      BY <3>2, AuthorKeeps, PublishKeyringKeeps
    <3> QED BY <2>3, <3>1, <3>2 DEF Administering
  <2>4. CASE Syncing(d)
    BY <2>4, SyncKeyringKeeps, TornSyncKeeps, SyncDataKeeps DEF Syncing
  <2>5. CASE Coming(d)
    BY <2>5, ArriveKeeps, CrashKeeps, OpenStoredKeeps DEF Coming
  <2> QED BY <2>1, <2>2, <2>3, <2>4, <2>5
<1>2. CASE UNCHANGED treeVars
  <2>1. UNCHANGED <<bodies, chain, entries, sent, base, shelf, disk, core, call>>
    BY <1>2 DEF treeVars
  <2>2. Minted' = Minted
    BY <2>1 DEF Minted
  <2> QED BY <2>1, <2>2 DEF TreeInv
<1> QED BY <1>1, <1>2

\* Two devices of the owner may both write on one body, and the line forks.  The worker leaves a
\* server that is as long alone whatever it holds (PublishKeyring), so a device whose fork lost
\* goes on to its data: each of the three properties then fails, and needs this assumption.
OneOwnerDevice == \E o : Owners = {o}

LEMMA TreeIsInvariant == OneOwnerDevice => (TreeSpec => []TreeInv)
<1> SUFFICES ASSUME OneOwnerDevice PROVE TreeSpec => []TreeInv
  OBVIOUS
<1>1. PICK o : Owners = {o}
  BY DEF OneOwnerDevice
<1>2. TreeInit => TreeInv
  BY <1>1, TreeInitInv
<1>3. TreeInv /\ [TreeNext]_treeVars => TreeInv'
  BY <1>1, TreeNextKeeps
<1> QED BY <1>2, <1>3, PTL DEF TreeSpec

LEMMA InvLocksOut == TreeInv => RemovedReadsNothingNew
<1> SUFFICES ASSUME TreeInv,
                    NEW x \in (Range(entries) \cup {base}) \ {NoSnap},
                    x.top # 0, x.by \in Members(bodies[x.top]),
                    NEW p \in Guests \ Members(bodies[x.top]),
                    NEW g \in Ancestors(x.top)
             PROVE  x.key \notin Reached(g, p)
  BY DEF RemovedReadsNothingNew
<1>1. SealOK(bodies, Minted, x)
  <2>1. CASE x = base
    BY <2>1 DEF TreeInv, SnapOK
  <2>2. CASE x \in Range(entries)
    <3>1. PICK i \in 1..Len(entries) : x = entries[i]
      <4>1. DOMAIN entries = 1..Len(entries)
        BY DEF TreeInv
      <4> QED BY <2>2, <4>1 DEF Range
    <3> QED BY <3>1 DEF TreeInv, EntryOK
  <2> QED BY <2>1, <2>2
<1>2. PICK t : t = x.top
  OBVIOUS
<1>3. t \in 1..Len(bodies) /\ x.key = Latest(Minted, t) /\ p \notin Members(bodies[t])
  BY <1>1, <1>2, SizesOf DEF SealOK
<1>4. LineOK(bodies) /\ MintsOK(bodies, Minted)
  BY DEF TreeInv
<1>5. g \in 1..t
  BY <1>2, <1>3, <1>4, AncestorsAre DEF Ancestors
<1>6. Latest(Minted, t) \notin Opens(bodies, Minted, g, p)
  BY <1>3, <1>4, <1>5, LockedOut
<1>7. Reached(g, p) = Opens(bodies, Minted, g, p)
  BY DEF Reached, Opens
<1> QED BY <1>3, <1>6, <1>7

LEMMA InvKeyringAhead == TreeInv => KeyringBeforeData
<1> SUFFICES ASSUME TreeInv, NEW d \in Devices, call[d].at = "data", Shared(core[d]), Whole(d)
             PROVE  core[d].top \in Range(chain)
  BY DEF KeyringBeforeData
<1>1. PICK k \in Nat : k = Len(chain) /\ Range(chain) = 1..k
  BY ChainIs, SizesOf
<1>2. /\ SessionOK(bodies, Minted, k, Len(entries), shelf[d], core[d], call[d], d)
      /\ core[d].open /\ core[d].top # 0 /\ shelf[d].head # 0
  BY <1>1, PartsOf DEF SessionOK, Shared
<1>3. core[d].top \in Nat
  BY <1>2, SizesOf DEF SessionOK, KeysOK
<1>4. CASE d \in Guests
  BY <1>1, <1>2, <1>3, <1>4 DEF SessionOK
<1>5. CASE d \in Owners
  <2>1. PICK N \in Nat : N = Len(bodies) /\ N \in 1..Len(bodies) /\ shelf[d].head = N
    BY <1>5, PartsOf, SizesOf DEF ShelfOK
  <2>2. core[d].top = N
    BY <1>2, <1>5, <2>1 DEF SessionOK, RunsOn, Current
  <2>3. N \in shelf[d].kept
    <3>1. RevOf(N) = N /\ N \in 1..N
      BY <2>1, BodyIs
    <3>2. PICK h \in shelf[d].kept : RevOf(h) = N
      BY <2>1, <3>1 DEF Whole
    <3>3. h \in 1..Len(bodies)
      BY PartsOf DEF ShelfOK
    <3> QED BY <3>2, <3>3, BodyIs
  <2>4. k = N
    BY <1>1, <1>5, <2>1, <2>3, PartsOf DEF CallOK
  <2> QED BY <1>1, <2>1, <2>2, <2>4
<1> QED BY <1>4, <1>5, HolderIs

LEMMA InvUploadsVerify == TreeInv => SentEntriesVerify
<1> SUFFICES ASSUME TreeInv, NEW i \in sent, entries[i].ref # 0, entries[i].ref <= Len(chain)
             PROVE  /\ MayAct(chain[entries[i].ref], entries[i].by, Maintainer)
                    /\ entries[i].key = Newest(chain[entries[i].ref])
  BY DEF SentEntriesVerify
<1>1. PICK e : e = entries[i]
  OBVIOUS
<1>2. EntryOK(bodies, Minted, e)
  BY <1>1 DEF TreeInv
<1>3. PICK r : r = e.ref
  OBVIOUS
<1>4. r \in 1..Len(bodies) /\ r \in 1..Len(chain)
  BY <1>1, <1>2, <1>3, SizesOf DEF EntryOK
<1>5. chain[r] = r /\ Newest(r) = Latest(Minted, r)
  BY <1>4, ChainIs, BodyIs
<1>6. Acts(bodies[r], e.by) /\ e.key = Latest(Minted, r)
  BY <1>1, <1>2, <1>3 DEF EntryOK
<1>7. MayAct(r, e.by, Maintainer)
  BY <1>6 DEF Acts, MayAct
<1> QED BY <1>1, <1>3, <1>5, <1>6, <1>7

(***************************************************************************)
(* vault.rs, do_remove_member: a removal mints an epoch for those who      *)
(* stay, and whoever then runs on that keyring seals under it; none of the *)
(* keyrings the removed member ever held opens it to them.                 *)
(***************************************************************************)
THEOREM RemovedStayLockedOut == OneOwnerDevice => (TreeSpec => []RemovedReadsNothingNew)
BY TreeIsInvariant, InvLocksOut, PTL

(***************************************************************************)
(* appCore.worker.js, tick and publishMembership: the data step is reached *)
(* only once the keyring the session runs on is on the server.             *)
(***************************************************************************)
THEOREM KeyringStaysAhead == OneOwnerDevice => (TreeSpec => []KeyringBeforeData)
BY TreeIsInvariant, InvKeyringAhead, PTL

(***************************************************************************)
(* verify.rs, verify_ingest: what an honest session uploads is valid under *)
(* the published revision it names: its author was entitled there, and it  *)
(* is sealed with that revision's newest epoch.                            *)
(***************************************************************************)
THEOREM UploadsVerify == OneOwnerDevice => (TreeSpec => []SentEntriesVerify)
BY TreeIsInvariant, InvUploadsVerify, PTL

=============================================================================
