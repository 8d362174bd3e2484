---------------------------- MODULE Server_proofs ----------------------------
(***************************************************************************)
(* Proofs about the managed server: a tree's keyring revisions and invites *)
(* (TreeAccess), the meter of its media (Media), and its blob routes with  *)
(* the collector (BlobServer), for any accounts, members, replicas,        *)
(* requests, blobs, entitlements and bounds.                               *)
(***************************************************************************)
EXTENDS TreeAccess, Media, BlobServer, Lemmas

-----------------------------------------------------------------------------
(* The keyring's revisions.                                                *)

Keyring == [author : Account, roster : Roster, parent : 0..MaxRevision, reset : BOOLEAN]
ChainInv == keyrings \in Seq(Keyring) /\ RevisionsAreOneChain

\* Only put_keyring writes the revisions.
LEMMA KeyringsChangeByPut ==
    ASSUME [Membership \/ Proposing \/ Inviting]_accessVars
    PROVE  keyrings' = keyrings \/ \E k \in Keyring : PutKeyring(k)
<1>1. ASSUME NEW m \in Account, NEW roster \in Roster, NEW parent \in 0..MaxRevision,
             NEW reset \in BOOLEAN,
             PutKeyring([author |-> m, roster |-> roster, parent |-> parent, reset |-> reset])
      PROVE  \E k \in Keyring : PutKeyring(k)
  <2> DEFINE k == [author |-> m, roster |-> roster, parent |-> parent, reset |-> reset]
  <2>1. k \in Keyring
    BY DEF Keyring
  <2> QED BY <2>1, <1>1
<1>2. CooldownEnds => keyrings' = keyrings
  BY DEF CooldownEnds
<1>3. ASSUME NEW m, NEW g, NEW roster, PutAccess(m, g, roster) PROVE keyrings' = keyrings
  BY <1>3 DEF PutAccess
<1>4. Membership => keyrings' = keyrings \/ \E k \in Keyring : PutKeyring(k)
  BY <1>1, <1>2, <1>3 DEF Membership
<1>5. Proposing => keyrings' = keyrings
  BY DEF Proposing, ProposeCheck, ProposeInsert, DeleteProposal, ExpireProposal, treeVars
<1>6. Inviting => keyrings' = keyrings
  BY DEF Inviting, CreateInvite, ClaimCheck, ClaimWrite, AdmitInvite, ReopenInvite,
         ExpireInvite, DropInvite, treeVars
<1> QED BY <1>4, <1>5, <1>6 DEF accessVars, treeVars

LEMMA ChainStep ==
    ASSUME ChainInv, [Membership \/ Proposing \/ Inviting]_accessVars
    PROVE  ChainInv'
<1>1. CASE keyrings' = keyrings
  BY <1>1 DEF ChainInv, RevisionsAreOneChain, HeadRevision
<1>2. ASSUME NEW k \in Keyring, PutKeyring(k) PROVE ChainInv'
  <2>1. keyrings' = Append(keyrings, k) /\ Admits(k)
    BY <1>2 DEF PutKeyring
  <2>2. keyrings \in Seq(Keyring) /\ keyrings' \in Seq(Keyring)
    BY <2>1 DEF ChainInv
  <2>3. Len(keyrings) \in Nat /\ Len(keyrings') = Len(keyrings) + 1
    BY <2>1, <2>2
  <2>4. \A r \in 1..Len(keyrings) : keyrings'[r] = keyrings[r]
    BY <2>1, <2>2
  <2>5. keyrings'[Len(keyrings) + 1] = k
    BY <2>1, <2>2
  <2>6. ASSUME NEW r \in 1..Len(keyrings')
        PROVE  /\ keyrings'[r].parent = r - 1
               /\ r > 1 /\ ~keyrings'[r].reset =>
                    keyrings'[r].author \in SignersOf(keyrings'[r - 1].roster)
    <3>1. CASE r <= Len(keyrings)
      <4>1. r \in 1..Len(keyrings) /\ (r > 1 => r - 1 \in 1..Len(keyrings))
        BY <3>1, <2>3
      <4> QED BY <4>1, <2>4 DEF ChainInv, RevisionsAreOneChain, HeadRevision
    <3>2. CASE r = Len(keyrings) + 1
      <4>1. keyrings'[r] = k /\ k.parent = r - 1
        BY <3>2, <2>1, <2>3, <2>5 DEF Admits, HeadRevision
      <4>2. r > 1 => keyrings'[r - 1] = keyrings[Len(keyrings)] /\ Len(keyrings) > 0
        BY <3>2, <2>3, <2>4
      <4> QED BY <4>1, <4>2, <2>1 DEF Admits, HeadRevision
    <3> QED BY <3>1, <3>2, <2>3
  <2> QED BY <2>2, <2>6 DEF ChainInv, RevisionsAreOneChain, HeadRevision
<1> QED BY <1>1, <1>2, KeyringsChangeByPut

\* Whatever stale keyrings are sent, each admitted revision extends the one
\* before it and was written by one of its signers, or is a reset
\* (keyring.rs: put_keyring).
THEOREM RevisionsStayOneChain == AccessSpec => []RevisionsAreOneChain
<1>1. AccessInit => ChainInv
  BY DEF AccessInit, ChainInv, RevisionsAreOneChain, HeadRevision
<1>2. ChainInv /\ [Membership \/ Proposing \/ Inviting]_accessVars => ChainInv'
  BY ChainStep
<1>3. ChainInv => RevisionsAreOneChain
  BY DEF ChainInv
<1> QED BY <1>1, <1>2, <1>3, PTL DEF AccessSpec

-----------------------------------------------------------------------------
(* Invites.                                                                *)

InviteRow ==
    [status : {"none", "gone"}]
    \cup [status : {"open", "claimed", "admitted"}, role : Role, mintedBy : Account,
          pin : SUBSET Account, claim : SUBSET Account, expired : BOOLEAN]
SessionRequest == [at : {"idle"}] \cup [at : {"propose"}, by : Account]
           \cup [at : {"claim"}, invite : Invite, by : Account]

Pinned(row, m) == row.pin # {} => m \in row.pin

InviteInv ==
    /\ invites \in [Invite -> InviteRow] /\ session \in [Session -> SessionRequest]
    /\ \A i \in Invite : Taken(invites[i]) =>
          \E m \in Account : invites[i].claim = {m} /\ Pinned(invites[i], m)
    \* A request that passed the check passes it still: no row is made twice.
    /\ \A s \in Session : session[s].at = "claim" =>
          /\ invites[session[s].invite].status # "none"
          /\ Listed(session[s].invite) => Pinned(invites[session[s].invite], session[s].by)

\* Which rows and requests a step may write.
LEMMA RowIs ==
    ASSUME NEW row \in InviteRow
    PROVE  /\ row.status \in {"none", "gone", "open", "claimed", "admitted"}
           /\ row.status \in {"open", "claimed", "admitted"} =>
                row \in [status : {"open", "claimed", "admitted"}, role : Role,
                         mintedBy : Account, pin : SUBSET Account, claim : SUBSET Account,
                         expired : BOOLEAN]
BY DEF InviteRow

\* A row that goes from standing to standing keeps its pin, and its claim unless
\* it is cleared, or taken from open by someone whom the pin allows.
Steps(old, new) ==
    /\ new \in InviteRow /\ new.status # "none"
    /\ Taken(new) => \E m \in Account : new.claim = {m} /\ Pinned(new, m)
    /\ new.status # "gone" /\ old.status # "none" =>
          old.status # "gone" /\ new.pin = old.pin
    /\ Taken(old) /\ Taken(new) =>
          new.claim = old.claim /\ (old.status = "admitted" => new.status = "admitted")

\* A step that writes one row as Steps allows.
LEMMA RowWritten ==
    ASSUME InviteInv, NEW i \in Invite, NEW row, SetRow(i, row), Steps(invites[i], row),
           session' = session
    PROVE  InviteInv' /\ \A j \in Invite : invites'[j] = invites[j] \/ Steps(invites[j], invites'[j])
<1>1. invites' = [invites EXCEPT ![i] = row] /\ invites \in [Invite -> InviteRow]
  BY DEF SetRow, InviteInv
<1>2. row \in InviteRow
  BY DEF Steps
<1>3. invites' \in [Invite -> InviteRow]
  BY <1>1, <1>2
<1>4. \A j \in Invite : invites'[j] = IF j = i THEN row ELSE invites[j]
  BY <1>1
<1>5. \A j \in Invite : Taken(invites'[j]) =>
         \E m \in Account : invites'[j].claim = {m} /\ Pinned(invites'[j], m)
  BY <1>4 DEF InviteInv, Steps
<1>6. ASSUME NEW s \in Session, session'[s].at = "claim"
      PROVE  /\ invites'[session'[s].invite].status # "none"
             /\ invites'[session'[s].invite].status \in {"open", "claimed", "admitted"} =>
                  Pinned(invites'[session'[s].invite], session'[s].by)
  <2> DEFINE j == session[s].invite
  <2>1. session[s].at = "claim" /\ session[s] \in SessionRequest
    BY <1>6 DEF InviteInv
  <2>2. j \in Invite
    BY <2>1 DEF SessionRequest
  <2>3. /\ invites[j].status # "none"
        /\ invites[j].status \in {"open", "claimed", "admitted"} => Pinned(invites[j], session[s].by)
    BY <2>1 DEF InviteInv, Listed, Row
  <2>4. invites[j].status \in {"none", "gone", "open", "claimed", "admitted"}
    BY <2>2, <1>1, RowIs
  <2>5. CASE j = i
    <3>1. invites'[j] = row /\ row.status # "none"
      BY <2>5, <2>2, <1>4 DEF Steps
    <3>2. row.status \in {"open", "claimed", "admitted"} => Pinned(row, session[s].by)
      BY <2>3, <2>4, <2>5 DEF Steps, Pinned
    <3> QED BY <3>1, <3>2
  <2>6. CASE j # i
    BY <2>6, <2>2, <2>3, <1>4
  <2> QED BY <2>5, <2>6
<1>7. InviteInv'
  BY <1>3, <1>5, <1>6 DEF InviteInv, Listed, Row
<1> QED BY <1>4, <1>7

\* A step that lets one request go on.
LEMMA RequestWritten ==
    ASSUME InviteInv, NEW s \in Session, NEW next \in SessionRequest, Holds(s, next),
           invites' = invites,
           next.at = "claim" => /\ invites[next.invite].status = "open"
                                /\ Pinned(invites[next.invite], next.by)
    PROVE  InviteInv'
<1>1. session' = [session EXCEPT ![s] = next] /\ session \in [Session -> SessionRequest]
  BY DEF Holds, InviteInv
<1>2. session' \in [Session -> SessionRequest] /\ \A t \in Session : session'[t] = IF t = s THEN next ELSE session[t]
  BY <1>1
<1> QED BY <1>2 DEF InviteInv, Listed, Row

LEMMA InviteInit == AccessInit => InviteInv
BY DEF AccessInit, InviteInv, InviteRow, SessionRequest, Taken, Listed, Row

\* A step of another part leaves the invites and the requests alone.
LEMMA InviteFrame ==
    ASSUME InviteInv, invites' = invites, session' = session
    PROVE  InviteInv'
BY DEF InviteInv, Listed, Row

\* Every step keeps the invariant, and writes a row only as Steps allows.
LEMMA InviteStep ==
    ASSUME InviteInv, [Membership \/ Proposing \/ Inviting]_accessVars
    PROVE  InviteInv' /\ \A j \in Invite : invites'[j] = invites[j] \/ Steps(invites[j], invites'[j])
<1> DEFINE Goal ==
        InviteInv' /\ \A j \in Invite : invites'[j] = invites[j] \/ Steps(invites[j], invites'[j])
<1>1. CASE UNCHANGED accessVars
  BY <1>1, InviteFrame DEF accessVars
<1>2. CASE Membership
  <2>1. invites' = invites /\ session' = session
    BY <1>2 DEF Membership, PutKeyring, CooldownEnds, PutAccess
  <2> QED BY <2>1, InviteFrame
<1>3. CASE Proposing
  <2>1. ASSUME NEW s \in Session, ProposeInsert(s) PROVE Goal
    <3>1. [at |-> "idle"] \in SessionRequest /\ Holds(s, [at |-> "idle"]) /\ invites' = invites
      BY <2>1 DEF ProposeInsert, Answers, SessionRequest
    <3> QED BY <3>1, RequestWritten
  <2>2. ASSUME NEW s \in Session, NEW m \in Account, ProposeCheck(s, m) PROVE Goal
    <3>1. /\ [at |-> "propose", by |-> m] \in SessionRequest
          /\ Holds(s, [at |-> "propose", by |-> m]) /\ invites' = invites
      BY <2>2 DEF ProposeCheck, SessionRequest
    <3> QED BY <3>1, RequestWritten
  <2>3. ASSUME NEW p, ExpireProposal(p) \/ \E m \in Account : DeleteProposal(p, m) PROVE Goal
    BY <2>3, InviteFrame DEF ExpireProposal, DeleteProposal
  <2> QED BY <1>3, <2>1, <2>2, <2>3 DEF Proposing
<1>4. CASE Inviting
  <2>0. invites \in [Invite -> InviteRow]
    BY DEF InviteInv
  <2>1. ASSUME NEW i \in Invite, NEW m \in Account, NEW role \in Role, NEW pin \in PinnedTo,
               CreateInvite(i, m, role, pin)
        PROVE  Goal
    <3> DEFINE row == [status |-> "open", role |-> role, mintedBy |-> m, pin |-> pin,
                       claim |-> {}, expired |-> FALSE]
    <3>1. row \in InviteRow
      BY TreeAccessAssumption DEF InviteRow
    <3>2. Steps(invites[i], row) /\ SetRow(i, row) /\ session' = session
      BY <2>1, <3>1 DEF CreateInvite, Steps, Taken, Row
    <3> QED BY <3>2, RowWritten
  <2>2. ASSUME NEW s \in Session, NEW i \in Invite, NEW m \in Account, ClaimCheck(s, i, m)
        PROVE  Goal
    <3> DEFINE next == [at |-> "claim", invite |-> i, by |-> m]
    <3>1. next \in SessionRequest /\ Holds(s, next) /\ invites' = invites
      BY <2>2 DEF ClaimCheck, SessionRequest
    <3>2. invites[i].status = "open" /\ Pinned(invites[i], m)
      BY <2>2 DEF ClaimCheck, Row, Pinned
    <3> QED BY <3>1, <3>2, RequestWritten
  <2>3. ASSUME NEW i \in Invite, NEW m \in Account, AdmitInvite(i, m) PROVE Goal
    <3> DEFINE row == [invites[i] EXCEPT !.status = "admitted"]
    <3>1. invites[i].status = "claimed" /\ SetRow(i, row) /\ session' = session
      BY <2>3 DEF AdmitInvite, Row
    <3>2. /\ row \in InviteRow /\ row.status = "admitted"
          /\ row.claim = invites[i].claim /\ row.pin = invites[i].pin
      BY <2>0, <3>1 DEF InviteRow
    <3>3. Steps(invites[i], row)
      BY <3>1, <3>2 DEF Steps, InviteInv, Taken, Pinned
    <3> QED BY <3>1, <3>3, RowWritten
  <2>4. ASSUME NEW i \in Invite, NEW m \in Account, ReopenInvite(i, m) PROVE Goal
    <3> DEFINE row == [invites[i] EXCEPT !.status = "open", !.claim = {}]
    <3>1. invites[i].status = "claimed" /\ SetRow(i, row) /\ session' = session
      BY <2>4 DEF ReopenInvite, Row
    <3>2. row \in InviteRow /\ row.status = "open" /\ row.pin = invites[i].pin
      BY <2>0, <3>1 DEF InviteRow
    <3>3. Steps(invites[i], row)
      BY <3>1, <3>2 DEF Steps, Taken
    <3> QED BY <3>1, <3>3, RowWritten
  <2>5. ASSUME NEW s \in Session, ClaimWrite(s) PROVE Goal
    <3> DEFINE i == session[s].invite
               m == session[s].by
               row == [invites[i] EXCEPT !.status = "claimed", !.claim = {m}]
    <3>1. session[s].at = "claim" /\ session[s] \in SessionRequest
      BY <2>5 DEF ClaimWrite, InviteInv
    <3>2. i \in Invite /\ m \in Account
      BY <3>1 DEF SessionRequest
    <3>3. [at |-> "idle"] \in SessionRequest /\ Holds(s, [at |-> "idle"])
      BY <2>5 DEF ClaimWrite, Answers, SessionRequest
    <3>4. CASE invites[i].status # "open"
      <4>1. invites' = invites
        BY <2>5, <3>4 DEF ClaimWrite, Row
      <4> QED BY <4>1, <3>3, RequestWritten
    <3>5. CASE invites[i].status = "open"
      <4>1. SetRow(i, row)
        BY <2>5, <3>5 DEF ClaimWrite, Row
      <4>2. Pinned(invites[i], m)
        BY <3>1, <3>5 DEF InviteInv, Listed, Row
      <4>3. /\ row \in InviteRow /\ row.status = "claimed"
            /\ row.claim = {m} /\ row.pin = invites[i].pin
        BY <2>0, <3>2, <3>5 DEF InviteRow
      <4>4. Steps(invites[i], row)
        BY <3>2, <3>5, <4>2, <4>3 DEF Steps, Taken, Pinned
      \* The row is written, and the request answered, in one step.
      <4>5. /\ invites' = [invites EXCEPT ![i] = row]
            /\ session' = [session EXCEPT ![s] = [at |-> "idle"]]
        BY <4>1, <3>3 DEF SetRow, Holds
      <4>6. InviteInv'
        <5>1. invites' \in [Invite -> InviteRow] /\ session' \in [Session -> SessionRequest]
          BY <4>3, <4>5, <3>3, <2>0 DEF InviteInv
        <5>2. \A j \in Invite : Taken(invites'[j]) =>
                 \E a \in Account : invites'[j].claim = {a} /\ Pinned(invites'[j], a)
          BY <4>4, <4>5, <2>0 DEF InviteInv, Steps
        <5>3. \A r \in Session : session'[r].at = "claim" =>
                 /\ session'[r] = session[r] /\ session[r].invite \in Invite
                 /\ invites[session[r].invite].status # "none"
                 /\ Listed(session[r].invite) => Pinned(invites[session[r].invite], session[r].by)
          BY <4>5 DEF InviteInv, SessionRequest
        <5>4. \A j \in Invite : invites'[j].status # "none" \/ invites[j].status = "none"
          BY <4>3, <4>5, <2>0
        <5>5. \A j \in Invite, a \in Account :
                 Listed(j)' /\ (Listed(j) => Pinned(invites[j], a)) => Pinned(invites'[j], a)
          BY <3>5, <4>3, <4>5, <2>0 DEF Listed, Row, Pinned
        <5>6. \A r \in Session : session[r].at = "claim" => session[r].by \in Account
          BY DEF InviteInv, SessionRequest
        <5> QED BY <5>1, <5>2, <5>3, <5>4, <5>5, <5>6 DEF InviteInv, Listed, Row
      <4> QED BY <4>4, <4>5, <4>6, <2>0
    <3> QED BY <3>4, <3>5
  <2>6. ASSUME NEW i \in Invite, ExpireInvite(i) PROVE Goal
    <3> DEFINE row == [invites[i] EXCEPT !.expired = TRUE]
    <3>1. /\ invites[i].status \in {"open", "claimed", "admitted"}
          /\ SetRow(i, row) /\ session' = session
      BY <2>6 DEF ExpireInvite, Listed, Row
    <3>2. /\ row \in InviteRow /\ row.status = invites[i].status
          /\ row.claim = invites[i].claim /\ row.pin = invites[i].pin
      BY <2>0, <3>1 DEF InviteRow
    <3>3. Steps(invites[i], row)
      BY <3>1, <3>2 DEF Steps, InviteInv, Taken, Pinned
    <3> QED BY <3>1, <3>3, RowWritten
  <2>7. ASSUME NEW i \in Invite, DropInvite(i) PROVE Goal
    <3> DEFINE row == [status |-> "gone"]
    <3>1. SetRow(i, row) /\ session' = session /\ row \in InviteRow
      BY <2>7 DEF DropInvite, InviteRow
    <3>2. Steps(invites[i], row)
      BY <3>1 DEF Steps, Taken
    <3> QED BY <3>1, <3>2, RowWritten
  <2> QED BY <1>4, <2>1, <2>2, <2>3, <2>4, <2>5, <2>6, <2>7 DEF Inviting
<1> QED BY <1>1, <1>2, <1>3, <1>4

\* Claims that race do not take an invite over, an admitted one is not claimed
\* again, and who holds it is whom its pin allows (invites.rs: claim_invite).
THEOREM ClaimsStayExclusive == AccessSpec => ClaimIsExclusive
<1>1. ASSUME InviteInv, [Membership \/ Proposing \/ Inviting]_accessVars, NEW i \in Invite
      PROVE  /\ Taken(invites[i]) /\ Taken(invites'[i]) =>
                  /\ invites'[i].claim = invites[i].claim
                  /\ invites[i].status = "admitted" => invites'[i].status = "admitted"
             /\ Taken(invites'[i]) =>
                  /\ Cardinality(invites'[i].claim) = 1
                  /\ invites'[i].pin # {} => invites'[i].claim \subseteq invites'[i].pin
  <2>1. InviteInv' /\ (invites'[i] = invites[i] \/ Steps(invites[i], invites'[i]))
    BY <1>1, InviteStep
  <2>2. ASSUME Taken(invites'[i])
        PROVE  /\ Cardinality(invites'[i].claim) = 1
               /\ invites'[i].pin # {} => invites'[i].claim \subseteq invites'[i].pin
    <3>1. PICK m \in Account : invites'[i].claim = {m} /\ Pinned(invites'[i], m)
      BY <2>1, <2>2 DEF InviteInv
    <3> QED BY <3>1, FS_Singleton DEF Pinned
  <2> QED BY <2>1, <2>2 DEF Steps
<1>2. InviteInv /\ [Membership \/ Proposing \/ Inviting]_accessVars => InviteInv'
  BY InviteStep
<1>3. InviteInv /\ [Membership \/ Proposing \/ Inviting]_accessVars => [ClaimsStand]_invites
  BY <1>1 DEF ClaimsStand
<1> QED BY <1>2, <1>3, InviteInit, PTL DEF AccessSpec, ClaimIsExclusive

-----------------------------------------------------------------------------
(* The meter of the media.  A handler works on one blob, and alone on it:  *)
(* what the owner is billed for a blob is then a function of that handler  *)
(* and of the blob's row, and a step changes it for one blob.              *)

BlobRow == [state : {"none", "pending", "live", "tombstoned"}, size : 0..MaxBlobBytes, refs : Nat]
Handler ==
    [at : {"idle"}]
    \cup [at : {"insert"}, blob : MediaBlob, size : Size]
    \cup [at : {"reject", "reconcile", "copy", "promote", "unstage", "forget"},
          blob : MediaBlob, size : Size, actual : Size]
    \cup [at : {"attach", "detach"}, blob : MediaBlob]
    \cup [at : {"credit", "reclaim", "forget"}, blob : MediaBlob, size : Size, tomb : BOOLEAN]

\* What is billed for a blob with this row, on which this handler works.
Charge(h, row) ==
    IF h.at = "insert" THEN h.size
    ELSE IF h.at \in {"copy", "promote"} THEN h.actual
    ELSE IF h.at = "forget" \/ (h.at = "reclaim" /\ ~h.tomb) THEN 0
    ELSE row.size

\* What a handler read of its blob still holds.
Fits(h, row, staged) ==
    /\ h.at = "insert" => row.size = 0
    /\ h.at \in {"reject", "reconcile", "copy", "promote", "credit"} => row.size = h.size
    /\ h.at = "reclaim" => (h.tomb => row.size = h.size)
    /\ h.at \in {"reconcile", "copy", "promote"} => h.actual <= h.size
    /\ h.at \in {"reconcile", "copy"} => staged # 0

MediaTypes ==
    /\ treeBlobs \in [MediaBlob -> BlobRow] /\ task \in [Task -> Handler]
    /\ staging \in [MediaBlob -> 0..MaxBlobBytes]
    /\ minted \subseteq MediaBlob /\ aged \subseteq MediaBlob

Alone == \A t, u \in Task, b \in MediaBlob : WorksOn(t, b) /\ WorksOn(u, b) => t = u

RowsStand ==
    /\ \A b \in MediaBlob : treeBlobs[b].state = "none" <=> treeBlobs[b].size = 0
    /\ \A b \in MediaBlob \ minted : treeBlobs[b].size = 0
    /\ \A b \in aged : treeBlobs[b].size # 0
    /\ \A t \in Task, b \in MediaBlob : WorksOn(t, b) =>
          b \in minted /\ Fits(task[t], treeBlobs[b], staging[b])

MediaInv ==
    /\ MediaTypes /\ Alone /\ RowsStand
    /\ IsFiniteSet(BilledBytes) /\ IsFiniteSet(BilledBlobs) /\ MediaMeterIsExact

\* A blob that one handler works on is billed by it, any other by its row.
LEMMA BilledIs ==
    ASSUME MediaTypes, Alone, NEW b \in MediaBlob
    PROVE  /\ \A t \in Task : WorksOn(t, b) => Billed(b) = Charge(task[t], treeBlobs[b])
           /\ (\A t \in Task : ~WorksOn(t, b)) => Billed(b) = treeBlobs[b].size
<1> DEFINE at(stages) == {t \in Task : WorksOn(t, b) /\ task[t].at \in stages}
<1>1. ASSUME NEW t \in Task, WorksOn(t, b)
      PROVE  Billed(b) = Charge(task[t], treeBlobs[b])
  <2>1. \A stages : at(stages) = IF task[t].at \in stages THEN {t} ELSE {}
    BY <1>1 DEF Alone
  <2>2. \A stages : task[t].at \in stages => (CHOOSE u \in at(stages) : TRUE) = t
    BY <2>1
  <2>3. CASE task[t].at = "insert"
    <3>1. at({"insert"}) # {} /\ (CHOOSE u \in at({"insert"}) : TRUE) = t
      BY <2>1, <2>2, <2>3
    <3> QED BY <3>1, <2>3 DEF Billed, Charge
  <2>4. CASE task[t].at \in {"copy", "promote"}
    <3>1. at({"insert"}) = {} /\ at({"copy", "promote"}) # {}
      BY <2>1, <2>4
    <3>2. (CHOOSE u \in at({"copy", "promote"}) : TRUE) = t
      BY <2>2, <2>4
    <3> QED BY <3>1, <3>2, <2>4 DEF Billed, Charge
  <2>5. CASE task[t].at \notin {"insert", "copy", "promote"}
    <3>1. at({"insert"}) = {} /\ at({"copy", "promote"}) = {}
      BY <2>1, <2>5
    <3>2. at({"forget", "reclaim"}) = IF task[t].at \in {"forget", "reclaim"} THEN {t} ELSE {}
      BY <2>1
    <3>3. (\E u \in at({"forget", "reclaim"}) : task[u].at = "reclaim" => ~task[u].tomb)
             <=> task[t].at = "forget" \/ (task[t].at = "reclaim" /\ ~task[t].tomb)
      BY <3>2
    <3> QED BY <3>1, <3>3, <2>5 DEF Billed, Charge
  <2> QED BY <2>3, <2>4, <2>5
<1>2. ASSUME \A t \in Task : ~WorksOn(t, b) PROVE Billed(b) = treeBlobs[b].size
  <2>1. \A stages : at(stages) = {}
    BY <1>2
  <2>2. at({"insert"}) = {} /\ at({"copy", "promote"}) = {} /\ at({"forget", "reclaim"}) = {}
    BY <2>1
  <2> QED BY <2>2 DEF Billed
<1> QED BY <1>1, <1>2

BilledByWork ==
    MediaTypes /\ Alone => \A b \in MediaBlob :
        /\ \A t \in Task : WorksOn(t, b) => Billed(b) = Charge(task[t], treeBlobs[b])
        /\ (\A t \in Task : ~WorksOn(t, b)) => Billed(b) = treeBlobs[b].size

\* The same of the state that follows.
LEMMA BilledNext == BilledByWork /\ BilledByWork'
<1>1. BilledByWork
  BY BilledIs DEF BilledByWork
<1> QED BY <1>1, PTL

\* What is billed in all, when each blob is billed as in f.
Bytes(f) == {u \in MediaBlob \X Size : u[2] <= f[u[1]]}
Blobs(f) == {b \in MediaBlob : f[b] # 0}
Unit(n) == IF n = 0 THEN 0 ELSE 1

LEMMA UnitsOfOne ==
    ASSUME NEW b, NEW n \in Nat
    PROVE  IsFiniteSet({b} \X (1..n)) /\ Cardinality({b} \X (1..n)) = n
<1>1. IsFiniteSet({b}) /\ Cardinality({b}) = 1
  BY FS_Singleton
<1>2. IsFiniteSet(1..n) /\ Cardinality(1..n) = n
  BY FS_Interval
<1>3. /\ IsFiniteSet({b} \X (1..n))
      /\ Cardinality({b} \X (1..n)) = Cardinality({b}) * Cardinality(1..n)
  BY <1>1, <1>2, FS_Product, Zenon
<1> QED BY <1>1, <1>2, <1>3

\* Exchanging one part of a set for another.
LEMMA PartExchanged ==
    ASSUME NEW R, NEW U, NEW V, IsFiniteSet(R), IsFiniteSet(U), IsFiniteSet(V),
           R \cap U = {}, R \cap V = {}
    PROVE  /\ IsFiniteSet(R \cup V)
           /\ Cardinality(R \cup V) = Cardinality(R \cup U) - Cardinality(U) + Cardinality(V)
<1>1. IsFiniteSet({}) /\ Cardinality({}) = 0
  BY FS_EmptySet
<1>2. Cardinality(R) \in Nat /\ Cardinality(U) \in Nat /\ Cardinality(V) \in Nat
  BY FS_CardinalityType
<1>3. Cardinality(R \cup U) = Cardinality(R) + Cardinality(U) - Cardinality(R \cap U)
  BY FS_Union
<1>4. /\ IsFiniteSet(R \cup V)
      /\ Cardinality(R \cup V) = Cardinality(R) + Cardinality(V) - Cardinality(R \cap V)
  BY FS_Union
<1>5. Cardinality(R \cap U) = 0 /\ Cardinality(R \cap V) = 0
  BY <1>1
<1> QED BY <1>2, <1>3, <1>4, <1>5

\* Billing one blob anew moves the total by the difference.
LEMMA BytesMove ==
    ASSUME NEW f \in [MediaBlob -> 0..MaxBlobBytes], NEW b \in MediaBlob,
           NEW k \in 0..MaxBlobBytes, IsFiniteSet(Bytes(f))
    PROVE  LET g == [f EXCEPT ![b] = k]
           IN  /\ IsFiniteSet(Bytes(g))
               /\ Cardinality(Bytes(g)) = Cardinality(Bytes(f)) - f[b] + k
<1> DEFINE g == [f EXCEPT ![b] = k]
<1>0. MaxBlobBytes \in Nat /\ f[b] \in Nat /\ k \in Nat
  BY MediaAssumption
<1>1. PICK R : R = {u \in Bytes(f) : u[1] # b}
  OBVIOUS
<1>2. PICK U : U = {b} \X (1..f[b])
  OBVIOUS
<1>3. PICK V : V = {b} \X (1..k)
  OBVIOUS
<1>4. Bytes(f) = R \cup U /\ Bytes(g) = R \cup V
  BY <1>0, <1>1, <1>2, <1>3 DEF Bytes, Size
<1>5. R \cap U = {} /\ R \cap V = {}
  BY <1>1, <1>2, <1>3
<1>6. IsFiniteSet(R)
  BY <1>1, FS_Subset
<1>7. IsFiniteSet(U) /\ Cardinality(U) = f[b] /\ IsFiniteSet(V) /\ Cardinality(V) = k
  BY <1>0, <1>2, <1>3, UnitsOfOne
<1>8. /\ IsFiniteSet(R \cup V)
      /\ Cardinality(R \cup V) = Cardinality(R \cup U) - Cardinality(U) + Cardinality(V)
  BY <1>5, <1>6, <1>7, PartExchanged
<1> HIDE DEF g
<1> QED BY <1>4, <1>7, <1>8 DEF g

LEMMA BlobsMove ==
    ASSUME NEW f \in [MediaBlob -> 0..MaxBlobBytes], NEW b \in MediaBlob,
           NEW k \in 0..MaxBlobBytes, IsFiniteSet(Blobs(f))
    PROVE  LET g == [f EXCEPT ![b] = k]
           IN  /\ IsFiniteSet(Blobs(g))
               /\ Cardinality(Blobs(g)) = Cardinality(Blobs(f)) - Unit(f[b]) + Unit(k)
<1> DEFINE g == [f EXCEPT ![b] = k]
           rest == Blobs(f) \ {b}
<1>1. /\ IsFiniteSet(rest) /\ Cardinality(rest) \in Nat /\ Cardinality(Blobs(f)) \in Nat
      /\ Cardinality(rest) = IF b \in Blobs(f) THEN Cardinality(Blobs(f)) - 1
                                               ELSE Cardinality(Blobs(f))
  BY FS_RemoveElement, FS_CardinalityType
<1>2. b \in Blobs(f) <=> f[b] # 0
  BY DEF Blobs
<1>3. Blobs(g) = IF k = 0 THEN rest ELSE rest \cup {b}
  BY DEF Blobs
<1>4. /\ IsFiniteSet(rest \cup {b})
      /\ Cardinality(rest \cup {b}) = Cardinality(rest) + 1
  BY <1>1, FS_AddElement
<1> HIDE DEF rest
<1> QED BY <1>1, <1>2, <1>3, <1>4 DEF Unit

Bill == [b \in MediaBlob |-> Billed(b)]

\* The totals are those of the bill, and no blob is billed beyond the largest.
LEMMA BillIs ==
    ASSUME MediaTypes, Alone, RowsStand
    PROVE  /\ Bill \in [MediaBlob -> 0..MaxBlobBytes]
           /\ BilledBytes = Bytes(Bill) /\ BilledBlobs = Blobs(Bill)
<1>0. MaxBlobBytes \in Nat
  BY MediaAssumption
<1>1. ASSUME NEW b \in MediaBlob PROVE Billed(b) \in 0..MaxBlobBytes
  <2>1. treeBlobs[b].size \in 0..MaxBlobBytes
    BY DEF MediaTypes, BlobRow
  <2>2. ASSUME NEW t \in Task, WorksOn(t, b) PROVE Charge(task[t], treeBlobs[b]) \in 0..MaxBlobBytes
    <3>1. task[t] \in Handler
      BY DEF MediaTypes
    <3>2. CASE task[t].at = "insert"
      BY <1>0, <3>1, <3>2 DEF Handler, Charge, Size
    <3>3. CASE task[t].at \in {"copy", "promote"}
      BY <1>0, <3>1, <3>3 DEF Handler, Charge, Size
    <3> QED BY <1>0, <2>1, <3>2, <3>3 DEF Charge
  <2> QED BY <2>1, <2>2, BilledIs
<1> QED BY <1>1 DEF Bill, BilledBytes, BilledBlobs, Bytes, Blobs

BillAdds ==
    MediaTypes /\ Alone /\ RowsStand => BilledBytes = Bytes(Bill) /\ BilledBlobs = Blobs(Bill)

LEMMA BillNext == BillAdds'
<1>1. BillAdds
  BY BillIs DEF BillAdds
<1> QED BY <1>1, PTL

\* One step of one handler, on one blob: it may rewrite the row and what is staged.
Works(t, b, next, row, staged) ==
    /\ task[t].at # "idle" => task[t].blob = b
    /\ task[t].at = "idle" => \A u \in Task : ~WorksOn(u, b)
    /\ next.at # "idle" => next.blob = b
    /\ task' = [task EXCEPT ![t] = next]
    /\ treeBlobs' = [treeBlobs EXCEPT ![b] = row]
    /\ staging' = [staging EXCEPT ![b] = staged]

\* What follows for every other blob.
LEMMA WorkIsLocal ==
    ASSUME MediaInv, NEW t \in Task, NEW b \in MediaBlob, NEW next \in Handler,
           NEW row \in BlobRow, NEW staged \in 0..MaxBlobBytes, Works(t, b, next, row, staged),
           minted' \subseteq MediaBlob, aged' \subseteq MediaBlob
    PROVE  /\ MediaTypes' /\ Alone'
           /\ \A u \in Task, c \in MediaBlob : WorksOn(u, c)' =>
                 IF u = t THEN c = b /\ next.at # "idle"
                 ELSE c # b /\ WorksOn(u, c) /\ task'[u] = task[u]
           /\ \A c \in MediaBlob \ {b} : Billed(c)' = Billed(c)
           /\ Billed(b) = Charge(task[t], treeBlobs[b]) /\ Billed(b)' = Charge(next, row)
<1>1. MediaTypes /\ Alone
  BY DEF MediaInv
<1>2. MediaTypes'
  BY <1>1 DEF MediaTypes, Works
<1>3. /\ \A u \in Task : task'[u] = IF u = t THEN next ELSE task[u]
      /\ \A c \in MediaBlob : treeBlobs'[c] = IF c = b THEN row ELSE treeBlobs[c]
  BY <1>1 DEF MediaTypes, Works
<1>4. \A u \in Task \ {t} : ~WorksOn(u, b)
  BY <1>1 DEF Alone, WorksOn, Works
<1>5. \A u \in Task, c \in MediaBlob : WorksOn(u, c)' =>
         IF u = t THEN c = b /\ next.at # "idle"
         ELSE c # b /\ WorksOn(u, c) /\ task'[u] = task[u]
  BY <1>3, <1>4 DEF WorksOn, Works
<1>6. \A u \in Task \ {t}, c \in MediaBlob : WorksOn(u, c)' <=> WorksOn(u, c)
  BY <1>3 DEF WorksOn
<1>7. Alone'
  BY <1>1, <1>5 DEF Alone
<1>8. ASSUME NEW c \in MediaBlob \ {b} PROVE Billed(c)' = Billed(c)
  <2>1. ~WorksOn(t, c) /\ ~WorksOn(t, c)'
    BY <1>3 DEF WorksOn, Works
  <2>2. CASE \E u \in Task : WorksOn(u, c)
    <3>1. PICK u \in Task : WorksOn(u, c)
      BY <2>2
    <3>2. u # t /\ WorksOn(u, c)' /\ task'[u] = task[u] /\ treeBlobs'[c] = treeBlobs[c]
      BY <2>1, <3>1, <1>3, <1>6
    <3>3. Billed(c) = Charge(task[u], treeBlobs[c])
      BY <1>1, <3>1, BilledIs
    <3>4. Billed(c)' = Charge(task'[u], treeBlobs'[c])
      BY <1>2, <1>7, <3>2, BilledNext DEF BilledByWork, Charge
    <3> QED BY <3>2, <3>3, <3>4
  <2>3. CASE \A u \in Task : ~WorksOn(u, c)
    <3>1. \A u \in Task : ~WorksOn(u, c)'
      BY <2>1, <2>3, <1>6
    <3>2. Billed(c) = treeBlobs[c].size
      BY <1>1, <2>3, BilledIs
    <3>3. MediaTypes' /\ Alone' =>
            ((\A u \in Task : ~WorksOn(u, c)') => Billed(c)' = treeBlobs'[c].size)
      BY BilledNext DEF BilledByWork
    <3> QED BY <3>1, <3>2, <3>3, <1>2, <1>3, <1>7
  <2> QED BY <2>2, <2>3
<1>9. Billed(b) = Charge(task[t], treeBlobs[b])
  <2>1. CASE task[t].at = "idle"
    BY <2>1, <1>1, BilledIs DEF Works, Charge
  <2>2. CASE task[t].at # "idle"
    BY <2>2, <1>1, BilledIs DEF Works, WorksOn
  <2> QED BY <2>1, <2>2
<1>10. Billed(b)' = Charge(next, row)
  <2>1. task'[t] = next /\ treeBlobs'[b] = row
    BY <1>3
  <2>2. CASE next.at = "idle"
    <3>1. \A u \in Task : ~WorksOn(u, b)'
      BY <2>2, <1>5
    <3>2. MediaTypes' /\ Alone' =>
            ((\A u \in Task : ~WorksOn(u, b)') => Billed(b)' = treeBlobs'[b].size)
      BY BilledNext DEF BilledByWork
    <3> QED BY <2>1, <2>2, <3>1, <3>2, <1>2, <1>7 DEF Charge
  <2>3. CASE next.at # "idle"
    <3>1. WorksOn(t, b)'
      BY <2>1, <2>3 DEF WorksOn, Works
    <3>2. MediaTypes' /\ Alone' => (WorksOn(t, b)' => Billed(b)' = Charge(task'[t], treeBlobs'[b]))
      BY BilledNext DEF BilledByWork, Charge
    <3> QED BY <2>1, <3>1, <3>2, <1>2, <1>7
  <2> QED BY <2>2, <2>3
<1> QED BY <1>2, <1>5, <1>7, <1>8, <1>9, <1>10

LEMMA WorkKeepsMeter ==
    ASSUME MediaInv, NEW t \in Task, NEW b \in MediaBlob, NEW next \in Handler,
           NEW row \in BlobRow, NEW staged \in 0..MaxBlobBytes, Works(t, b, next, row, staged),
           row.state = "none" <=> row.size = 0,
           row.size # 0 => b \in minted',
           next.at # "idle" => b \in minted' /\ Fits(next, row, staged),
           minted \subseteq minted', minted' \subseteq MediaBlob,
           aged' \subseteq aged, b \in aged' => row.size # 0,
           mediaUsed' = mediaUsed - Charge(task[t], treeBlobs[b]) + Charge(next, row),
           blobCount' = blobCount - Unit(Charge(task[t], treeBlobs[b])) + Unit(Charge(next, row)),
           mediaUsed' <= MaxStorageBytes, blobCount' <= MaxBlobCount
    PROVE  MediaInv'
<1>1. /\ MediaTypes' /\ Alone'
      /\ \A u \in Task, c \in MediaBlob : WorksOn(u, c)' =>
            IF u = t THEN c = b /\ next.at # "idle"
            ELSE c # b /\ WorksOn(u, c) /\ task'[u] = task[u]
      /\ \A c \in MediaBlob \ {b} : Billed(c)' = Billed(c)
      /\ Billed(b) = Charge(task[t], treeBlobs[b]) /\ Billed(b)' = Charge(next, row)
  <2>1. aged' \subseteq MediaBlob
    BY DEF MediaInv, MediaTypes
  <2> QED BY <2>1, WorkIsLocal
<1>2. /\ \A c \in MediaBlob : treeBlobs'[c] = IF c = b THEN row ELSE treeBlobs[c]
      /\ \A c \in MediaBlob : staging'[c] = IF c = b THEN staged ELSE staging[c]
      /\ task'[t] = next
  BY DEF MediaInv, MediaTypes, Works
<1>3. RowsStand'
  <2>1. /\ \A c \in MediaBlob : treeBlobs'[c].state = "none" <=> treeBlobs'[c].size = 0
        /\ \A c \in MediaBlob \ minted' : treeBlobs'[c].size = 0
        /\ \A c \in aged' : treeBlobs'[c].size # 0
    BY <1>2 DEF MediaInv, MediaTypes, RowsStand
  <2>2. ASSUME NEW u \in Task, NEW c \in MediaBlob, WorksOn(u, c)'
        PROVE  c \in minted' /\ Fits(task'[u], treeBlobs'[c], staging'[c])
    <3>1. CASE u = t
      BY <3>1, <2>2, <1>1, <1>2
    <3>2. CASE u # t
      <4>1. c # b /\ WorksOn(u, c) /\ task'[u] = task[u]
        BY <3>2, <2>2, <1>1
      <4>2. c \in minted /\ Fits(task[u], treeBlobs[c], staging[c])
        BY <4>1 DEF MediaInv, RowsStand
      <4> QED BY <4>1, <4>2, <1>2
    <3> QED BY <3>1, <3>2
  <2> QED BY <2>1, <2>2 DEF RowsStand, Fits
<1>4. /\ Bill \in [MediaBlob -> 0..MaxBlobBytes]
      /\ BilledBytes = Bytes(Bill) /\ BilledBlobs = Blobs(Bill)
  BY BillIs DEF MediaInv
<1>5. BilledBytes' = Bytes(Bill') /\ BilledBlobs' = Blobs(Bill')
  BY <1>1, <1>3, BillNext DEF BillAdds, Bytes, Blobs
<1> DEFINE k == Charge(next, row)
<1>6. Bill' = [Bill EXCEPT ![b] = k] /\ Bill[b] = Charge(task[t], treeBlobs[b])
  BY <1>1 DEF Bill
<1>7. k \in 0..MaxBlobBytes
  <2>1. MaxBlobBytes \in Nat /\ row.size \in 0..MaxBlobBytes
    BY MediaAssumption DEF BlobRow
  <2>2. CASE next.at = "insert"
    BY <2>1, <2>2 DEF Charge, Handler, Size
  <2>3. CASE next.at \in {"copy", "promote"}
    BY <2>1, <2>3 DEF Charge, Handler, Size
  <2> QED BY <2>1, <2>2, <2>3 DEF Charge
<1> HIDE DEF k
<1>8. /\ IsFiniteSet(Bytes([Bill EXCEPT ![b] = k]))
      /\ Cardinality(Bytes([Bill EXCEPT ![b] = k])) = Cardinality(Bytes(Bill)) - Bill[b] + k
      /\ IsFiniteSet(Blobs([Bill EXCEPT ![b] = k]))
      /\ Cardinality(Blobs([Bill EXCEPT ![b] = k])) = Cardinality(Blobs(Bill)) - Unit(Bill[b]) + Unit(k)
  <2>1. IsFiniteSet(Bytes(Bill)) /\ IsFiniteSet(Blobs(Bill))
    BY <1>4 DEF MediaInv
  <2> QED BY <2>1, <1>4, <1>7, BytesMove, BlobsMove
<1>9. mediaUsed = Cardinality(Bytes(Bill)) /\ blobCount = Cardinality(Blobs(Bill))
  BY <1>4 DEF MediaInv, MediaMeterIsExact
<1>10. /\ IsFiniteSet(BilledBytes') /\ IsFiniteSet(BilledBlobs')
       /\ mediaUsed' = Cardinality(BilledBytes') /\ blobCount' = Cardinality(BilledBlobs')
  BY <1>5, <1>6, <1>8, <1>9 DEF k
<1> QED BY <1>1, <1>3, <1>10 DEF MediaInv, MediaMeterIsExact

\* The meter in numbers, and the row that a working handler goes by.
LEMMA MeterIs ==
    ASSUME MediaInv
    PROVE  /\ mediaUsed \in Nat /\ mediaUsed <= MaxStorageBytes /\ MaxStorageBytes \in Nat
           /\ blobCount \in Nat /\ blobCount <= MaxBlobCount /\ MaxBlobCount \in Nat
           /\ MaxBlobBytes \in Nat /\ MaxRefs \in Nat
BY MediaAssumption, FS_CardinalityType DEF MediaInv, MediaMeterIsExact

Confirming == [at : {"reject", "reconcile", "copy", "promote", "unstage", "forget"},
               blob : MediaBlob, size : Size, actual : Size]
Sweeping == [at : {"credit", "reclaim", "forget"}, blob : MediaBlob, size : Size, tomb : BOOLEAN]

LEMMA WorkerIs ==
    ASSUME MediaInv, NEW t \in Task, task[t].at # "idle"
    PROVE  /\ task[t] \in Handler /\ task[t].blob \in MediaBlob /\ task[t].blob \in minted
           /\ Fits(task[t], treeBlobs[task[t].blob], staging[task[t].blob])
           /\ treeBlobs[task[t].blob] \in BlobRow /\ staging[task[t].blob] \in 0..MaxBlobBytes
           /\ treeBlobs[task[t].blob].state = "none" <=> treeBlobs[task[t].blob].size = 0
           /\ task[t].at \in {"reject", "reconcile", "copy", "promote", "unstage"} =>
                 task[t] \in Confirming
           /\ task[t].at \in {"credit", "reclaim"} => task[t] \in Sweeping
           /\ task[t].at = "insert" => task[t].size \in Size
           /\ task[t].at = "forget" => task[t] \in Confirming \/ task[t] \in Sweeping
<1>1. task[t] \in Handler /\ treeBlobs \in [MediaBlob -> BlobRow]
      /\ staging \in [MediaBlob -> 0..MaxBlobBytes]
  BY DEF MediaInv, MediaTypes
<1>2. /\ task[t].at \in {"reject", "reconcile", "copy", "promote", "unstage"} =>
            task[t] \in Confirming
      /\ task[t].at \in {"credit", "reclaim"} => task[t] \in Sweeping
      /\ task[t].at = "forget" => task[t] \in Confirming \/ task[t] \in Sweeping
  BY <1>1 DEF Handler, Confirming, Sweeping
<1>3. task[t].at = "insert" => task[t].size \in Size
  BY <1>1 DEF Handler
<1>4. task[t].blob \in MediaBlob
  BY <1>1 DEF Handler
<1>5. WorksOn(t, task[t].blob)
  BY DEF WorksOn
<1> QED BY <1>1, <1>2, <1>3, <1>4, <1>5 DEF MediaInv, RowsStand

\* A step that bills its blob as before.
LEMMA WorkBillsAlike ==
    ASSUME MediaInv, NEW t \in Task, NEW b \in MediaBlob, NEW next \in Handler,
           NEW row \in BlobRow, NEW staged \in 0..MaxBlobBytes, Works(t, b, next, row, staged),
           row.state = "none" <=> row.size = 0,
           row.size # 0 => b \in minted,
           next.at # "idle" => b \in minted /\ Fits(next, row, staged),
           aged' \subseteq aged, b \in aged' => row.size # 0,
           Charge(task[t], treeBlobs[b]) = Charge(next, row),
           minted' = minted, mediaUsed' = mediaUsed, blobCount' = blobCount
    PROVE  MediaInv'
<1>1. Charge(next, row) \in Int
  <2>1. MaxBlobBytes \in Nat /\ row.size \in Int
    BY MediaAssumption DEF BlobRow
  <2>2. next.at = "insert" => next.size \in Int
    BY <2>1 DEF Handler, Size
  <2>3. next.at \in {"copy", "promote"} => next.actual \in Int
    BY <2>1 DEF Handler, Size
  <2> QED BY <2>1, <2>2, <2>3 DEF Charge
<1>2. /\ mediaUsed' = mediaUsed - Charge(task[t], treeBlobs[b]) + Charge(next, row)
      /\ blobCount' = blobCount - Unit(Charge(task[t], treeBlobs[b])) + Unit(Charge(next, row))
      /\ mediaUsed' <= MaxStorageBytes /\ blobCount' <= MaxBlobCount
  BY <1>1, MeterIs DEF Unit
<1>3. minted \subseteq minted' /\ minted' \subseteq MediaBlob
  BY DEF MediaInv, MediaTypes
<1> QED BY <1>2, <1>3, WorkKeepsMeter

\* A handler that begins on a blob begins alone on it.
LEMMA BeginsAlone ==
    ASSUME MediaInv, Exclusive, NEW t \in Task, NEW b \in MediaBlob, MayBegin(t, b),
           NEW next \in Handler, Goes(t, next), next.at # "idle", next.blob = b,
           Fits(next, treeBlobs[b], staging[b]),
           Charge(next, treeBlobs[b]) = treeBlobs[b].size, treeBlobs[b].size # 0,
           UNCHANGED <<mediaUsed, blobCount, treeBlobs, staging, final, aged, minted>>
    PROVE  MediaInv'
<1>1. /\ treeBlobs \in [MediaBlob -> BlobRow] /\ staging \in [MediaBlob -> 0..MaxBlobBytes]
      /\ treeBlobs[b].state = "none" <=> treeBlobs[b].size = 0
      /\ b \in minted
  BY DEF MediaInv, MediaTypes, RowsStand
<1>2. Works(t, b, next, treeBlobs[b], staging[b])
  BY <1>1 DEF Works, MayBegin, Goes
<1>3. Charge(task[t], treeBlobs[b]) = treeBlobs[b].size
  BY DEF MayBegin, Charge
<1>4. treeBlobs[b] \in BlobRow /\ staging[b] \in 0..MaxBlobBytes
  BY <1>1
<1> QED BY <1>1, <1>2, <1>3, <1>4, WorkBillsAlike

LEMMA ReserveKeeps ==
    ASSUME MediaInv, NEW t \in Task, NEW b \in MediaBlob, NEW n \in Size, Reserve(t, b, n)
    PROVE  MediaInv'
<1> DEFINE next == [at |-> "insert", blob |-> b, size |-> n]
<1>1. /\ treeBlobs \in [MediaBlob -> BlobRow] /\ staging \in [MediaBlob -> 0..MaxBlobBytes]
      /\ treeBlobs[b].state = "none" /\ treeBlobs[b].size = 0 /\ b \notin aged
      /\ minted \subseteq MediaBlob
      /\ \A u \in Task : ~WorksOn(u, b)
  BY DEF MediaInv, MediaTypes, RowsStand, Reserve
<1>2. next \in Handler /\ treeBlobs[b] \in BlobRow /\ staging[b] \in 0..MaxBlobBytes
  BY <1>1 DEF Handler
<1>3. Works(t, b, next, treeBlobs[b], staging[b])
  BY <1>1 DEF Works, Reserve, Goes
<1>4. Charge(task[t], treeBlobs[b]) = 0 /\ Charge(next, treeBlobs[b]) = n
  BY <1>1 DEF Reserve, Charge
<1>5. n \in Nat /\ n # 0
  BY MeterIs DEF Size
<1>6. /\ mediaUsed' = mediaUsed - 0 + n /\ blobCount' = blobCount - Unit(0) + Unit(n)
      /\ mediaUsed' <= MaxStorageBytes /\ blobCount' <= MaxBlobCount
  BY <1>5, MeterIs DEF Reserve, HasRoom, Unit
<1>7. minted' = minted \cup {b} /\ aged' = aged
  BY DEF Reserve
<1>8. Fits(next, treeBlobs[b], staging[b])
  BY <1>1 DEF Fits
<1> HIDE DEF next
<1>9. minted \subseteq minted' /\ minted' \subseteq MediaBlob /\ b \in minted'
  BY <1>1, <1>7
<1> QED BY <1>1, <1>2, <1>3, <1>4, <1>6, <1>7, <1>8, <1>9, WorkKeepsMeter

LEMMA InsertKeeps ==
    ASSUME MediaInv, NEW t \in Task, InsertPending(t) \/ InsertFails(t)
    PROVE  MediaInv'
<1> DEFINE b == task[t].blob
           n == task[t].size
<1>0. task[t].at = "insert" /\ b \in MediaBlob /\ b \in minted /\ n \in Size /\ n \in Nat /\ n # 0
  BY WorkerIs, MeterIs DEF InsertPending, InsertFails, Size
<1>1. /\ treeBlobs \in [MediaBlob -> BlobRow] /\ staging \in [MediaBlob -> 0..MaxBlobBytes]
      /\ Ready \in Handler /\ task' = [task EXCEPT ![t] = Ready]
      /\ minted' = minted /\ aged' = aged /\ minted \subseteq MediaBlob
  BY DEF MediaInv, MediaTypes, InsertPending, InsertFails, Ends, Goes, Ready, Handler
<1>2. Charge(task[t], treeBlobs[b]) = n
  BY <1>0 DEF Charge
<1>3. CASE InsertPending(t)
  <2> DEFINE row == [state |-> "pending", size |-> n, refs |-> 0]
  <2>1. row \in BlobRow /\ row.size = n /\ row.state = "pending"
    BY <1>0, MeterIs DEF BlobRow, Size
  <2>2. Works(t, b, Ready, row, staging[b])
    BY <1>0, <1>1, <1>3 DEF Works, InsertPending, Ready
  <2>3. Charge(Ready, row) = n
    BY DEF Charge, Ready
  <2>4. mediaUsed' = mediaUsed /\ blobCount' = blobCount /\ Ready.at = "idle"
    BY <1>3 DEF InsertPending, Ready
  <2> HIDE DEF row
  <2> QED BY <1>0, <1>1, <1>2, <2>1, <2>2, <2>3, <2>4, WorkBillsAlike
<1>4. CASE InsertFails(t)
  <2> DEFINE row == treeBlobs[b]
  <2>1. row \in BlobRow /\ row.size = 0 /\ (row.state = "none" <=> row.size = 0)
    BY <1>0, WorkerIs DEF Fits
  <2>2. Works(t, b, Ready, row, staging[b])
    BY <1>0, <1>1, <1>4 DEF Works, InsertFails, Ready
  <2>3. Charge(Ready, row) = 0 /\ b \notin aged
    BY <1>0, <2>1 DEF Charge, Ready, MediaInv, RowsStand
  <2>4. /\ mediaUsed' = mediaUsed - n + 0 /\ blobCount' = blobCount - Unit(n) + Unit(0)
        /\ mediaUsed' <= MaxStorageBytes /\ blobCount' <= MaxBlobCount /\ Ready.at = "idle"
    BY <1>0, <1>4, MeterIs DEF InsertFails, Release, Unit, Ready
  <2> HIDE DEF row
  <2> QED BY <1>0, <1>1, <1>2, <2>1, <2>2, <2>3, <2>4, WorkKeepsMeter
<1> QED BY <1>3, <1>4

\* A handler that only goes on, or ends, with nothing else written.
LEMMA OnlyGoesOn ==
    ASSUME MediaInv, NEW t \in Task, task[t].at # "idle", NEW next \in Handler, Goes(t, next),
           next.at # "idle" => next.blob = task[t].blob,
           next.at # "idle" => Fits(next, treeBlobs[task[t].blob], staging[task[t].blob]),
           Charge(next, treeBlobs[task[t].blob]) = Charge(task[t], treeBlobs[task[t].blob]),
           UNCHANGED <<mediaUsed, blobCount, treeBlobs, staging, aged, minted>>
    PROVE  MediaInv'
<1> DEFINE b == task[t].blob
<1>1. /\ treeBlobs \in [MediaBlob -> BlobRow] /\ staging \in [MediaBlob -> 0..MaxBlobBytes]
      /\ b \in aged => treeBlobs[b].size # 0
  BY DEF MediaInv, MediaTypes, RowsStand
<1>2. /\ b \in MediaBlob /\ b \in minted /\ treeBlobs[b] \in BlobRow
      /\ staging[b] \in 0..MaxBlobBytes
      /\ treeBlobs[b].state = "none" <=> treeBlobs[b].size = 0
  BY WorkerIs
<1>3. Works(t, b, next, treeBlobs[b], staging[b])
  BY <1>1, <1>2 DEF Works, Goes
<1> QED BY <1>1, <1>2, <1>3, WorkBillsAlike

\* A handler that writes on, or clears, what is staged.
LEMMA StagingWritten ==
    ASSUME MediaInv, NEW t \in Task, task[t].at # "idle", NEW next \in Handler, Goes(t, next),
           next.at # "idle" => next.blob = task[t].blob,
           next.at # "idle" => Fits(next, treeBlobs[task[t].blob], 0),
           Charge(next, treeBlobs[task[t].blob]) = Charge(task[t], treeBlobs[task[t].blob]),
           staging' = [staging EXCEPT ![task[t].blob] = 0],
           UNCHANGED <<mediaUsed, blobCount, treeBlobs, aged, minted>>
    PROVE  MediaInv'
<1> DEFINE b == task[t].blob
<1>1. /\ treeBlobs \in [MediaBlob -> BlobRow] /\ 0 \in 0..MaxBlobBytes
      /\ b \in aged => treeBlobs[b].size # 0
  BY MeterIs DEF MediaInv, MediaTypes, RowsStand
<1>2. /\ b \in MediaBlob /\ b \in minted /\ treeBlobs[b] \in BlobRow
      /\ treeBlobs[b].state = "none" <=> treeBlobs[b].size = 0
  BY WorkerIs
<1>3. Works(t, b, next, treeBlobs[b], 0)
  BY <1>1, <1>2 DEF Works, Goes
<1> QED BY <1>1, <1>2, <1>3, WorkBillsAlike

\* A handler that gives back what its blob is billed for, wholly or in part.
LEMMA MeterReleased ==
    ASSUME MediaInv, NEW t \in Task, task[t].at # "idle", NEW next \in Handler, Goes(t, next),
           next.at # "idle" => next.blob = task[t].blob,
           next.at # "idle" => Fits(next, treeBlobs[task[t].blob], staging[task[t].blob]),
           NEW old \in Nat, old = Charge(task[t], treeBlobs[task[t].blob]),
           NEW new \in Nat, new = Charge(next, treeBlobs[task[t].blob]), new <= old,
           mediaUsed' = mediaUsed - old + new, blobCount' = blobCount - Unit(old) + Unit(new),
           UNCHANGED <<treeBlobs, staging, aged, minted>>
    PROVE  MediaInv'
<1> DEFINE b == task[t].blob
<1>1. /\ treeBlobs \in [MediaBlob -> BlobRow] /\ staging \in [MediaBlob -> 0..MaxBlobBytes]
      /\ b \in aged => treeBlobs[b].size # 0
      /\ minted \subseteq minted' /\ minted' \subseteq MediaBlob /\ aged' \subseteq aged
  BY DEF MediaInv, MediaTypes, RowsStand
<1>2. /\ b \in MediaBlob /\ b \in minted' /\ treeBlobs[b] \in BlobRow
      /\ staging[b] \in 0..MaxBlobBytes
      /\ treeBlobs[b].state = "none" <=> treeBlobs[b].size = 0
  BY WorkerIs
<1>3. Works(t, b, next, treeBlobs[b], staging[b])
  BY <1>1, <1>2 DEF Works, Goes
<1>4. mediaUsed' <= MaxStorageBytes /\ blobCount' <= MaxBlobCount
  BY MeterIs DEF Unit
<1> QED BY <1>1, <1>2, <1>3, <1>4, WorkKeepsMeter

\* confirm.
LEMMA ConfirmKeeps ==
    ASSUME MediaInv, Exclusive, NEW t \in Task,
           \/ \E b \in MediaBlob : ConfirmHead(t, b)
           \/ RejectRelease(t) \/ Reconcile(t) \/ Copy(t) \/ Promote(t) \/ Unstage(t)
    PROVE  MediaInv'
<1> DEFINE k == task[t].blob
           h == task[t]
           r == treeBlobs[k]
<1>0. /\ treeBlobs \in [MediaBlob -> BlobRow] /\ staging \in [MediaBlob -> 0..MaxBlobBytes]
      /\ Ready \in Handler /\ Ready.at = "idle" /\ MaxBlobBytes \in Nat
  BY MeterIs DEF MediaInv, MediaTypes, Ready, Handler
<1>1. ASSUME NEW b \in MediaBlob, ConfirmHead(t, b) PROVE MediaInv'
  <2> DEFINE next == [at |-> IF staging[b] > treeBlobs[b].size THEN "reject" ELSE "reconcile",
                      blob |-> b, size |-> treeBlobs[b].size, actual |-> staging[b]]
  <2>1. /\ treeBlobs[b].size \in Size /\ staging[b] \in Size
        /\ treeBlobs[b].size # 0 /\ staging[b] # 0
    BY <1>0, <1>1 DEF ConfirmHead, BlobRow, Size, MediaInv, RowsStand
  <2>2. /\ next \in Handler /\ next.at \in {"reject", "reconcile"} /\ next.blob = b
        /\ next.size = treeBlobs[b].size
        /\ next.at = "reconcile" => next.actual <= next.size
    BY <1>0, <2>1 DEF Handler, Size
  <2>3. /\ MayBegin(t, b) /\ Goes(t, next)
        /\ UNCHANGED <<mediaUsed, blobCount, treeBlobs, staging, final, aged, minted>>
    BY <1>1 DEF ConfirmHead
  <2> HIDE DEF next
  <2>4. /\ Fits(next, treeBlobs[b], staging[b])
        /\ Charge(next, treeBlobs[b]) = treeBlobs[b].size
    BY <2>1, <2>2 DEF Fits, Charge
  <2> QED BY <2>1, <2>2, <2>3, <2>4, BeginsAlone
<1>2. CASE RejectRelease(t)
  <2> DEFINE next == [h EXCEPT !.at = "forget"]
  <2>1. h.at = "reject" /\ h \in Confirming /\ Goes(t, next) /\ Fits(h, r, staging[k]) /\ k \in MediaBlob
    BY <1>2, WorkerIs DEF RejectRelease
  <2>2. next \in Handler /\ next.at = "forget" /\ next.blob = k
    BY <2>1 DEF Confirming, Handler
  <2>3. h.size \in Nat /\ h.size # 0 /\ Charge(h, r) = h.size /\ Charge(next, r) = 0
    BY <1>0, <2>1, <2>2 DEF Confirming, Size, Fits, Charge
  <2>4. /\ mediaUsed' = mediaUsed - h.size + 0 /\ blobCount' = blobCount - Unit(h.size) + Unit(0)
        /\ UNCHANGED <<treeBlobs, staging, aged, minted>>
    BY <1>2, <2>3, MeterIs DEF RejectRelease, Release, Unit
  <2>5. Fits(next, r, staging[k])
    BY <2>2 DEF Fits
  <2> HIDE DEF next
  <2> QED BY <2>1, <2>2, <2>3, <2>4, <2>5, MeterReleased
<1>3. CASE Reconcile(t)
  <2> DEFINE next == [h EXCEPT !.at = "copy"]
  <2>1. h.at = "reconcile" /\ h \in Confirming /\ Goes(t, next) /\ Fits(h, r, staging[k]) /\ k \in MediaBlob
    BY <1>3, WorkerIs DEF Reconcile
  <2>2. /\ next \in Handler /\ next.at = "copy" /\ next.blob = k
        /\ next.size = h.size /\ next.actual = h.actual
    BY <2>1 DEF Confirming, Handler
  <2>3. /\ h.size \in Nat /\ h.size # 0 /\ h.actual \in Nat /\ h.actual # 0 /\ h.actual <= h.size
        /\ Charge(h, r) = h.size /\ Charge(next, r) = h.actual
    BY <1>0, <2>1, <2>2 DEF Confirming, Size, Fits, Charge
  <2>4. /\ mediaUsed' = mediaUsed - h.size + h.actual
        /\ blobCount' = blobCount - Unit(h.size) + Unit(h.actual)
        /\ UNCHANGED <<treeBlobs, staging, aged, minted>>
    BY <1>3, <2>3, MeterIs DEF Reconcile, Unit
  <2>5. Fits(next, r, staging[k])
    BY <2>1, <2>2 DEF Fits
  <2> HIDE DEF next
  <2> QED BY <2>1, <2>2, <2>3, <2>4, <2>5, MeterReleased
<1>4. CASE Copy(t)
  <2> DEFINE next == [h EXCEPT !.at = "promote"]
  <2>1. h.at = "copy" /\ h \in Confirming /\ Fits(h, r, staging[k]) /\ k \in MediaBlob
    BY <1>4, WorkerIs DEF Copy
  <2>2. staging[k] # 0 /\ Goes(t, next)
    BY <1>4, <2>1 DEF Copy, Fits
  <2>3. /\ next \in Handler /\ next.at = "promote" /\ next.blob = k
        /\ next.size = h.size /\ next.actual = h.actual
    BY <2>1 DEF Confirming, Handler
  <2>4. Fits(next, r, staging[k]) /\ Charge(next, r) = Charge(h, r)
    BY <2>1, <2>3 DEF Fits, Charge
  <2>5. UNCHANGED <<mediaUsed, blobCount, treeBlobs, staging, aged, minted>>
    BY <1>4 DEF Copy
  <2> HIDE DEF next
  <2> QED BY <2>1, <2>2, <2>3, <2>4, <2>5, OnlyGoesOn
<1>5. CASE Promote(t)
  <2> DEFINE next == [h EXCEPT !.at = "unstage"]
             row == [r EXCEPT !.state = "live", !.size = h.actual]
  <2>1. /\ h.at = "promote" /\ h \in Confirming /\ Fits(h, r, staging[k])
        /\ k \in MediaBlob /\ k \in minted /\ r \in BlobRow /\ staging[k] \in 0..MaxBlobBytes
        /\ Goes(t, next) /\ aged' = aged \ {k}
        /\ minted' = minted /\ mediaUsed' = mediaUsed /\ blobCount' = blobCount
    BY <1>5, WorkerIs DEF Promote
  <2>2. next \in Handler /\ next.at = "unstage" /\ next.blob = k
    BY <2>1 DEF Confirming, Handler
  <2>3. h.actual \in 0..MaxBlobBytes /\ h.actual # 0 /\ r.size # 0 /\ r.state # "none"
    BY <1>0, <2>1, WorkerIs DEF Confirming, Size, Fits
  <2>4. /\ row \in BlobRow /\ row.state = "live" /\ row.size = h.actual
        /\ treeBlobs' = [treeBlobs EXCEPT ![k] = row]
    BY <1>0, <1>5, <2>1, <2>3 DEF Promote, BlobRow
  <2>5. Works(t, k, next, row, staging[k])
    BY <1>0, <1>5, <2>1, <2>2, <2>4 DEF Works, Goes, Promote
  <2>6. Fits(next, row, staging[k]) /\ Charge(h, r) = h.actual /\ Charge(next, row) = h.actual
    BY <2>1, <2>2, <2>4 DEF Fits, Charge
  <2> HIDE DEF next, row
  <2> QED BY <2>1, <2>2, <2>3, <2>4, <2>5, <2>6, WorkBillsAlike
<1>6. CASE Unstage(t)
  <2>1. /\ h.at = "unstage" /\ Goes(t, Ready) /\ staging' = [staging EXCEPT ![k] = 0]
        /\ UNCHANGED <<mediaUsed, blobCount, treeBlobs, aged, minted>>
    BY <1>6 DEF Unstage, Ends
  <2>2. Charge(Ready, r) = Charge(h, r)
    BY <2>1 DEF Charge, Ready
  <2> QED BY <1>0, <2>1, <2>2, StagingWritten
<1> QED BY <1>1, <1>2, <1>3, <1>4, <1>5, <1>6

\* attach and detach.
LEMMA RefsKeep ==
    ASSUME MediaInv, Exclusive, NEW t \in Task,
           \/ \E b \in MediaBlob, op \in {"attach", "detach"} : RefRead(t, b, op)
           \/ Attach(t) \/ Detach(t)
    PROVE  MediaInv'
<1> DEFINE k == task[t].blob
           r == treeBlobs[k]
<1>0. /\ treeBlobs \in [MediaBlob -> BlobRow] /\ staging \in [MediaBlob -> 0..MaxBlobBytes]
      /\ Ready \in Handler /\ Ready.at = "idle" /\ MaxBlobBytes \in Nat
  BY MeterIs DEF MediaInv, MediaTypes, Ready, Handler
<1>1. ASSUME NEW b \in MediaBlob, NEW op \in {"attach", "detach"}, RefRead(t, b, op)
      PROVE  MediaInv'
  <2> DEFINE next == [at |-> op, blob |-> b]
  <2>1. /\ next \in Handler /\ next.at \in {"attach", "detach"} /\ next.blob = b
        /\ MayBegin(t, b) /\ Goes(t, next)
        /\ UNCHANGED <<mediaUsed, blobCount, treeBlobs, staging, final, aged, minted>>
        /\ treeBlobs[b].state # "none"
    BY <1>1 DEF RefRead, Handler
  <2>2. treeBlobs[b].size # 0
    BY <2>1 DEF MediaInv, RowsStand
  <2> HIDE DEF next
  <2>3. Fits(next, treeBlobs[b], staging[b]) /\ Charge(next, treeBlobs[b]) = treeBlobs[b].size
    BY <2>1 DEF Fits, Charge
  <2> QED BY <2>1, <2>2, <2>3, BeginsAlone
<1>2. ASSUME NEW row \in BlobRow, row.size = r.size, row.state = "none" <=> r.state = "none",
             treeBlobs' = [treeBlobs EXCEPT ![k] = row],
             task[t].at \in {"attach", "detach"}, Ends(t), aged' = aged \ {k},
             UNCHANGED <<mediaUsed, blobCount, staging, minted>>
      PROVE  MediaInv'
  <2>1. /\ k \in MediaBlob /\ k \in minted /\ staging[k] \in 0..MaxBlobBytes
        /\ row.state = "none" <=> row.size = 0
    BY <1>2, WorkerIs
  <2>2. Works(t, k, Ready, row, staging[k])
    BY <1>0, <1>2, <2>1 DEF Works, Ends, Goes
  <2>3. Charge(task[t], r) = Charge(Ready, row)
    BY <1>0, <1>2 DEF Charge
  <2> QED BY <1>0, <1>2, <2>1, <2>2, <2>3, WorkBillsAlike
<1>3. CASE Attach(t)
  <2>1. k \in MediaBlob /\ r \in BlobRow
    BY <1>3, WorkerIs DEF Attach
  <2> DEFINE row == IF r.state = "none" THEN r ELSE [r EXCEPT !.state = "live", !.refs = @ + 1]
  <2>2. /\ row \in BlobRow /\ row.size = r.size /\ (row.state = "none" <=> r.state = "none")
        /\ treeBlobs' = [treeBlobs EXCEPT ![k] = row]
    BY <1>0, <1>3, <2>1 DEF Attach, BlobRow
  <2>3. /\ task[t].at \in {"attach", "detach"} /\ Ends(t) /\ aged' = aged \ {k}
        /\ UNCHANGED <<mediaUsed, blobCount, staging, minted>>
    BY <1>3 DEF Attach
  <2> HIDE DEF row
  <2> QED BY <1>2, <2>2, <2>3
<1>4. CASE Detach(t)
  <2>1. k \in MediaBlob /\ r \in BlobRow
    BY <1>4, WorkerIs DEF Detach
  <2> DEFINE row == IF r.state # "live" THEN r
                    ELSE [r EXCEPT !.refs = IF @ = 0 THEN 0 ELSE @ - 1,
                                   !.state = IF r.refs <= 1 THEN "tombstoned" ELSE "live"]
  <2>2. row \in BlobRow /\ row.size = r.size /\ (row.state = "none" <=> r.state = "none")
    <3>1. CASE r.state # "live"
      BY <2>1, <3>1
    <3>2. CASE r.state = "live"
      <4>1. /\ r.refs \in Nat /\ (IF r.refs = 0 THEN 0 ELSE r.refs - 1) \in Nat
            /\ (IF r.refs <= 1 THEN "tombstoned" ELSE "live") \in {"tombstoned", "live"}
        BY <2>1 DEF BlobRow
      <4>2. \A n \in Nat, st \in {"tombstoned", "live"} :
               LET w == [r EXCEPT !.refs = n, !.state = st]
               IN  w \in BlobRow /\ w.size = r.size /\ w.state # "none"
        BY <2>1 DEF BlobRow
      <4> QED BY <3>2, <4>1, <4>2
    <3> QED BY <3>1, <3>2
  <2>3. treeBlobs' = [treeBlobs EXCEPT ![k] = row]
    BY <1>0, <1>4, <2>1 DEF Detach, BlobRow
  <2>4. /\ task[t].at \in {"attach", "detach"} /\ Ends(t) /\ aged' = aged \ {k}
        /\ UNCHANGED <<mediaUsed, blobCount, staging, minted>>
    BY <1>4 DEF Detach
  <2> HIDE DEF row
  <2> QED BY <1>2, <2>2, <2>3, <2>4
<1> QED BY <1>1, <1>3, <1>4

\* run_sweep, and the row's deletion.
LEMMA SweepKeeps ==
    ASSUME MediaInv, Exclusive, NEW t \in Task,
           \/ \E b \in MediaBlob : SweepList(t, b)
           \/ SweepReclaim(t) \/ SweepCredit(t) \/ Forget(t)
    PROVE  MediaInv'
<1> DEFINE k == task[t].blob
           h == task[t]
           r == treeBlobs[k]
<1>0. /\ treeBlobs \in [MediaBlob -> BlobRow] /\ staging \in [MediaBlob -> 0..MaxBlobBytes]
      /\ Ready \in Handler /\ Ready.at = "idle" /\ MaxBlobBytes \in Nat
  BY MeterIs DEF MediaInv, MediaTypes, Ready, Handler
<1>1. ASSUME NEW b \in MediaBlob, SweepList(t, b) PROVE MediaInv'
  <2> DEFINE tomb == treeBlobs[b].state = "tombstoned"
             next == [at |-> IF tomb THEN "reclaim" ELSE "credit",
                      blob |-> b, size |-> treeBlobs[b].size, tomb |-> tomb]
  <2>1. /\ treeBlobs[b].size \in Size /\ treeBlobs[b].size # 0 /\ MayBegin(t, b) /\ Goes(t, next)
        /\ UNCHANGED <<mediaUsed, blobCount, treeBlobs, staging, final, aged, minted>>
    BY <1>0, <1>1 DEF SweepList, BlobRow, Size, MediaInv, RowsStand
  <2>2. /\ next \in Sweeping /\ next.at \in {"reclaim", "credit"} /\ next.blob = b
        /\ next.size = treeBlobs[b].size /\ (next.at = "reclaim" => next.tomb)
    BY <2>1 DEF Sweeping
  <2> HIDE DEF next
  <2>3. /\ next \in Handler /\ Fits(next, treeBlobs[b], staging[b])
        /\ Charge(next, treeBlobs[b]) = treeBlobs[b].size
    BY <2>2 DEF Fits, Charge, Handler, Sweeping
  <2> QED BY <2>1, <2>2, <2>3, BeginsAlone
<1>2. CASE SweepReclaim(t)
  <2> DEFINE next == [h EXCEPT !.at = IF h.tomb THEN "credit" ELSE "forget"]
  <2>1. /\ h.at = "reclaim" /\ h \in Sweeping /\ Fits(h, r, staging[k]) /\ k \in MediaBlob
        /\ Goes(t, next) /\ UNCHANGED <<mediaUsed, blobCount, treeBlobs, aged, minted>>
    BY <1>2, WorkerIs DEF SweepReclaim
  <2>2. /\ next \in Handler /\ next.at = (IF h.tomb THEN "credit" ELSE "forget")
        /\ next.blob = k /\ next.size = h.size /\ next.tomb = h.tomb
    BY <2>1 DEF Sweeping, Handler
  <2>3. /\ Fits(next, r, staging[k]) /\ Fits(next, r, 0) /\ Charge(next, r) = Charge(h, r)
    BY <2>1, <2>2 DEF Fits, Charge
  <2>4. staging' = staging \/ staging' = [staging EXCEPT ![k] = 0]
    BY <1>2 DEF SweepReclaim
  <2> HIDE DEF next
  <2> QED BY <2>1, <2>2, <2>3, <2>4, OnlyGoesOn, StagingWritten
<1>3. CASE SweepCredit(t)
  <2> DEFINE next == [h EXCEPT !.at = IF h.tomb THEN "forget" ELSE "reclaim"]
  <2>1. /\ h.at = "credit" /\ h \in Sweeping /\ Fits(h, r, staging[k]) /\ k \in MediaBlob
        /\ Goes(t, next)
    BY <1>3, WorkerIs DEF SweepCredit
  <2>2. /\ next \in Handler /\ next.at = (IF h.tomb THEN "forget" ELSE "reclaim")
        /\ next.blob = k /\ next.tomb = h.tomb
    BY <2>1 DEF Sweeping, Handler
  <2>3. h.size \in Nat /\ h.size # 0 /\ Charge(h, r) = h.size /\ Charge(next, r) = 0
    BY <1>0, <2>1, <2>2 DEF Sweeping, Size, Fits, Charge
  <2>4. /\ mediaUsed' = mediaUsed - h.size + 0 /\ blobCount' = blobCount - Unit(h.size) + Unit(0)
        /\ UNCHANGED <<treeBlobs, staging, aged, minted>>
    BY <1>3, <2>3, MeterIs DEF SweepCredit, Release, Unit
  <2>5. Fits(next, r, staging[k])
    BY <2>1, <2>2 DEF Fits
  <2> HIDE DEF next
  <2> QED BY <2>1, <2>2, <2>3, <2>4, <2>5, MeterReleased
<1>4. CASE Forget(t)
  <2> DEFINE rejected == "actual" \in DOMAIN h
             next == IF rejected THEN [h EXCEPT !.at = "unstage"] ELSE Ready
  <2>1. /\ h.at = "forget" /\ k \in MediaBlob /\ k \in minted /\ staging[k] \in 0..MaxBlobBytes
        /\ h \in Confirming \/ h \in Sweeping
        /\ Goes(t, next) /\ treeBlobs' = [treeBlobs EXCEPT ![k] = NoRow] /\ aged' = aged \ {k}
        /\ UNCHANGED <<mediaUsed, blobCount, staging, minted>>
    BY <1>4, WorkerIs DEF Forget, Ends
  <2>2. next \in Handler /\ next.at \in {"unstage", "idle"} /\ (next.at # "idle" => next.blob = k)
    <3>1. CASE rejected
      <4>1. h \in Confirming
        BY <2>1, <3>1 DEF Confirming, Sweeping
      <4> QED BY <3>1, <4>1 DEF Confirming, Handler
    <3>2. CASE ~rejected
      BY <3>2, <1>0
    <3> QED BY <3>1, <3>2
  <2>3. NoRow \in BlobRow /\ NoRow.state = "none" /\ NoRow.size = 0
    BY <1>0 DEF NoRow, BlobRow
  <2> HIDE DEF next
  <2>4. Works(t, k, next, NoRow, staging[k])
    BY <1>0, <2>1, <2>2 DEF Works, Goes
  <2>5. Fits(next, NoRow, staging[k]) /\ Charge(h, r) = 0 /\ Charge(next, NoRow) = 0
    BY <2>1, <2>2, <2>3 DEF Fits, Charge
  <2> QED BY <2>1, <2>2, <2>3, <2>4, <2>5, WorkBillsAlike
<1> QED BY <1>1, <1>2, <1>3, <1>4

\* Time passing and a client's upload are no handler's step, and bill nothing.
LEMMA OutsideKeeps ==
    ASSUME MediaInv, NEW b \in MediaBlob, Age(b) \/ \E n \in Size : Upload(b, n)
    PROVE  MediaInv'
<1>1. /\ UNCHANGED <<mediaUsed, blobCount, treeBlobs, minted, task>>
      /\ aged' = aged \/ (treeBlobs[b].state # "none" /\ aged' = aged \cup {b})
      /\ staging' = staging \/ \E n \in Size : staging[b] = 0 /\ staging' = [staging EXCEPT ![b] = n]
  BY DEF Age, Upload
<1>2. MediaTypes' /\ Alone'
  BY <1>1, MeterIs DEF MediaInv, MediaTypes, Alone, WorksOn, Size
<1>3. \A c \in MediaBlob : staging'[c] = staging[c] \/ (staging[c] = 0 /\ staging'[c] # 0)
  BY <1>1, MeterIs DEF MediaInv, MediaTypes, Size
<1>4. RowsStand'
  BY <1>1, <1>3 DEF MediaInv, RowsStand, WorksOn, Fits
<1>5. BilledBytes' = BilledBytes /\ BilledBlobs' = BilledBlobs
  BY <1>1 DEF BilledBytes, BilledBlobs, Billed, WorksOn
<1> QED BY <1>1, <1>2, <1>4, <1>5 DEF MediaInv, MediaMeterIsExact

LEMMA MediaStarts == MediaInit => MediaInv
<1> SUFFICES ASSUME MediaInit PROVE MediaInv
  OBVIOUS
<1>0. MaxBlobBytes \in Nat /\ MaxStorageBytes \in Nat /\ MaxBlobCount \in Nat
  BY MediaAssumption
<1>1. MediaTypes /\ Alone /\ RowsStand
  BY <1>0 DEF MediaInit, MediaTypes, Alone, RowsStand, WorksOn, NoRow, BlobRow, Ready, Handler
<1>2. \A b \in MediaBlob : Billed(b) = 0
  BY <1>1, BilledIs DEF MediaInit, WorksOn, Ready, NoRow
<1>3. BilledBytes = {} /\ BilledBlobs = {}
  BY <1>0, <1>2 DEF BilledBytes, BilledBlobs, Size
<1>4. IsFiniteSet({}) /\ Cardinality({}) = 0
  BY FS_EmptySet
<1> QED BY <1>0, <1>1, <1>3, <1>4 DEF MediaInit, MediaInv, MediaMeterIsExact

\* While no two handlers work on one blob, the meter is what the rows are billed,
\* and within the plan, whatever handlers of other blobs are half done
\* (media.rs: intent, confirm, attach, detach, run_sweep).
THEOREM MeterStaysExact == Exclusive => (MediaSpec => []MediaMeterIsExact)
<1> SUFFICES ASSUME Exclusive PROVE MediaSpec => []MediaMeterIsExact
  OBVIOUS
<1>1. ASSUME MediaInv, [MediaNext]_mediaVars PROVE MediaInv'
  <2>1. CASE UNCHANGED mediaVars
    <3>1. MediaTypes' /\ Alone' /\ RowsStand'
      BY <1>1, <2>1 DEF mediaVars, MediaInv, MediaTypes, Alone, RowsStand, WorksOn
    <3>2. BilledBytes' = BilledBytes /\ BilledBlobs' = BilledBlobs
      BY <2>1 DEF mediaVars, BilledBytes, BilledBlobs, Billed, WorksOn
    <3> QED BY <1>1, <2>1, <3>1, <3>2 DEF mediaVars, MediaInv, MediaMeterIsExact
  <2>2. CASE MediaNext
    <3>1. \/ \E b \in MediaBlob : Age(b) \/ \E n \in Size : Upload(b, n)
          \/ \E t \in Task :
                \/ \E b \in MediaBlob, n \in Size : Reserve(t, b, n)
                \/ InsertPending(t) \/ InsertFails(t)
                \/ \/ \E b \in MediaBlob : ConfirmHead(t, b)
                   \/ RejectRelease(t) \/ Reconcile(t) \/ Copy(t) \/ Promote(t) \/ Unstage(t)
                \/ \/ \E b \in MediaBlob, op \in {"attach", "detach"} : RefRead(t, b, op)
                   \/ Attach(t) \/ Detach(t)
                \/ \/ \E b \in MediaBlob : SweepList(t, b)
                   \/ SweepReclaim(t) \/ SweepCredit(t) \/ Forget(t)
      BY <2>2, Zenon DEF MediaNext
    <3> QED BY <1>1, <3>1, OutsideKeeps, ReserveKeeps, InsertKeeps, ConfirmKeeps, RefsKeep, SweepKeeps
  <2> QED BY <1>1, <2>1, <2>2
<1>2. MediaInv /\ [MediaNext]_mediaVars => MediaInv'
  BY <1>1
<1>3. MediaInv => MediaMeterIsExact
  BY DEF MediaInv
<1> QED BY <1>2, <1>3, MediaStarts, PTL DEF MediaSpec

-----------------------------------------------------------------------------
(* The blob routes and the collector.  The floor stays at or below the     *)
(* published coverage, which stays at or below what the object in R2       *)
(* seals, and a dot is only reaped below the floor.                        *)

-----------------------------------------------------------------------------
(* Types and the meter.                                                    *)

\* A request that charged holds the account row alone, with room for one more.
ChargeFits ==
    \A q \in Request : put[q].at = "stored" =>
        /\ used + 1 <= Quota
        /\ \A p \in Request : put[p].at = "stored" => p = q

MeterInv == TypeOK /\ MeterIsExact /\ ChargeFits

\* A bounded frontier is a frontier.
LEMMA BoundedIsFrontier ==
    ASSUME NEW f \in BoundedFrontier
    PROVE  IsFrontier(f)
<1> QED BY BlobServerAssumption DEF BoundedFrontier, IsFrontier

\* The empty frontier is bounded.
LEMMA EmptyIsBounded == EmptyFrontier \in BoundedFrontier /\ IsFrontier(EmptyFrontier)
BY DEF EmptyFrontier, BoundedFrontier, IsFrontier

\* An empty tree is metered right.
LEMMA MeterInit == Init => MeterInv
<1> SUFFICES ASSUME Init PROVE MeterInv
  OBVIOUS
<1>1. IsFiniteSet({}) /\ Cardinality({}) = 0
  BY FS_EmptySet
<1>2. bodies \in Seq(BoundedFrontier) /\ Len(bodies) = 0
  BY DEF Init
<1>3. published \in [etag : 0..Len(bodies), covered : BoundedFrontier]
  BY <1>2, EmptyIsBounded DEF Init
<1>4. IsFrontier(published.covered) /\ IsFrontier(head) /\ IsFrontier(floor)
  BY EmptyIsBounded DEF Init
<1>5. \A m \in Member : IsFrontier(seen[m])
  BY EmptyIsBounded DEF Init
<1>6. put \in [Request -> [dot : LogDot \cup {None}, at : Stage]]
  BY DEF Init, Idle, Stage
<1>7. TypeOK
  BY <1>1, <1>2, <1>3, <1>4, <1>5, <1>6 DEF TypeOK, Init, Idle
<1>8. MeterIsExact /\ ChargeFits
  BY <1>1, BlobServerAssumption DEF MeterIsExact, ChargeFits, Init, Idle
<1> QED BY <1>7, <1>8 DEF MeterInv

\* What a mark does to the floor: it raises it, at most to the coverage of
\* gate 1 and, where it raises it, at most to what every reporter has seen.
LEMMA LoweredBounds ==
    ASSUME TypeOK, NEW r \in DOMAIN GateOne
    PROVE  /\ Lowered(r) \in Nat /\ Lowered(r) <= GateOne[r]
           /\ \A m \in Reporters : Lowered(r) <= SeenBy(m, r)
<1> DEFINE S == {GateOne[r]} \cup {SeenBy(m, r) : m \in Reporters}
<1>1. IsFrontier(GateOne)
  BY BoundedIsFrontier, EmptyIsBounded DEF TypeOK, GateOne
<1>2. \A m \in Reporters : SeenBy(m, r) \in Nat
  BY BlobServerAssumption DEF Reporters, CurrentMembers, SeenBy, InWindow, TypeOK, IsFrontier
<1>3. S \in SUBSET Nat /\ S # {}
  BY <1>1, <1>2 DEF IsFrontier
<1>4. Min(S) \in S /\ \A y \in S : Min(S) <= y
  <2> HIDE DEF S
  <2> QED BY <1>3, MinProperties
<1> QED BY <1>3, <1>4 DEF Lowered

\* A mark keeps the floor a frontier and marks only rows.
LEMMA MarkType ==
    ASSUME TypeOK, NEW young, Mark(young)
    PROVE  /\ IsFrontier(floor')
           /\ DOMAIN floor' = DOMAIN floor \cup DOMAIN GateOne
           /\ \A r \in DOMAIN GateOne : floor'[r] = Raised(r) /\ Raised(r) \in Nat
           /\ \A r \in DOMAIN floor \ DOMAIN GateOne : floor'[r] = floor[r]
<1>1. IsFrontier(GateOne)
  BY BoundedIsFrontier, EmptyIsBounded DEF TypeOK, GateOne
<1>2. \A r \in DOMAIN GateOne : Raised(r) \in Nat
  BY LoweredBounds, AtIsNat DEF Raised, TypeOK
<1>3. floor' = [r \in DOMAIN floor \cup DOMAIN GateOne |->
                   IF r \in DOMAIN GateOne THEN Raised(r) ELSE floor[r]]
  BY DEF Mark
<1> QED BY <1>1, <1>2, <1>3 DEF IsFrontier, TypeOK

\* No step of any handler puts the meter wrong.
LEMMA MeterStep == MeterInv /\ [Next]_vars => MeterInv'
<1> SUFFICES ASSUME MeterInv, [Next]_vars PROVE MeterInv'
  OBVIOUS
<1> USE DEF MeterInv
<1>0. \A n \in 0..MaxCounter : n \in Nat
  OBVIOUS
<1>1. CASE \E q \in Request, x \in LogDot : PutLogCheck(q, x)
  <2> PICK q \in Request, x \in LogDot : PutLogCheck(q, x)
    BY <1>1
  <2>1. TypeOK'
    BY DEF PutLogCheck, TypeOK, Stage, snapVars, seenVars
  <2>2. MeterIsExact'
    BY DEF PutLogCheck, MeterIsExact
  <2>3. ChargeFits'
    BY DEF PutLogCheck, ChargeFits, TypeOK
  <2> QED BY <2>1, <2>2, <2>3
<1>2. CASE \E q \in Request : PutLogStore(q)
  <2> PICK q \in Request : PutLogStore(q)
    BY <1>2
  <2>1. TypeOK'
    BY DEF PutLogStore, TypeOK, Stage, snapVars, seenVars
  <2>2. MeterIsExact'
    BY DEF PutLogStore, MeterIsExact
  <2>3. ChargeFits'
    BY DEF PutLogStore, ChargeFits, AccountLocked, TypeOK
  <2> QED BY <2>1, <2>2, <2>3
<1>3. CASE \E q \in Request : PutLogCommit(q)
  <2> PICK q \in Request : PutLogCommit(q)
    BY <1>3
  <2> DEFINE x == put[q].dot
  <2>1. IsFiniteSet(rows') /\ used' = Cardinality(rows')
    BY FS_AddElement DEF PutLogCommit, TypeOK, MeterIsExact
  <2>2. used' \in Nat /\ used' <= Quota
    BY BlobServerAssumption DEF PutLogCommit, TypeOK, MeterIsExact, ChargeFits
  <2>3. put' \in [Request -> [dot : LogDot \cup {None}, at : Stage]]
    BY DEF PutLogCommit, TypeOK, Stage, Idle
  <2>4. TypeOK'
    BY <2>1, <2>2, <2>3 DEF PutLogCommit, TypeOK, Idle, snapVars, seenVars
  <2>5. ChargeFits'
    <3> SUFFICES ASSUME NEW p \in Request, put'[p].at = "stored" PROVE FALSE
      BY DEF ChargeFits
    <3>1. p # q
      BY DEF PutLogCommit, TypeOK, Idle
    <3>2. put[p].at = "stored" /\ put[q].at = "stored"
      BY <3>1 DEF PutLogCommit, TypeOK
    <3> QED BY <3>1, <3>2 DEF ChargeFits
  <2> QED BY <2>1, <2>2, <2>4, <2>5 DEF MeterIsExact
<1>4. CASE \E q \in Request : PutLogAbort(q)
  <2> PICK q \in Request : PutLogAbort(q)
    BY <1>4
  <2>1. put' \in [Request -> [dot : LogDot \cup {None}, at : Stage]]
    BY DEF PutLogAbort, TypeOK, Stage, Idle
  <2>2. TypeOK'
    BY <2>1 DEF PutLogAbort, TypeOK, Idle, snapVars, seenVars
  <2>3. MeterIsExact'
    BY DEF PutLogAbort, MeterIsExact
  <2>4. ChargeFits'
    BY DEF PutLogAbort, ChargeFits, TypeOK, Idle
  <2> QED BY <2>2, <2>3, <2>4
<1>5. CASE \E r \in Replica, n \in HeadCounts : PutHead(r, n)
  <2> PICK r \in Replica, n \in HeadCounts : PutHead(r, n)
    BY <1>5
  <2>1. IsFrontier(head')
    BY WithCounterType, BlobServerAssumption DEF PutHead, TypeOK
  <2>2. TypeOK'
    BY <2>1 DEF PutHead, TypeOK, logVars, snapVars, seenVars
  <2> QED BY <2>2 DEF PutHead, MeterIsExact, ChargeFits, logVars
<1>6. CASE \E f \in BoundedFrontier : SealSnapshot(f)
  <2> PICK f \in BoundedFrontier : SealSnapshot(f)
    BY <1>6
  <2>1. bodies' \in Seq(BoundedFrontier) /\ Len(bodies') = Len(bodies) + 1
    BY DEF SealSnapshot, TypeOK
  <2>2. TypeOK'
    BY <2>1 DEF SealSnapshot, TypeOK, logVars, seenVars
  <2> QED BY <2>2 DEF SealSnapshot, MeterIsExact, ChargeFits, logVars
<1>7. CASE \E id \in DOMAIN bodies : PutSnapshotStore(id)
  <2> PICK id \in DOMAIN bodies : PutSnapshotStore(id)
    BY <1>7
  <2>1. id \in 0..Len(bodies)
    BY DEF TypeOK
  <2>2. TypeOK'
    BY <2>1 DEF PutSnapshotStore, TypeOK, logVars, seenVars
  <2> QED BY <2>2 DEF PutSnapshotStore, MeterIsExact, ChargeFits, logVars
<1>8. CASE PutSnapshotCommit
  <2>1. bodies[publishing] \in BoundedFrontier
    BY <1>8 DEF PutSnapshotCommit, TreeLocked, TypeOK
  <2>2. published' \in [etag : 0..Len(bodies), covered : BoundedFrontier]
    BY <1>8, <2>1 DEF PutSnapshotCommit, TypeOK
  <2>3. TypeOK'
    BY <1>8, <2>2 DEF PutSnapshotCommit, TypeOK, logVars, seenVars
  <2> QED BY <1>8, <2>3 DEF PutSnapshotCommit, MeterIsExact, ChargeFits, logVars
<1>9. CASE PutSnapshotAbort
  BY <1>9 DEF PutSnapshotAbort, TypeOK, MeterIsExact, ChargeFits, logVars, seenVars
<1>10. CASE \E m \in Member, f \in BoundedFrontier : PutFrontier(m, f)
  <2> PICK m \in Member, f \in BoundedFrontier : PutFrontier(m, f)
    BY <1>10
  <2>1. IsFrontier(f) /\ IsFrontier(seen[m])
    BY BoundedIsFrontier DEF TypeOK
  <2>2. IsFrontier([r \in DOMAIN seen[m] \cup DOMAIN f |->
                       IF r \in DOMAIN f THEN f[r] ELSE seen[m][r]])
    BY <2>1 DEF IsFrontier
  <2>3. DOMAIN seen' = Member /\ \A k \in Member : IsFrontier(seen'[k])
    BY <2>2 DEF PutFrontier, TypeOK
  <2>4. TypeOK'
    BY <2>3 DEF PutFrontier, TypeOK, logVars, snapVars
  <2> QED BY <2>4 DEF PutFrontier, MeterIsExact, ChargeFits, logVars
<1>11. CASE \E m \in Member, r \in Replica : ReportExpires(m, r)
  BY <1>11 DEF ReportExpires, TypeOK, MeterIsExact, ChargeFits, logVars, snapVars
<1>12. CASE \E S \in SUBSET (Member \ {Owner}) : SetAccess(S)
  BY <1>12 DEF SetAccess, TypeOK, MeterIsExact, ChargeFits, logVars, snapVars
<1>13. CASE Sweep
  <2> PICK young : Mark(young)
    BY <1>13 DEF Sweep
  <2>1. IsFrontier(floor')
    BY MarkType
  <2>2. TypeOK'
    BY <2>1 DEF Mark, TypeOK, snapVars, seenVars
  <2> QED BY <2>2 DEF Mark, MeterIsExact, ChargeFits
<1>14. CASE \E x \in LogDot : ReapRow(x)
  <2> PICK x \in LogDot : ReapRow(x)
    BY <1>14
  <2>1. x \in rows /\ IsFiniteSet(rows)
    BY DEF ReapRow, TypeOK
  <2>2. IsFiniteSet(rows') /\ Cardinality(rows') = Cardinality(rows) - 1
    BY <2>1, FS_RemoveElement DEF ReapRow
  <2>3. Cardinality(rows') \in Nat
    BY <2>2, FS_CardinalityType
  <2>4. used' = Cardinality(rows') /\ used' \in Nat /\ used' <= Quota
    BY <2>2, <2>3, BlobServerAssumption DEF ReapRow, MeterIsExact, TypeOK
  <2>5. TypeOK'
    BY <2>2, <2>4 DEF ReapRow, TypeOK, snapVars, seenVars
  <2>6. ChargeFits'
    BY DEF ReapRow, AccountLocked, ChargeFits
  <2> QED BY <2>4, <2>5, <2>6 DEF MeterIsExact
<1>15. CASE \E x \in LogDot, deleted \in BOOLEAN : ReapObject(x, deleted)
  BY <1>15 DEF ReapObject, TypeOK, MeterIsExact, ChargeFits, snapVars, seenVars
<1>16. CASE UNCHANGED vars
  BY <1>16 DEF vars, logVars, snapVars, seenVars, TypeOK, MeterIsExact, ChargeFits
<1> QED
  BY <1>1, <1>2, <1>3, <1>4, <1>5, <1>6, <1>7, <1>8, <1>9, <1>10, <1>11, <1>12,
     <1>13, <1>14, <1>15, <1>16 DEF Next

\* The handlers and the collector keep the two stores well formed.
THEOREM TypeCorrect == Spec => []TypeOK
<1>1. MeterInv => TypeOK
  BY DEF MeterInv
<1> QED BY MeterInit, MeterStep, <1>1, PTL DEF Spec

\* Every indexed object is charged once, within the quota.
THEOREM MeterCorrect == Spec => []MeterIsExact
<1>1. MeterInv => MeterIsExact
  BY DEF MeterInv
<1> QED BY MeterInit, MeterStep, <1>1, PTL DEF Spec

-----------------------------------------------------------------------------
(* The collector.                                                          *)

EtagIsBound == published.etag = snapIndex /\ published.covered = Sealed(snapIndex)
FloorIsPublished ==
    DOMAIN floor \subseteq DOMAIN published.covered /\ LeqFrontier(floor, published.covered)
PublishedIsSealed == LeqFrontier(published.covered, Sealed(snapObject))
PublishingIsAccepted ==
    publishing # 0 => snapObject = publishing /\ SnapshotAccepted(bodies[publishing])
MarkedIsBelow == \A x \in marked : IsBelow(x, floor)
ReapedIsBelow == reaping \subseteq reaped /\ \A x \in reaped : IsBelow(x, floor)

GcInv == /\ TypeOK /\ EtagIsBound /\ FloorIsPublished /\ PublishedIsSealed
         /\ PublishingIsAccepted /\ RepublishIsAccepted
         /\ MarkedIsBelow /\ ReapedIsBelow

\* What a snapshot seals is a bounded frontier.
LEMMA SealedIsFrontier ==
    ASSUME TypeOK, NEW id \in 0..Len(bodies)
    PROVE  Sealed(id) \in BoundedFrontier /\ IsFrontier(Sealed(id))
BY BoundedIsFrontier, EmptyIsBounded DEF Sealed, TypeOK

\* Only a mark moves the floor, and it moves up.
LEMMA FloorRises ==
    ASSUME TypeOK, [Next]_vars
    PROVE  /\ DOMAIN floor \subseteq DOMAIN floor'
           /\ \A r : At(floor, r) <= At(floor', r)
           /\ Sweep \/ floor' = floor
<1>1. CASE Sweep
  <2> PICK young : Mark(young)
    BY <1>1 DEF Sweep
  <2>1. \A r \in DOMAIN GateOne : At(floor, r) <= Raised(r)
    BY LoweredBounds, AtIsNat DEF Raised, TypeOK
  <2>2. \A r : At(floor, r) \in Nat
    BY AtIsNat DEF TypeOK
  <2> QED BY <1>1, <2>1, <2>2, MarkType DEF At
<1>2. CASE floor' = floor
  BY <1>2, AtIsNat DEF TypeOK
<1>3. Sweep \/ floor' = floor
  BY DEF Next, PutLogCheck, PutLogStore, PutLogCommit, PutLogAbort, PutHead, SealSnapshot,
         PutSnapshotStore, PutSnapshotCommit, PutSnapshotAbort, PutFrontier, ReportExpires,
         SetAccess, ReapRow, ReapObject, vars
<1> QED BY <1>1, <1>2, <1>3

\* Only the reaper removes a row, and only a marked one.
LEMMA RowsStay ==
    ASSUME TypeOK, [Next]_vars
    PROVE  \A x \in rows : x \in rows' \/ x \in marked
BY DEF Next, PutLogCheck, PutLogStore, PutLogCommit, PutLogAbort, PutHead, SealSnapshot,
       PutSnapshotStore, PutSnapshotCommit, PutSnapshotAbort, PutFrontier, ReportExpires,
       SetAccess, Sweep, Mark, ReapRow, ReapObject, vars, logVars

\* What the tree retains, it retains: a row is only reaped below the floor.
LEMMA RetainedStays ==
    ASSUME TypeOK, TypeOK', MarkedIsBelow, [Next]_vars,
           NEW r \in Replica, NEW c \in Nat, IsRetained(c, r)
    PROVE  IsRetained(c, r)'
<1>1. At(floor, r) <= At(floor', r) /\ At(floor, r) \in Nat /\ At(floor', r) \in Nat
  BY FloorRises, AtIsNat DEF TypeOK
<1>2. CASE c <= At(floor, r)
  BY <1>1, <1>2 DEF IsRetained
<1>3. CASE c = 0
  BY <1>3 DEF IsRetained
<1>4. ASSUME NEW x \in rows, x[1] = r, c <= x[2] + 1
      PROVE  IsRetained(c, r)'
  <2>1. CASE x \in rows'
    BY <2>1, <1>4 DEF IsRetained
  <2>2. CASE x \in marked
    <3>1. x[2] < At(floor, r) /\ x[2] \in Nat
      BY <2>2, <1>4 DEF MarkedIsBelow, IsBelow, TypeOK, LogDot, Counter
    <3>2. c <= At(floor', r)
      BY <3>1, <1>1, <1>4
    <3> QED BY <3>2 DEF IsRetained
  <2> QED BY <2>1, <2>2, RowsStay
<1> QED BY <1>2, <1>3, <1>4 DEF IsRetained

\* A snapshot the server would accept stays acceptable while nobody moves the
\* floor or publishes.
LEMMA AcceptedStays ==
    ASSUME TypeOK, TypeOK', MarkedIsBelow, [Next]_vars, floor' = floor, published' = published,
           NEW f, IsFrontier(f), SnapshotAccepted(f)
    PROVE  SnapshotAccepted(f)'
<1>1. \A r \in DOMAIN f : r \in Replica /\ f[r] \in Nat
  BY DEF IsFrontier
<1>2. \A r \in DOMAIN f : IsRetained(f[r], r)'
  BY <1>1, RetainedStays DEF SnapshotAccepted
<1> QED BY <1>2 DEF SnapshotAccepted

\* An empty tree has nothing deleted and nothing claimed.
LEMMA GcInit == Init => GcInv
<1> SUFFICES ASSUME Init PROVE GcInv
  OBVIOUS
<1>1. TypeOK
  BY MeterInit DEF MeterInv
<1> QED BY <1>1 DEF Init, GcInv, EtagIsBound, FloorIsPublished, PublishedIsSealed,
     PublishingIsAccepted, RepublishIsAccepted, MarkedIsBelow, ReapedIsBelow, Sealed,
     LeqFrontier, EmptyFrontier

\* The steps that touch neither the floor nor the snapshot.
LEMMA GcStepLog ==
    ASSUME GcInv, TypeOK', [Next]_vars, ~Sweep, UNCHANGED <<floor, snapVars>>
    PROVE  GcInv'
<1> USE DEF GcInv
<1>1. EtagIsBound' /\ FloorIsPublished' /\ PublishedIsSealed'
  BY DEF EtagIsBound, FloorIsPublished, PublishedIsSealed, Sealed, snapVars
<1>2. PublishingIsAccepted'
  <2> SUFFICES ASSUME publishing # 0 PROVE SnapshotAccepted(bodies[publishing])'
    BY DEF PublishingIsAccepted, snapVars
  <2>1. IsFrontier(bodies[publishing])
    BY BoundedIsFrontier DEF TypeOK
  <2>2. floor' = floor /\ published' = published /\ (bodies[publishing])' = bodies[publishing]
    BY DEF snapVars
  <2> DEFINE f == bodies[publishing]
  <2>3. SnapshotAccepted(f)
    BY DEF PublishingIsAccepted
  <2> QED BY <2>1, <2>2, <2>3, AcceptedStays DEF SnapshotAccepted, snapVars, IsRetained
<1>3. RepublishIsAccepted'
  <2> SUFFICES ASSUME snapIndex # 0 PROVE SnapshotAccepted(published.covered)'
    BY DEF RepublishIsAccepted, snapVars
  <2>1. IsFrontier(published.covered)
    BY BoundedIsFrontier DEF TypeOK
  <2>2. SnapshotAccepted(published.covered)
    BY DEF RepublishIsAccepted
  <2>3. floor' = floor /\ published' = published
    BY DEF snapVars
  <2> QED BY <2>1, <2>2, <2>3, AcceptedStays DEF SnapshotAccepted, IsRetained
<1>4. marked' \subseteq marked /\ reaped' \subseteq reaped \cup marked
      /\ reaping' \subseteq reaped'
  BY DEF ReapedIsBelow, Next, PutLogCheck, PutLogStore, PutLogCommit, PutLogAbort,
     PutHead, SealSnapshot, PutSnapshotStore, PutSnapshotCommit, PutSnapshotAbort, PutFrontier,
     ReportExpires, SetAccess, ReapRow, ReapObject, vars, logVars
<1> QED BY <1>1, <1>2, <1>3, <1>4 DEF MarkedIsBelow, ReapedIsBelow

\* A mark raises the floor, at most to the published coverage.
LEMMA GcStepMark ==
    ASSUME GcInv, TypeOK', [Next]_vars, NEW young, Mark(young)
    PROVE  GcInv'
<1> USE DEF GcInv
<1>1. GateOne = published.covered
  BY DEF Mark, GateOne, EmptyFrontier
<1>2. published.covered \in BoundedFrontier /\ IsFrontier(published.covered)
  BY BoundedIsFrontier DEF TypeOK
<1>3. UNCHANGED <<snapVars, rows, reaping, reaped>> /\ ~TreeLocked
  BY DEF Mark
<1>4. FloorIsPublished'
  <2>1. DOMAIN floor' = DOMAIN published.covered
    BY <1>1, MarkType DEF FloorIsPublished
  <2>2. ASSUME NEW r \in DOMAIN floor'
        PROVE  floor'[r] <= At(published.covered, r)
    <3>1. Lowered(r) <= published.covered[r] /\ Lowered(r) \in Nat
      BY <1>1, <2>1, LoweredBounds
    <3>2. At(floor, r) <= At(published.covered, r)
      BY <1>2, LeqFrontierAt DEF FloorIsPublished, TypeOK
    <3> QED BY <1>1, <2>1, <3>1, <3>2, MarkType DEF Raised, At
  <2> QED BY <1>3, <2>1, <2>2 DEF FloorIsPublished, LeqFrontier, snapVars
<1>5. RepublishIsAccepted'
  <2>1. \A r \in DOMAIN published.covered : r \in Replica /\ published.covered[r] \in Nat
    BY <1>2 DEF IsFrontier
  <2>2. \A r \in Replica, c \in Nat : IsRetained(c, r) => IsRetained(c, r)'
    BY RetainedStays
  <2>3. LeqFrontier(published.covered, published.covered)
    BY <1>2, LeqFrontierReflexive
  <2>4. published' = published /\ snapIndex' = snapIndex
    BY <1>3 DEF snapVars
  <2> QED BY <1>4, <2>1, <2>2, <2>3, <2>4 DEF RepublishIsAccepted, SnapshotAccepted, FloorIsPublished
<1>6. ASSUME NEW x \in Dot, IsBelow(x, floor)
      PROVE  IsBelow(x, floor')
  BY <1>6, IsBelowMonotone, FloorRises DEF TypeOK
<1>7. MarkedIsBelow'
  <2>1. \A x \in marked : x \in Dot
    BY DEF TypeOK, LogDot, Counter, Dot
  <2> QED BY <1>6, <2>1 DEF Mark, MarkedIsBelow
<1>8. ReapedIsBelow'
  <2>1. \A x \in reaped : x \in Dot
    BY DEF TypeOK, LogDot, Counter, Dot
  <2> QED BY <1>3, <1>6, <2>1 DEF ReapedIsBelow
<1>9. EtagIsBound' /\ PublishedIsSealed' /\ PublishingIsAccepted'
  BY <1>3 DEF EtagIsBound, PublishedIsSealed, PublishingIsAccepted, Sealed, snapVars, TreeLocked
<1> QED BY <1>4, <1>5, <1>7, <1>8, <1>9

\* No step deletes what is not covered, or moves a ratchet back.
LEMMA GcStep == GcInv /\ TypeOK' /\ [Next]_vars => GcInv'
<1> SUFFICES ASSUME GcInv, TypeOK', [Next]_vars PROVE GcInv'
  OBVIOUS
<1> USE DEF GcInv
<1>1. CASE Sweep
  <2> PICK young : Mark(young)
    BY <1>1 DEF Sweep
  <2> QED BY GcStepMark
<1>2. CASE \E f \in BoundedFrontier : SealSnapshot(f)
  <2> PICK f \in BoundedFrontier : SealSnapshot(f)
    BY <1>2
  <2>1. \A id \in 0..Len(bodies) : Sealed(id)' = Sealed(id)
    BY DEF SealSnapshot, Sealed, TypeOK
  <2>2. publishing # 0 => bodies'[publishing] = bodies[publishing]
    BY DEF SealSnapshot, TypeOK
  <2>3. UNCHANGED <<logVars, floor, snapObject, snapIndex, published, publishing>>
    BY DEF SealSnapshot
  <2>4. EtagIsBound' /\ PublishedIsSealed'
    <3>1. Sealed(snapIndex)' = Sealed(snapIndex) /\ Sealed(snapObject)' = Sealed(snapObject)
      BY <2>1, <2>3 DEF TypeOK, Sealed
    <3> QED BY <2>3, <3>1 DEF EtagIsBound, PublishedIsSealed
  <2>5. PublishingIsAccepted' /\ RepublishIsAccepted' /\ FloorIsPublished'
    BY <2>2, <2>3 DEF PublishingIsAccepted, RepublishIsAccepted, FloorIsPublished,
       SnapshotAccepted, IsRetained, logVars
  <2> QED BY <2>3, <2>4, <2>5 DEF MarkedIsBelow, ReapedIsBelow, logVars
<1>3. CASE \E id \in DOMAIN bodies : PutSnapshotStore(id)
  <2> PICK id \in DOMAIN bodies : PutSnapshotStore(id)
    BY <1>3
  <2>1. Sealed(id) = bodies[id] /\ id # 0
    BY DEF Sealed, TypeOK
  <2>2. PublishedIsSealed' /\ PublishingIsAccepted'
    BY <2>1 DEF PutSnapshotStore, PublishedIsSealed, PublishingIsAccepted, SnapshotAccepted,
       IsRetained, Sealed, logVars
  <2> QED BY <2>2 DEF PutSnapshotStore, EtagIsBound, FloorIsPublished, RepublishIsAccepted,
       SnapshotAccepted, IsRetained, MarkedIsBelow, ReapedIsBelow, Sealed, logVars
<1>4. CASE PutSnapshotCommit
  <2> DEFINE f == bodies[publishing]
  <2>1. f \in BoundedFrontier /\ IsFrontier(f) /\ Sealed(publishing) = f
    BY <1>4, BoundedIsFrontier DEF PutSnapshotCommit, TreeLocked, TypeOK, Sealed
  <2>2. SnapshotAccepted(f) /\ snapObject = publishing
    BY <1>4 DEF PutSnapshotCommit, TreeLocked, PublishingIsAccepted
  <2>3. /\ published' = [etag |-> publishing, covered |-> f] /\ snapIndex' = publishing
        /\ publishing' = 0 /\ UNCHANGED <<logVars, floor, bodies, snapObject>>
    BY <1>4 DEF PutSnapshotCommit
  <2>4. Sealed(snapIndex)' = f /\ Sealed(snapObject)' = f
    BY <1>4, <2>1, <2>2, <2>3 DEF Sealed, PutSnapshotCommit, TreeLocked
  <2>5. EtagIsBound' /\ PublishedIsSealed' /\ PublishingIsAccepted'
    BY <2>1, <2>2, <2>3, <2>4, LeqFrontierReflexive DEF EtagIsBound, PublishedIsSealed,
       PublishingIsAccepted, Sealed
  <2>6. FloorIsPublished' /\ RepublishIsAccepted'
    BY <2>1, <2>2, <2>3, LeqFrontierReflexive DEF FloorIsPublished, RepublishIsAccepted,
       SnapshotAccepted, IsRetained, logVars
  <2> QED BY <2>3, <2>5, <2>6 DEF MarkedIsBelow, ReapedIsBelow, logVars
<1>5. CASE PutSnapshotAbort
  BY <1>5 DEF PutSnapshotAbort, EtagIsBound, FloorIsPublished, PublishedIsSealed,
     PublishingIsAccepted, RepublishIsAccepted, SnapshotAccepted, IsRetained, MarkedIsBelow,
     ReapedIsBelow, Sealed, logVars
<1>6. CASE ~Sweep /\ UNCHANGED <<floor, snapVars>>
  BY <1>6, GcStepLog
<1> QED
  BY <1>1, <1>2, <1>3, <1>4, <1>5, <1>6 DEF Next, PutLogCheck, PutLogStore, PutLogCommit,
     PutLogAbort, PutHead, PutFrontier, ReportExpires, SetAccess, ReapRow, ReapObject, vars

GcSpecInv == MeterInv /\ GcInv

\* In every behaviour the collector's bookkeeping holds.
LEMMA GcInvariant == Spec => []GcSpecInv
<1>1. Init => GcSpecInv
  BY MeterInit, GcInit DEF GcSpecInv
<1>2. GcSpecInv /\ [Next]_vars => GcSpecInv'
  BY MeterStep, GcStep DEF GcSpecInv, MeterInv
<1> QED BY <1>1, <1>2, PTL DEF Spec

\* Nothing is deleted that the live snapshot object does not cover.
THEOREM ReapingIsSafe == Spec => []ReapedIsCovered
<1>1. GcSpecInv => ReapedIsCovered
  <2> SUFFICES ASSUME GcSpecInv, NEW x \in reaped PROVE IsBelow(x, Sealed(snapObject))
    BY DEF ReapedIsCovered
  <2> USE DEF GcSpecInv, GcInv
  <2>1. x \in Dot /\ IsBelow(x, floor)
    BY DEF TypeOK, LogDot, Counter, Dot, ReapedIsBelow
  <2>2. IsFrontier(floor) /\ IsFrontier(published.covered) /\ IsFrontier(Sealed(snapObject))
    BY BoundedIsFrontier, SealedIsFrontier DEF TypeOK
  <2>3. LeqFrontier(floor, Sealed(snapObject))
    BY <2>2, LeqFrontierTransitive DEF FloorIsPublished, PublishedIsSealed
  <2> QED BY <2>1, <2>2, <2>3, LeqFrontierAt, IsBelowMonotone
<1> QED BY GcInvariant, <1>1, PTL

\* The coverage that is published is one the server would accept again.
THEOREM CompactionNeverFreezes == Spec => []RepublishIsAccepted
<1>1. GcSpecInv => RepublishIsAccepted
  BY DEF GcSpecInv, GcInv
<1> QED BY GcInvariant, <1>1, PTL

\* The ratchets only rise, and never past what an active member reported.
THEOREM RatchetsCorrect == Spec => RatchetsHold
<1> DEFINE Rises ==
      /\ LeqFrontier(floor, floor') /\ DOMAIN floor \subseteq DOMAIN floor'
      /\ LeqFrontier(published.covered, published.covered')
      /\ \A m \in Reporters, r \in DOMAIN floor' :
             floor'[r] > At(floor, r) => floor'[r] <= SeenBy(m, r)
<1>1. GcSpecInv /\ [Next]_vars => [Rises]_vars
  <2> SUFFICES ASSUME GcSpecInv, [Next]_vars PROVE Rises
    OBVIOUS
  <2> USE DEF GcSpecInv, GcInv
  <2>1. LeqFrontier(floor, floor') /\ DOMAIN floor \subseteq DOMAIN floor'
    BY FloorRises DEF LeqFrontier, At
  <2>2. LeqFrontier(published.covered, published.covered')
    <3>1. IsFrontier(published.covered)
      BY BoundedIsFrontier DEF TypeOK
    <3>2. CASE PutSnapshotCommit
      BY <3>2 DEF PutSnapshotCommit, PublishingIsAccepted, SnapshotAccepted, TreeLocked
    <3>3. CASE published' = published
      BY <3>1, <3>3, LeqFrontierReflexive
    <3>4. PutSnapshotCommit \/ published' = published
      BY DEF Next, PutLogCheck, PutLogStore, PutLogCommit, PutLogAbort, PutHead, SealSnapshot,
         PutSnapshotStore, PutSnapshotAbort, PutFrontier, ReportExpires, SetAccess, Sweep,
         Mark, ReapRow, ReapObject, vars, snapVars
    <3> QED BY <3>2, <3>3, <3>4
  <2>3. ASSUME NEW m \in Reporters, NEW r \in DOMAIN floor', floor'[r] > At(floor, r)
        PROVE  floor'[r] <= SeenBy(m, r)
    <3>1. At(floor, r) \in Nat /\ (r \in DOMAIN floor => floor[r] = At(floor, r))
      BY AtIsNat DEF TypeOK, At
    <3>2. floor' # floor
      BY <2>3, <3>1
    <3>3. PICK young : Mark(young)
      BY <3>2, FloorRises DEF Sweep
    <3>4. r \in DOMAIN GateOne /\ floor'[r] = Raised(r)
      BY <2>3, <3>1, <3>3, MarkType
    <3> QED BY <2>3, <3>1, <3>4, LoweredBounds DEF Raised
  <2> QED BY <2>1, <2>2, <2>3
<1> HIDE DEF Rises
<1>2. Spec => [][Rises]_vars
  BY GcInvariant, <1>1, PTL DEF Spec
<1> QED BY <1>2 DEF RatchetsHold, Rises

-----------------------------------------------------------------------------
(* Serving.                                                                *)

ServeInv ==
    /\ IndexedIsServed
    /\ \A q \in Request : put[q].at = "stored" =>
            put[q].dot \in objects \/ IsBelow(put[q].dot, floor)

\* No step leaves an indexed entry at or above the floor without object.
LEMMA ServeStep == ServeInv /\ GcSpecInv /\ GcSpecInv' /\ [Next]_vars => ServeInv'
<1> SUFFICES ASSUME ServeInv, GcSpecInv, GcSpecInv', [Next]_vars PROVE ServeInv'
  OBVIOUS
<1> USE DEF GcSpecInv, GcInv
\* An object only disappears below the floor, and the floor rises.
<1>1. \A x \in Dot : IsBelow(x, floor) => IsBelow(x, floor')
  BY IsBelowMonotone, FloorRises DEF TypeOK
<1>2. \A x \in objects : x \in objects' \/ IsBelow(x, floor)
  BY DEF Next, PutLogCheck, PutLogStore, PutLogCommit, PutLogAbort, PutHead, SealSnapshot,
     PutSnapshotStore, PutSnapshotCommit, PutSnapshotAbort, PutFrontier, ReportExpires,
     SetAccess, Sweep, Mark, ReapRow, ReapObject, vars, logVars, ReapedIsBelow
<1>3. \A x : x \in LogDot => x \in Dot
  BY DEF LogDot, Dot, Counter
<1>4. CASE \E q \in Request : PutLogStore(q)
  <2> PICK q \in Request : PutLogStore(q)
    BY <1>4
  <2> QED BY DEF PutLogStore, ServeInv, IndexedIsServed, TypeOK
<1>5. CASE \E q \in Request : PutLogCommit(q)
  <2> PICK q \in Request : PutLogCommit(q)
    BY <1>5
  <2> QED BY DEF PutLogCommit, ServeInv, IndexedIsServed, TypeOK, Idle
<1>6. CASE rows' \subseteq rows /\ \A q \in Request : put'[q].at = "stored" => put'[q] = put[q]
  <2>1. IndexedIsServed'
    BY <1>1, <1>2, <1>3, <1>6 DEF ServeInv, IndexedIsServed, TypeOK
  <2>2. \A q \in Request : put[q].at = "stored" => put[q].dot \in Dot
    BY <1>3 DEF TypeOK
  <2> QED BY <1>1, <1>2, <1>6, <2>1, <2>2 DEF ServeInv
<1>7. CASE \E q \in Request : (\E x \in LogDot : PutLogCheck(q, x)) \/ PutLogAbort(q)
  BY <1>6, <1>7 DEF PutLogCheck, PutLogAbort, TypeOK, Idle
<1>8. CASE UNCHANGED put /\ rows' \subseteq rows
  BY <1>6, <1>8
<1> QED
  BY <1>4, <1>5, <1>7, <1>8 DEF Next, PutHead, SealSnapshot, PutSnapshotStore,
     PutSnapshotCommit, PutSnapshotAbort, PutFrontier, ReportExpires, SetAccess, Sweep, Mark,
     ReapRow, ReapObject, vars, logVars

\* An indexed entry at or above the floor has its object.
THEOREM ServingIsSafe == Spec => []IndexedIsServed
<1>1. Init => ServeInv
  BY DEF Init, ServeInv, IndexedIsServed, Idle
<1>2. ServeInv => IndexedIsServed
  BY DEF ServeInv
<1> QED BY GcInvariant, ServeStep, <1>1, <1>2, PTL DEF Spec
=============================================================================
