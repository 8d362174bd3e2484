----------------------- MODULE AccountSession_proofs -----------------------
(***************************************************************************)
(* AccountSession's properties hold for any subjects, profiles, tabs and   *)
(* devices, whatever clients beside them register.                         *)
(*                                                                         *)
(* What a profile or a running operation remembers is stated of explicit   *)
(* arguments: the keystores sealed (S), the bindings (I), the backups      *)
(* stored (B) and the keystores a profile knows (K).  Each step moves      *)
(* these one way only (Grows, Succeeds), so what was remembered stays good *)
(* (RecordStays, TaskStays, UploadStays) and an action has only to answer  *)
(* for what it writes.                                                     *)
(***************************************************************************)
EXTENDS AccountSession, SequenceTheorems, TLAPS

Entry == [member : MemberId, generation : Nat, ancestors : SUBSET Nat, on : SUBSET Profile]
Gen(S, k) == IF k = NoKeystore THEN 0 ELSE S[k].generation
From(S, k, j) == j \in S[k].ancestors \cup {k, NoKeystore}
Meets(S, k, j) == From(S, k, j) \/ S[k].on \cap S[j].on # {}

\* The keystores a record keeps: the active identity's and the retained ones'.
Known(r) == IF r = NoRecord THEN {} ELSE {r.key} \cup r.retained

-----------------------------------------------------------------------------
(* The server.                                                             *)

\* One member per subject and one subject per member; a backup per bound member,
\* which is the member's own.
ServerOK(S, I, B) ==
    /\ S \in Seq(Entry)
    /\ DOMAIN I \subseteq Sub /\ \A s \in DOMAIN I : I[s] \in MemberId
    /\ \A s, t \in DOMAIN I : I[s] = I[t] => s = t
    /\ \A s \in DOMAIN I : I[s] \in DOMAIN B
    /\ \A m \in DOMAIN B : \E s \in DOMAIN I : I[s] = m
    /\ \A m \in DOMAIN B : B[m] \in 0..Len(S) /\ (B[m] # NoKeystore => S[B[m]].member = m)

CachesOK ==
    /\ cache = [i \in Instance |-> cache[i]]
    /\ \A i \in Instance : \A s \in DOMAIN cache[i] :
          s \in DOMAIN identities /\ cache[i][s] = identities[s]

\* No step forgets: keystores are only added to, bindings and generations stand,
\* and a keystore known is succeeded by one sealed from it or by a backup as new.
Succeeds(S, B, S2, B2, K2, k) ==
    \/ \E k2 \in K2 : /\ S2[k2].member = S[k].member /\ Gen(S, k) <= Gen(S2, k2)
                      /\ \A j \in 0..Len(S) : From(S, k, j) => From(S2, k2, j)
    \/ S[k].member \in DOMAIN B /\ Gen(S, k) <= Gen(S2, B2[S[k].member])
Grows(S, I, B, S2, I2, B2) ==
    /\ Len(S) <= Len(S2)
    /\ \A k \in 1..Len(S) : /\ S2[k].member = S[k].member /\ S2[k].generation = S[k].generation
                            /\ S2[k].ancestors = S[k].ancestors /\ S[k].on \subseteq S2[k].on
    /\ \A s \in DOMAIN I : s \in DOMAIN I2 /\ I2[s] = I[s]
    /\ \A m \in DOMAIN B : m \in DOMAIN B2 /\ Gen(S, B[m]) <= Gen(S2, B2[m])

-----------------------------------------------------------------------------
(* What a profile and its tabs remember.                                   *)

\* A tag compared with later: the profile p has held that keystore, the server
\* holds a newer one, or p knows a newer one that was sealed from it.
Tracked(S, B, K, p, b) ==
    \/ b = NoKeystore
    \/ p \in S[b].on
    \/ S[b].member \in DOMAIN B /\ Gen(S, b) < Gen(S, B[S[b].member])
    \/ \E k \in K : S[k].member = S[b].member /\ From(S, k, b) /\ Gen(S, b) < Gen(S, k)

Pending == [kind : {"none", "backup", "revoke"}, key : Nat]
FullRecord(n) == [key : 1..n, retained : SUBSET (1..n), bound : Sub \cup {NoSub},
                  acked : 0..n, pending : Pending]

\* A pending upload is of a keystore of the member that the profile p has held; a
\* pending revocation is of the active one.
PendingOK(S, p, pending, member) ==
    IF pending.kind = "none" THEN pending = NoPending
    ELSE /\ pending.key \in 1..Len(S)
         /\ S[pending.key].member = member /\ p \in S[pending.key].on

RecordOK(S, I, B, K, p, r) ==
    \/ r = NoRecord
    \/ /\ r \in FullRecord(Len(S)) /\ p \in S[r.key].on
       /\ \A j \in r.retained : S[j].member # S[r.key].member
       /\ \A i, j \in r.retained : S[i].member = S[j].member => i = j
       /\ IF r.bound = NoSub THEN r.acked = NoKeystore /\ r.pending = NoPending
          ELSE r.bound \in DOMAIN I /\ I[r.bound] = S[r.key].member
       /\ r.acked # NoKeystore =>
             /\ S[r.acked].member = S[r.key].member
             /\ Gen(S, r.acked) <= Gen(S, B[S[r.key].member])
             /\ Tracked(S, B, K, p, r.acked)
       /\ PendingOK(S, p, r.pending, S[r.key].member)
       /\ r.pending.kind = "revoke" => r.pending.key = r.key

\* The backup an answer named, of the member it named.
AnswerOK(S, I, B, sub, member, b) ==
    /\ sub \in Sub /\ b \in 0..Len(S)
    /\ member # NoMember => sub \in DOMAIN I /\ I[sub] = member
    /\ b # NoKeystore => /\ member # NoMember /\ S[b].member = member
                         /\ Gen(S, b) <= Gen(S, B[member])

\* An upload is of the member's own, and over a tag it follows or one that is past.
UploadOK(S, B, put) ==
    /\ put = [member |-> put.member, key |-> put.key, ifMatch |-> put.ifMatch]
    /\ put.member \in DOMAIN B /\ put.key \in 1..Len(S) /\ put.ifMatch \in 0..Len(S)
    /\ S[put.key].member = put.member
    /\ put.ifMatch # NoKeystore =>
          /\ S[put.ifMatch].member = put.member
          /\ Meets(S, put.key, put.ifMatch) \/ Gen(S, put.ifMatch) < Gen(S, B[put.member])

Simple(task) ==
    \/ task = Idle
    \/ \E b \in BOOLEAN : task = [at |-> "lock", api |-> "backup", pendingOnly |-> b]
    \/ \E api \in Api : task = [at |-> "ask", api |-> api]
    \/ \E api \in Api, s \in Sub : task = [at |-> "register", api |-> api, sub |-> s]
Answered(S, I, B, K, p, task) ==
    /\ task.at \in {"stage", "keep", "adopt"}
    /\ task = [at |-> task.at, api |-> task.api, sub |-> task.sub,
               member |-> task.member, backup |-> task.backup]
    /\ AnswerOK(S, I, B, task.sub, task.member, task.backup)
    /\ task.at = "adopt" => task.backup # NoKeystore
    /\ task.at = "stage" => task.member # NoMember /\ Tracked(S, B, K, p, task.backup)
Snapshots(S, I, B, K, p, task) ==
    /\ task.at = "snapshot"
    /\ task = [at |-> "snapshot", sub |-> task.sub, backup |-> task.backup,
               expected |-> task.expected]
    /\ task.sub \in DOMAIN I /\ AnswerOK(S, I, B, task.sub, I[task.sub], task.backup)
    /\ Tracked(S, B, K, p, task.backup)
    /\ task.expected.kind # "none" /\ PendingOK(S, p, task.expected, I[task.sub])
Puts(S, I, B, p, task) ==
    /\ task.at \in {"put", "stored"} /\ task.sub \in DOMAIN I
    /\ task \in [at : {task.at}, sub : {task.sub}, expected : {task.expected},
                upload : {task.upload}]
    /\ task.expected.kind # "none" /\ PendingOK(S, p, task.expected, I[task.sub])
    /\ UploadOK(S, B, task.upload) /\ task.upload.member = I[task.sub]
    /\ task.upload.key = task.expected.key
    /\ task.at = "stored" => Gen(S, task.upload.key) <= Gen(S, B[I[task.sub]])
TaskOK(S, I, B, K, p, task) ==
    Simple(task) \/ Answered(S, I, B, K, p, task) \/ Snapshots(S, I, B, K, p, task)
        \/ Puts(S, I, B, p, task)

IsTab(tab) ==
    tab \in [handle : {tab.handle}, me : {tab.me}, view : {tab.view}, conflict : {tab.conflict},
             kept : {tab.kept}, task : {tab.task}]
TabOK(S, I, B, K, p, tab) ==
    IsTab(tab) /\ RecordOK(S, I, B, K, p, tab.view) /\ TaskOK(S, I, B, K, p, tab.task)

-----------------------------------------------------------------------------
(* The inductive invariant.                                                *)

Knows(p) == Known(records[p])
RecordsOK ==
    /\ records = [p \in Profile |-> records[p]]
    /\ \A p \in Profile : RecordOK(sealed, identities, keystore, Knows(p), p, records[p])
TabsOK ==
    /\ tabs = [t \in Tab |-> tabs[t]]
    /\ \A t \in Tab : TabOK(sealed, identities, keystore, Knows(ProfileOf[t]), ProfileOf[t], tabs[t])
SessionInv ==
    /\ ServerOK(sealed, identities, keystore) /\ CachesOK
    /\ auth \in [Profile -> Sub \cup {NoSub}]
    /\ RecordsOK /\ TabsOK
    /\ \A put \in late : UploadOK(sealed, keystore, put)

-----------------------------------------------------------------------------
(* What was remembered stays good.                                         *)

LEMMA GenIsNat ==
    ASSUME NEW S \in Seq(Entry), NEW k \in 0..Len(S)
    PROVE  Gen(S, k) \in Nat
<1>1. \A j \in 1..Len(S) : S[j] \in Entry
  OBVIOUS
<1>2. Len(S) \in Nat
  OBVIOUS
<1>3. k # 0 => k \in 1..Len(S)
  BY <1>2
<1>4. k # 0 => S[k].generation \in Nat
  BY <1>1, <1>3 DEF Entry
<1> QED BY <1>4 DEF Gen, NoKeystore

LEMMA GenStays ==
    ASSUME NEW S, NEW I, NEW B, NEW S2, NEW I2, NEW B2, S \in Seq(Entry),
           Grows(S, I, B, S2, I2, B2)
    PROVE  /\ \A k \in 0..Len(S) : Gen(S2, k) = Gen(S, k)
           /\ \A k \in 1..Len(S) : \A j : From(S2, k, j) <=> From(S, k, j)
           /\ \A k, j \in 1..Len(S) : Meets(S, k, j) => Meets(S2, k, j)
<1>1. \A k \in 0..Len(S) : k # NoKeystore => k \in 1..Len(S)
  BY DEF NoKeystore
<1>2. \A k \in 0..Len(S) : Gen(S2, k) = Gen(S, k)
  BY <1>1 DEF Grows, Gen
<1>3. \A k \in 1..Len(S) : \A j : From(S2, k, j) <=> From(S, k, j)
  BY DEF Grows, From
<1>4. \A k, j \in 1..Len(S) : Meets(S, k, j) => Meets(S2, k, j)
  BY <1>3 DEF Grows, Meets
<1> QED BY <1>2, <1>3, <1>4

LEMMA TrackedStays ==
    ASSUME NEW S, NEW I, NEW B, NEW S2, NEW I2, NEW B2, NEW K, NEW K2, NEW p, NEW b,
           ServerOK(S, I, B), ServerOK(S2, I2, B2), Grows(S, I, B, S2, I2, B2),
           K \subseteq 1..Len(S), K2 \subseteq 1..Len(S2),
           \A k \in K : Succeeds(S, B, S2, B2, K2, k),
           b \in 0..Len(S), Tracked(S, B, K, p, b)
    PROVE  Tracked(S2, B2, K2, p, b)
<1>1. CASE b = NoKeystore
  BY <1>1 DEF Tracked
<1>2. CASE b # NoKeystore
  <2>1. /\ S \in Seq(Entry) /\ S2 \in Seq(Entry) /\ b \in 1..Len(S) /\ b \in 0..Len(S2)
        /\ \A m \in DOMAIN B : B[m] \in 0..Len(S) /\ m \in DOMAIN B2 /\ B2[m] \in 0..Len(S2)
    BY <1>2 DEF ServerOK, NoKeystore, Grows
  <2>2. Gen(S2, b) = Gen(S, b) /\ S2[b].member = S[b].member /\ S[b].on \subseteq S2[b].on
    <3>1. Gen(S2, b) = Gen(S, b)
      BY <2>1, GenStays
    <3> QED BY <2>1, <3>1 DEF Grows
  <2>3. CASE p \in S[b].on
    BY <2>2, <2>3 DEF Tracked
  <2>4. ASSUME S[b].member \in DOMAIN B, Gen(S, b) < Gen(S2, B2[S[b].member])
        PROVE  Tracked(S2, B2, K2, p, b)
    BY <2>1, <2>2, <2>4 DEF Tracked
  <2>5. CASE S[b].member \in DOMAIN B /\ Gen(S, b) < Gen(S, B[S[b].member])
    <3> DEFINE m == S[b].member
    <3>1. Gen(S, B[m]) <= Gen(S2, B2[m])
      BY <2>5 DEF Grows
    <3>2. Gen(S, b) \in Nat /\ Gen(S, B[m]) \in Nat /\ Gen(S2, B2[m]) \in Nat
      BY <2>1, <2>5, GenIsNat
    <3> QED BY <2>4, <2>5, <3>1, <3>2
  <2>6. ASSUME NEW k \in K, S[k].member = S[b].member, From(S, k, b), Gen(S, b) < Gen(S, k)
        PROVE  Tracked(S2, B2, K2, p, b)
    <3>1. Gen(S, b) \in Nat /\ Gen(S, k) \in Nat
      BY <2>1, GenIsNat
    <3>2. CASE /\ S[k].member \in DOMAIN B
               /\ Gen(S, k) <= Gen(S2, B2[S[k].member])
      <4>1. Gen(S2, B2[S[k].member]) \in Nat
        BY <2>1, <3>2, GenIsNat
      <4> QED BY <2>4, <2>6, <3>1, <3>2, <4>1
    <3>3. ASSUME NEW k2 \in K2, S2[k2].member = S[k].member, Gen(S, k) <= Gen(S2, k2),
                 From(S2, k2, b)
          PROVE  Tracked(S2, B2, K2, p, b)
      <4>1. Gen(S2, k2) \in Nat
        BY <2>1, GenIsNat
      <4>2. Gen(S2, b) < Gen(S2, k2) /\ S2[k2].member = S2[b].member
        BY <2>2, <2>6, <3>1, <3>3, <4>1
      <4> QED BY <3>3, <4>2 DEF Tracked
    <3>4. Succeeds(S, B, S2, B2, K2, k) /\ b \in 0..Len(S)
      OBVIOUS
    <3> QED BY <2>6, <3>2, <3>3, <3>4 DEF Succeeds
  <2> QED BY <1>2, <2>3, <2>5, <2>6 DEF Tracked
<1> QED BY <1>1, <1>2

LEMMA RecordStays ==
    ASSUME NEW S, NEW I, NEW B, NEW S2, NEW I2, NEW B2, NEW K, NEW K2, NEW p, NEW r,
           ServerOK(S, I, B), ServerOK(S2, I2, B2), Grows(S, I, B, S2, I2, B2),
           K \subseteq 1..Len(S), K2 \subseteq 1..Len(S2),
           \A k \in K : Succeeds(S, B, S2, B2, K2, k),
           RecordOK(S, I, B, K, p, r)
    PROVE  RecordOK(S2, I2, B2, K2, p, r)
<1>1. CASE r = NoRecord
  BY <1>1 DEF RecordOK
<1>2. CASE r # NoRecord
  <2>1. /\ S \in Seq(Entry) /\ S2 \in Seq(Entry) /\ Len(S) \in Nat /\ Len(S2) \in Nat
        /\ Len(S) <= Len(S2)
    BY DEF ServerOK, Grows
  <2>2. /\ r.key \in 1..Len(S) /\ r.retained \subseteq 1..Len(S) /\ r.acked \in 0..Len(S)
        /\ r \in FullRecord(Len(S))
    BY <1>2 DEF RecordOK, FullRecord
  <2>3. r \in FullRecord(Len(S2))
    <3>1. 1..Len(S) \subseteq 1..Len(S2) /\ 0..Len(S) \subseteq 0..Len(S2)
      BY <2>1
    <3> QED BY <2>2, <3>1 DEF FullRecord
  <2>4. \A k \in 1..Len(S) : S2[k].member = S[k].member /\ S[k].on \subseteq S2[k].on
    BY DEF Grows
  <2>5. PendingOK(S2, p, r.pending, S2[r.key].member)
    BY <1>2, <2>1, <2>2, <2>4 DEF RecordOK, PendingOK
  <2>6. ASSUME r.acked # NoKeystore
        PROVE  /\ S2[r.acked].member = S2[r.key].member
               /\ Gen(S2, r.acked) <= Gen(S2, B2[S2[r.key].member])
               /\ Tracked(S2, B2, K2, p, r.acked)
    <3> DEFINE m == S[r.key].member
    <3>1. /\ S[r.acked].member = m /\ Gen(S, r.acked) <= Gen(S, B[m])
          /\ Tracked(S, B, K, p, r.acked) /\ r.acked \in 1..Len(S)
      BY <1>2, <2>2, <2>6 DEF RecordOK, NoKeystore
    <3>2. r.bound \in DOMAIN I /\ I[r.bound] = m
      BY <1>2, <2>6 DEF RecordOK
    <3>3. m \in DOMAIN B /\ B[m] \in 0..Len(S) /\ m \in DOMAIN B2 /\ B2[m] \in 0..Len(S2)
          /\ Gen(S, B[m]) <= Gen(S2, B2[m])
      BY <3>2 DEF ServerOK, Grows
    <3>4. Gen(S2, r.acked) = Gen(S, r.acked)
      BY <2>1, <2>2, GenStays
    <3>5. Gen(S, r.acked) \in Nat /\ Gen(S, B[m]) \in Nat /\ Gen(S2, B2[m]) \in Nat
      BY <2>1, <2>2, <3>3, GenIsNat
    <3>6. Tracked(S2, B2, K2, p, r.acked)
      BY <2>2, <3>1, TrackedStays
    <3>7. S2[r.acked].member = m /\ S2[r.key].member = m
      BY <2>2, <2>4, <3>1
    <3> HIDE DEF m
    <3>8. Gen(S2, r.acked) <= Gen(S2, B2[m])
      BY <3>1, <3>3, <3>4, <3>5
    <3> QED BY <3>6, <3>7, <3>8
  <2>7. IF r.bound = NoSub THEN r.acked = NoKeystore /\ r.pending = NoPending
        ELSE r.bound \in DOMAIN I2 /\ I2[r.bound] = S2[r.key].member
    BY <1>2, <2>2, <2>4 DEF RecordOK, Grows
  <2>8. /\ p \in S2[r.key].on /\ \A j \in r.retained : S2[j].member # S2[r.key].member
        /\ \A i, j \in r.retained : S2[i].member = S2[j].member => i = j
    BY <1>2, <2>2, <2>4 DEF RecordOK
  <2>9. r.pending.kind = "revoke" => r.pending.key = r.key
    BY <1>2 DEF RecordOK
  <2> QED BY <2>3, <2>5, <2>6, <2>7, <2>8, <2>9 DEF RecordOK
<1> QED BY <1>1, <1>2

LEMMA UploadStays ==
    ASSUME NEW S, NEW I, NEW B, NEW S2, NEW I2, NEW B2, NEW put,
           ServerOK(S, I, B), ServerOK(S2, I2, B2), Grows(S, I, B, S2, I2, B2),
           UploadOK(S, B, put)
    PROVE  UploadOK(S2, B2, put)
<1>1. /\ S \in Seq(Entry) /\ S2 \in Seq(Entry) /\ Len(S) \in Nat /\ Len(S2) \in Nat
      /\ Len(S) <= Len(S2)
  BY DEF ServerOK, Grows
<1>2. /\ put.member \in DOMAIN B2 /\ put.key \in 1..Len(S2) /\ put.ifMatch \in 0..Len(S2)
      /\ S2[put.key].member = put.member
  BY <1>1 DEF UploadOK, Grows
<1>3. ASSUME put.ifMatch # NoKeystore
      PROVE  /\ S2[put.ifMatch].member = put.member
             /\ Meets(S2, put.key, put.ifMatch) \/ Gen(S2, put.ifMatch) < Gen(S2, B2[put.member])
  <2> DEFINE m == put.member
             b == put.ifMatch
  <2>1. b \in 1..Len(S) /\ b \in 0..Len(S) /\ put.key \in 1..Len(S) /\ m \in DOMAIN B
        /\ B[m] \in 0..Len(S) /\ B2[m] \in 0..Len(S2)
    BY <1>2, <1>3 DEF UploadOK, NoKeystore, ServerOK
  <2>2. S2[b].member = m
    BY <1>3, <2>1 DEF UploadOK, Grows
  <2>3. CASE Meets(S, put.key, b)
    BY <1>1, <2>1, <2>2, <2>3, GenStays
  <2>4. CASE Gen(S, b) < Gen(S, B[m])
    <3>0. Gen(S2, b) = Gen(S, b)
      BY <1>1, <2>1, GenStays
    <3>1. Gen(S2, b) = Gen(S, b) /\ Gen(S, B[m]) <= Gen(S2, B2[m])
      BY <2>1, <3>0 DEF Grows
    <3>2. Gen(S, b) \in Nat /\ Gen(S, B[m]) \in Nat /\ Gen(S2, B2[m]) \in Nat
      BY <1>1, <2>1, GenIsNat
    <3> QED BY <2>2, <2>4, <3>1, <3>2
  <2> QED BY <1>3, <2>3, <2>4 DEF UploadOK
<1> QED BY <1>2, <1>3 DEF UploadOK

LEMMA AnswerStays ==
    ASSUME NEW S, NEW I, NEW B, NEW S2, NEW I2, NEW B2, NEW sub, NEW member, NEW b,
           ServerOK(S, I, B), ServerOK(S2, I2, B2), Grows(S, I, B, S2, I2, B2),
           AnswerOK(S, I, B, sub, member, b)
    PROVE  AnswerOK(S2, I2, B2, sub, member, b)
<1>1. /\ S \in Seq(Entry) /\ S2 \in Seq(Entry) /\ Len(S) \in Nat /\ Len(S2) \in Nat
      /\ Len(S) <= Len(S2) /\ b \in 0..Len(S) /\ b \in 0..Len(S2)
  BY DEF ServerOK, Grows, AnswerOK
<1>2. ASSUME b # NoKeystore
      PROVE  member # NoMember /\ S2[b].member = member /\ Gen(S2, b) <= Gen(S2, B2[member])
  <2>1. /\ member # NoMember /\ S[b].member = member /\ Gen(S, b) <= Gen(S, B[member])
        /\ I[sub] = member /\ sub \in DOMAIN I /\ b \in 1..Len(S)
    BY <1>1, <1>2 DEF AnswerOK, NoKeystore
  <2>2. /\ member \in DOMAIN B /\ B[member] \in 0..Len(S) /\ B2[member] \in 0..Len(S2)
        /\ Gen(S, B[member]) <= Gen(S2, B2[member]) /\ S2[b].member = member
    BY <2>1 DEF ServerOK, Grows
  <2>3. Gen(S2, b) = Gen(S, b)
    BY <1>1, GenStays
  <2>4. Gen(S, b) \in Nat /\ Gen(S, B[member]) \in Nat /\ Gen(S2, B2[member]) \in Nat
    BY <1>1, <2>2, GenIsNat
  <2> QED BY <2>1, <2>2, <2>3, <2>4
<1>3. member # NoMember => sub \in DOMAIN I2 /\ I2[sub] = member
  BY DEF AnswerOK, Grows
<1>4. sub \in Sub
  BY DEF AnswerOK
<1> QED BY <1>1, <1>2, <1>3, <1>4 DEF AnswerOK

LEMMA TaskStays ==
    ASSUME NEW S, NEW I, NEW B, NEW S2, NEW I2, NEW B2, NEW K, NEW K2, NEW p, NEW task,
           ServerOK(S, I, B), ServerOK(S2, I2, B2), Grows(S, I, B, S2, I2, B2),
           K \subseteq 1..Len(S), K2 \subseteq 1..Len(S2),
           \A k \in K : Succeeds(S, B, S2, B2, K2, k),
           TaskOK(S, I, B, K, p, task)
    PROVE  TaskOK(S2, I2, B2, K2, p, task)
<1>0. /\ S \in Seq(Entry) /\ S2 \in Seq(Entry) /\ Len(S) \in Nat /\ Len(S2) \in Nat
      /\ Len(S) <= Len(S2)
  BY DEF ServerOK, Grows
<1>1. CASE Simple(task)
  BY <1>1 DEF TaskOK
<1>2. CASE Answered(S, I, B, K, p, task)
  <2>1. AnswerOK(S2, I2, B2, task.sub, task.member, task.backup)
    BY <1>2, AnswerStays DEF Answered
  <2>2. task.at = "stage" => task.member # NoMember /\ Tracked(S2, B2, K2, p, task.backup)
    <3>1. task.backup \in 0..Len(S)
      BY <1>2 DEF Answered, AnswerOK
    <3> QED BY <1>2, <3>1, TrackedStays DEF Answered
  <2> QED BY <1>2, <2>1, <2>2 DEF Answered, TaskOK
<1>3. ASSUME NEW pending, NEW member, PendingOK(S, p, pending, member)
      PROVE  PendingOK(S2, p, pending, member)
  BY <1>0, <1>3 DEF PendingOK, Grows
<1>4. CASE Snapshots(S, I, B, K, p, task)
  <2>1. task.sub \in DOMAIN I2 /\ I2[task.sub] = I[task.sub]
    BY <1>4 DEF Snapshots, Grows
  <2>2. AnswerOK(S2, I2, B2, task.sub, I2[task.sub], task.backup)
    BY <1>4, <2>1, AnswerStays DEF Snapshots
  <2>3. Tracked(S2, B2, K2, p, task.backup)
    <3>1. task.backup \in 0..Len(S)
      BY <1>4 DEF Snapshots, AnswerOK
    <3> QED BY <1>4, <3>1, TrackedStays DEF Snapshots
  <2> QED BY <1>3, <1>4, <2>1, <2>2, <2>3 DEF Snapshots, TaskOK
<1>5. CASE Puts(S, I, B, p, task)
  <2>1. task.sub \in DOMAIN I2 /\ I2[task.sub] = I[task.sub]
    BY <1>5 DEF Puts, Grows
  <2>2. UploadOK(S2, B2, task.upload)
    BY <1>5, UploadStays DEF Puts
  <2>3. task.at = "stored" => Gen(S2, task.upload.key) <= Gen(S2, B2[I2[task.sub]])
    <3> DEFINE m == I[task.sub]
               k == task.upload.key
    <3>1. m \in DOMAIN B /\ B[m] \in 0..Len(S) /\ B2[m] \in 0..Len(S2)
          /\ Gen(S, B[m]) <= Gen(S2, B2[m]) /\ k \in 0..Len(S) /\ k \in 0..Len(S2)
      BY <1>0, <1>5 DEF Puts, ServerOK, Grows, UploadOK
    <3>2. Gen(S2, k) = Gen(S, k) /\ Gen(S, k) \in Nat /\ Gen(S, B[m]) \in Nat
          /\ Gen(S2, B2[m]) \in Nat
      BY <1>0, <3>1, GenStays, GenIsNat
    <3>3. task.at = "stored" => Gen(S, k) <= Gen(S, B[m])
      BY <1>5 DEF Puts
    <3> HIDE DEF m, k
    <3>4. task.at = "stored" => Gen(S2, k) <= Gen(S2, B2[m])
      BY <3>1, <3>2, <3>3
    <3> QED BY <2>1, <3>4 DEF m, k
  <2> QED BY <1>3, <1>5, <2>1, <2>2, <2>3 DEF Puts, TaskOK
<1> QED BY <1>1, <1>2, <1>4, <1>5 DEF TaskOK

-----------------------------------------------------------------------------
(* One step.                                                               *)

\* What a step does to the server, and to what each profile knows.
Moves ==
    /\ ServerOK(sealed', identities', keystore')
    /\ Grows(sealed, identities, keystore, sealed', identities', keystore')
    /\ \A p \in Profile :
          /\ Known(records'[p]) \subseteq 1..Len(sealed')
          /\ \A k \in Known(records[p]) :
                Succeeds(sealed, keystore, sealed', keystore', Known(records'[p]), k)

\* The members of a profile's and a tab's state after a step.
RecordNow(p, r) == RecordOK(sealed', identities', keystore', Known(records'[p]), p, r)
TabNow(t, tab) == TabOK(sealed', identities', keystore', Known(records'[ProfileOf[t]]), ProfileOf[t], tab)
TaskNow(t, task) == TaskOK(sealed', identities', keystore', Known(records'[ProfileOf[t]]), ProfileOf[t], task)

LEMMA KnownBounds ==
    ASSUME NEW S, NEW I, NEW B, NEW K, NEW p, NEW r, RecordOK(S, I, B, K, p, r)
    PROVE  Known(r) \subseteq 1..Len(S)
BY DEF RecordOK, Known, FullRecord

LEMMA ProfileOfTab == \A t \in Tab : ProfileOf[t] \in Profile
BY SessionAssumption

LEMMA Carried ==
    ASSUME SessionInv, Moves
    PROVE  /\ \A p \in Profile : RecordNow(p, records[p])
           /\ \A t \in Tab : TabNow(t, tabs[t]) /\ RecordNow(ProfileOf[t], tabs[t].view)
           /\ \A put \in late : UploadOK(sealed', keystore', put)
<1>1. /\ ServerOK(sealed, identities, keystore) /\ ServerOK(sealed', identities', keystore')
      /\ Grows(sealed, identities, keystore, sealed', identities', keystore')
  BY DEF SessionInv, Moves
<1>2. \A p \in Profile :
         /\ Known(records[p]) \subseteq 1..Len(sealed)
         /\ Known(records'[p]) \subseteq 1..Len(sealed')
         /\ \A k \in Known(records[p]) :
               Succeeds(sealed, keystore, sealed', keystore', Known(records'[p]), k)
  BY KnownBounds DEF SessionInv, RecordsOK, Moves, Knows
<1>3. ASSUME NEW p \in Profile, NEW r,
             RecordOK(sealed, identities, keystore, Known(records[p]), p, r)
      PROVE  RecordNow(p, r)
  BY <1>1, <1>2, <1>3, RecordStays DEF RecordNow
<1>4. ASSUME NEW p \in Profile, NEW task,
             TaskOK(sealed, identities, keystore, Known(records[p]), p, task)
      PROVE  TaskOK(sealed', identities', keystore', Known(records'[p]), p, task)
  BY <1>1, <1>2, <1>4, TaskStays
<1>5. \A p \in Profile : RecordNow(p, records[p])
  BY <1>3 DEF SessionInv, RecordsOK, Knows
<1>6. \A t \in Tab : TabNow(t, tabs[t]) /\ RecordNow(ProfileOf[t], tabs[t].view)
  <2> SUFFICES ASSUME NEW t \in Tab PROVE TabNow(t, tabs[t]) /\ RecordNow(ProfileOf[t], tabs[t].view)
    OBVIOUS
  <2> DEFINE p == ProfileOf[t]
  <2>1. p \in Profile
    BY ProfileOfTab
  <2>2. TabOK(sealed, identities, keystore, Known(records[p]), p, tabs[t])
    BY DEF SessionInv, TabsOK, Knows
  <2>3. RecordNow(p, tabs[t].view)
    BY <1>3, <2>1, <2>2 DEF TabOK
  <2>4. TaskOK(sealed', identities', keystore', Known(records'[p]), p, tabs[t].task)
    BY <1>4, <2>1, <2>2 DEF TabOK
  <2> QED BY <2>2, <2>3, <2>4 DEF TabNow, TabOK, RecordNow
<1>7. \A put \in late : UploadOK(sealed', keystore', put)
  BY <1>1, UploadStays DEF SessionInv
<1> QED BY <1>5, <1>6, <1>7

LEMMA SessionKeeps ==
    ASSUME SessionInv, Moves, CachesOK', auth' \in [Profile -> Sub \cup {NoSub}],
           records' = [p \in Profile |-> records'[p]], tabs' = [t \in Tab |-> tabs'[t]],
           \A p \in Profile : records'[p] = records[p] \/ RecordNow(p, records'[p]),
           \A t \in Tab : tabs'[t] = tabs[t] \/ TabNow(t, tabs'[t]),
           \A put \in late' : put \in late \/ UploadOK(sealed', keystore', put)
    PROVE  SessionInv'
<1>1. \A p \in Profile : RecordNow(p, records'[p])
  BY Carried
<1>2. \A t \in Tab : TabNow(t, tabs'[t])
  BY Carried
<1>3. \A put \in late' : UploadOK(sealed', keystore', put)
  BY Carried
<1>4. RecordsOK'
  BY <1>1 DEF RecordsOK, RecordNow, Knows
<1>5. TabsOK'
  BY <1>2 DEF TabsOK, TabNow, Knows
<1> QED BY <1>3, <1>4, <1>5 DEF SessionInv, Moves

\* A keystore that is still known succeeds itself.
LEMMA SameSucceeds ==
    ASSUME NEW S, NEW I, NEW B, NEW S2, NEW I2, NEW B2, NEW K2, NEW k \in K2,
           S \in Seq(Entry), Grows(S, I, B, S2, I2, B2), k \in 1..Len(S)
    PROVE  Succeeds(S, B, S2, B2, K2, k)
<1>1. k \in 0..Len(S) /\ Gen(S, k) \in Nat
  BY GenIsNat
<1>2. Gen(S2, k) = Gen(S, k) /\ \A j : From(S2, k, j) <=> From(S, k, j)
  BY <1>1, GenStays
<1>3. S2[k].member = S[k].member
  BY DEF Grows
<1> QED BY <1>1, <1>2, <1>3 DEF Succeeds

\* Nothing was written, or a step changed only what the tabs and profiles know.
LEMMA GrowsReflexive ==
    ASSUME NEW S, NEW I, NEW B, ServerOK(S, I, B) PROVE Grows(S, I, B, S, I, B)
<1>1. \A m \in DOMAIN B : Gen(S, B[m]) \in Nat
  BY GenIsNat DEF ServerOK
<1> QED BY <1>1 DEF ServerOK, Grows

LEMMA StillMoves ==
    ASSUME SessionInv, UNCHANGED <<sealed, identities, keystore>>,
           \A p \in Profile : Known(records'[p]) = Known(records[p])
    PROVE  Moves
<1>1. /\ ServerOK(sealed', identities', keystore') /\ sealed \in Seq(Entry)
      /\ Grows(sealed, identities, keystore, sealed', identities', keystore')
  BY GrowsReflexive DEF SessionInv, ServerOK
<1>2. ASSUME NEW p \in Profile
      PROVE  /\ Known(records'[p]) \subseteq 1..Len(sealed')
             /\ \A k \in Known(records[p]) :
                   Succeeds(sealed, keystore, sealed', keystore', Known(records'[p]), k)
  <2>1. Known(records[p]) \subseteq 1..Len(sealed)
    BY KnownBounds DEF SessionInv, RecordsOK
  <2> QED BY <1>1, <2>1, SameSucceeds
<1> QED BY <1>1, <1>2 DEF Moves

\* What a task is, by what it waits for.
LEMMA TaskShapes ==
    ASSUME NEW S, NEW I, NEW B, NEW K, NEW p, NEW task, TaskOK(S, I, B, K, p, task)
    PROVE  /\ task.at \in {"stage", "keep", "adopt"} => Answered(S, I, B, K, p, task)
           /\ task.at = "snapshot" => Snapshots(S, I, B, K, p, task)
           /\ task.at \in {"put", "stored"} => Puts(S, I, B, p, task)
           /\ task.at = "register" => task.sub \in Sub /\ task.api \in Api
           /\ task.at = "ask" => task.api \in Api
<1>1. Simple(task) => /\ task.at \in {"idle", "lock", "ask", "register"}
                      /\ task.at = "register" => task.sub \in Sub /\ task.api \in Api
                      /\ task.at = "ask" => task.api \in Api
  BY DEF Simple, Idle
<1>2. Answered(S, I, B, K, p, task) => task.at \in {"stage", "keep", "adopt"}
  BY DEF Answered
<1>3. Snapshots(S, I, B, K, p, task) => task.at = "snapshot"
  BY DEF Snapshots
<1>4. Puts(S, I, B, p, task) => task.at \in {"put", "stored"}
  BY DEF Puts
<1> QED BY <1>1, <1>2, <1>3, <1>4 DEF TaskOK

\* The tasks that remember nothing.
LEMMA SimpleTasks ==
    /\ Simple(Idle)
    /\ \A b \in BOOLEAN : Simple([at |-> "lock", api |-> "backup", pendingOnly |-> b])
    /\ \A api \in Api : Simple([at |-> "ask", api |-> api])
    /\ \A api \in Api, s \in Sub : Simple([at |-> "register", api |-> api, sub |-> s])
BY DEF Simple

\* A step of tabs alone.
LEMMA TabStepKeeps ==
    ASSUME SessionInv, UNCHANGED <<sealed, identities, keystore, cache, records>>,
           auth' \in [Profile -> Sub \cup {NoSub}], tabs' = [t \in Tab |-> tabs'[t]],
           \A t \in Tab : tabs'[t] = tabs[t] \/ TabNow(t, tabs'[t]),
           \A put \in late' : put \in late \/ UploadOK(sealed, keystore, put)
    PROVE  SessionInv'
<1>1. Moves
  BY StillMoves
<1>2. CachesOK'
  BY DEF SessionInv, CachesOK
<1>3. records' = [p \in Profile |-> records'[p]] /\ \A p \in Profile : records'[p] = records[p]
  BY DEF SessionInv, RecordsOK
<1> QED BY <1>1, <1>2, <1>3, SessionKeeps

\* ... of one tab.
LEMMA OneTabKeeps ==
    ASSUME SessionInv, NEW t \in Tab, NEW tab, tabs' = [tabs EXCEPT ![t] = tab],
           UNCHANGED <<sealed, identities, keystore, cache, records, auth>>,
           IsTab(tab), RecordNow(ProfileOf[t], tab.view), TaskNow(t, tab.task),
           \A put \in late' : put \in late \/ UploadOK(sealed, keystore, put)
    PROVE  SessionInv'
<1>1. tabs = [u \in Tab |-> tabs[u]] /\ auth' \in [Profile -> Sub \cup {NoSub}]
  BY DEF SessionInv, TabsOK
<1>2. tabs' = [u \in Tab |-> tabs'[u]] /\ tabs'[t] = tab /\ \A u \in Tab : u # t => tabs'[u] = tabs[u]
  BY <1>1
<1>3. TabNow(t, tab)
  BY DEF TabNow, TabOK, RecordNow, TaskNow
<1> QED BY <1>1, <1>2, <1>3, TabStepKeeps

\* What holds of a tab and its profile's record while only tabs change.
LEMMA TabFacts ==
    ASSUME SessionInv, UNCHANGED <<sealed, identities, keystore, records>>, NEW t \in Tab
    PROVE  /\ IsTab(tabs[t]) /\ RecordNow(ProfileOf[t], tabs[t].view)
           /\ TaskNow(t, tabs[t].task) /\ RecordNow(ProfileOf[t], Record(t))
           /\ \A task : Simple(task) => TaskNow(t, task)
<1>1. Moves
  BY StillMoves
<1>2. TabNow(t, tabs[t]) /\ RecordNow(ProfileOf[t], Record(t))
  BY <1>1, Carried, ProfileOfTab DEF Record
<1>3. \A task : Simple(task) => TaskNow(t, task)
  BY DEF TaskNow, TaskOK
<1> QED BY <1>2, <1>3 DEF TabNow, TabOK, RecordNow, TaskNow

LEMMA LeavesUpload ==
    ASSUME SessionInv, NEW t \in Tab, LeftBehind(t)
    PROVE  \A put \in late' : put \in late \/ UploadOK(sealed, keystore, put)
<1>1. TaskOK(sealed, identities, keystore, Knows(ProfileOf[t]), ProfileOf[t], tabs[t].task)
  BY DEF SessionInv, TabsOK, TabOK
<1>2. tabs[t].task.at = "put" => UploadOK(sealed, keystore, tabs[t].task.upload)
  BY <1>1, TaskShapes DEF Puts
<1> QED BY <1>2 DEF LeftBehind

-----------------------------------------------------------------------------
(* The steps of tabs alone.                                                *)

LEMMA UnlockKeeps == ASSUME SessionInv, NEW t \in Tab, Unlock(t) PROVE SessionInv'
<1> DEFINE rec == Record(t)
           tab == Settled(tabs[t], rec.key, LocalMember(rec), rec)
<1>1. UNCHANGED <<sealed, identities, keystore, cache, records, auth, late>>
      /\ tabs' = [tabs EXCEPT ![t] = tab]
  BY DEF Unlock, Unsaved, bindVars, calm, SessionInv, TabsOK
<1>2. IsTab(tab) /\ tab.view = rec /\ tab.task = tabs[t].task
  <2>1. IsTab(tabs[t])
    BY <1>1, TabFacts
  <2> QED BY <2>1 DEF Settled, IsTab
<1> HIDE DEF tab, rec
<1> QED BY <1>1, <1>2, TabFacts, OneTabKeeps DEF rec

LEMMA LockKeeps == ASSUME SessionInv, NEW t \in Tab, Lock(t) PROVE SessionInv'
<1> DEFINE tab == [tabs[t] EXCEPT !.handle = NoKeystore, !.me = NoMember]
<1>1. UNCHANGED <<sealed, identities, keystore, cache, records, auth, late>>
      /\ tabs' = [tabs EXCEPT ![t] = tab]
  BY DEF Lock, accountVars, backupVars, bindVars, SessionInv, TabsOK
<1>2. IsTab(tab) /\ tab.view = tabs[t].view /\ tab.task = tabs[t].task
  <2>1. IsTab(tabs[t])
    BY <1>1, TabFacts
  <2> QED BY <2>1 DEF IsTab
<1> HIDE DEF tab
<1> QED BY <1>1, <1>2, TabFacts, OneTabKeeps

LEMMA ReopenKeeps == ASSUME SessionInv, NEW t \in Tab, Reopen(t) PROVE SessionInv'
<1> DEFINE tab == Fresh(Record(t))
<1>1. UNCHANGED <<sealed, identities, keystore, cache, records, auth>>
      /\ tabs' = [tabs EXCEPT ![t] = tab] /\ LeftBehind(t)
  BY DEF Reopen, accountVars, backupVars, bindVars
<1>2. IsTab(tab) /\ tab.view = Record(t) /\ tab.task = Idle
  BY DEF Fresh, IsTab
<1> HIDE DEF tab
<1>3. RecordNow(ProfileOf[t], tab.view) /\ TaskNow(t, tab.task)
  BY <1>1, <1>2, TabFacts, SimpleTasks
<1> QED BY <1>1, <1>2, <1>3, LeavesUpload, OneTabKeeps

\* Every tab of a profile hears of another subject, and one may have its task ended.
LEMMA HeardKeeps ==
    ASSUME SessionInv, NEW t \in Tab, NEW tab, tab = tabs[t] \/ tab = [tabs[t] EXCEPT !.task = Idle],
           NEW s \in Sub \cup {NoSub}, auth' = [auth EXCEPT ![ProfileOf[t]] = s],
           \/ tabs' = Heard(t, tab)
           \/ \E c : tabs' = [Heard(t, tab) EXCEPT ![t].conflict = c],
           UNCHANGED <<accountVars, records, late>>
    PROVE  SessionInv'
<1>1. UNCHANGED <<sealed, identities, keystore, cache, records, late>>
  BY DEF accountVars, backupVars, bindVars
<1>2. auth' \in [Profile -> Sub \cup {NoSub}]
  BY ProfileOfTab DEF SessionInv
<1>3. \A u \in Tab : IsTab(tabs[u])
  BY DEF SessionInv, TabsOK, TabOK
<1>4. IsTab(tab) /\ tab.view = tabs[t].view /\ tab.task \in {tabs[t].task, Idle}
  <2>1. CASE tab = tabs[t]
    BY <1>3, <2>1
  <2>2. CASE tab = [tabs[t] EXCEPT !.task = Idle]
    <3>1. IsTab(tabs[t])
      BY <1>3
    <3> QED BY <2>2, <3>1 DEF IsTab, Idle
  <2> QED BY <2>1, <2>2
<1> DEFINE H == Heard(t, tab)
<1>6. \A u \in Tab : IsTab(H[u]) /\ H[u].view = tabs[u].view /\ H[u].task \in {tabs[u].task, Idle}
  <2> SUFFICES ASSUME NEW u \in Tab
               PROVE IsTab(H[u]) /\ H[u].view = tabs[u].view /\ H[u].task \in {tabs[u].task, Idle}
    OBVIOUS
  <2> DEFINE x == IF u = t THEN tab ELSE tabs[u]
  <2>1. IsTab(x) /\ x.view = tabs[u].view /\ x.task \in {tabs[u].task, Idle}
    BY <1>3, <1>4
  <2>2. H[u] = IF ProfileOf[u] # ProfileOf[t] THEN tabs[u]
               ELSE [x EXCEPT !.conflict = FALSE, !.kept = FALSE]
    BY DEF Heard
  <2> HIDE DEF x, H
  <2>3. /\ IsTab([x EXCEPT !.conflict = FALSE, !.kept = FALSE])
        /\ [x EXCEPT !.conflict = FALSE, !.kept = FALSE].view = x.view
        /\ [x EXCEPT !.conflict = FALSE, !.kept = FALSE].task = x.task
    BY <2>1 DEF IsTab
  <2> QED BY <1>3, <2>1, <2>2, <2>3
<1>7. /\ tabs' = [u \in Tab |-> tabs'[u]]
      /\ \A u \in Tab : /\ IsTab(tabs'[u]) /\ tabs'[u].view = tabs[u].view
                        /\ tabs'[u].task \in {tabs[u].task, Idle}
  <2>0. H = [u \in Tab |-> H[u]]
    BY DEF Heard
  <2> HIDE DEF H
  <2>1. CASE tabs' = H
    BY <1>6, <2>0, <2>1
  <2>2. ASSUME NEW c, tabs' = [H EXCEPT ![t].conflict = c]
        PROVE  /\ tabs' = [u \in Tab |-> tabs'[u]]
               /\ \A u \in Tab : /\ IsTab(tabs'[u]) /\ tabs'[u].view = tabs[u].view
                                 /\ tabs'[u].task \in {tabs[u].task, Idle}
    <3> DEFINE e == [H[t] EXCEPT !.conflict = c]
    <3>1. IsTab(e) /\ e.view = H[t].view /\ e.task = H[t].task
      <4>1. IsTab(H[t])
        BY <1>6
      <4> QED BY <4>1 DEF IsTab
    <3>2. tabs' = [H EXCEPT ![t] = e]
      BY <2>0, <2>2
    <3> HIDE DEF e
    <3> QED BY <1>6, <2>0, <3>1, <3>2
  <2> QED BY <2>1, <2>2 DEF H
<1>8. \A u \in Tab : TabNow(u, tabs'[u])
  <2> HIDE DEF H
  <2> SUFFICES ASSUME NEW u \in Tab PROVE TabNow(u, tabs'[u])
    OBVIOUS
  <2>1. RecordNow(ProfileOf[u], tabs[u].view) /\ TaskNow(u, tabs[u].task) /\ TaskNow(u, Idle)
    BY <1>1, TabFacts, SimpleTasks
  <2>2. RecordNow(ProfileOf[u], tabs'[u].view) /\ TaskNow(u, tabs'[u].task)
    BY <1>7, <2>1
  <2> QED BY <1>7, <2>2 DEF TabNow, TabOK, RecordNow, TaskNow
<1> QED BY <1>1, <1>2, <1>7, <1>8, TabStepKeeps

LEMMA AuthChangeKeeps ==
    ASSUME SessionInv, NEW t \in Tab, NEW s \in Sub \cup {NoSub}, AuthChange(t, s)
    PROVE  SessionInv'
BY HeardKeeps DEF AuthChange

LEMMA ProbeOfAnotherKeeps ==
    ASSUME SessionInv, NEW t \in Tab, ProbeOfAnother(t) PROVE SessionInv'
<1>1. PICK s \in Sub \cup {NoSub} :
         /\ auth' = [auth EXCEPT ![ProfileOf[t]] = s]
         /\ tabs' = [Heard(t, [tabs[t] EXCEPT !.task = Idle]) EXCEPT ![t].conflict = s # NoSub]
  BY DEF ProbeOfAnother
<1>2. UNCHANGED <<accountVars, records, late>>
  BY DEF ProbeOfAnother
<1> DEFINE tab == [tabs[t] EXCEPT !.task = Idle]
<1>3. \E c : tabs' = [Heard(t, tab) EXCEPT ![t].conflict = c]
  BY <1>1
<1> QED BY <1>1, <1>2, <1>3, HeardKeeps

\* A step of one tab's task.
LEMMA StepKeeps ==
    ASSUME SessionInv, NEW t \in Tab, NEW task, Step(t, task), TaskNow(t, task),
           UNCHANGED <<sealed, identities, keystore, cache, records, auth>>,
           \A put \in late' : put \in late \/ UploadOK(sealed, keystore, put)
    PROVE  SessionInv'
<1> DEFINE tab == [tabs[t] EXCEPT !.task = task]
<1>1. tabs' = [tabs EXCEPT ![t] = tab]
  BY DEF Step, SessionInv, TabsOK
<1>2. IsTab(tabs[t]) /\ RecordNow(ProfileOf[t], tabs[t].view)
  BY TabFacts
<1>3. IsTab(tab) /\ tab.view = tabs[t].view /\ tab.task = task
  BY <1>2 DEF IsTab
<1> HIDE DEF tab
<1> QED BY <1>1, <1>2, <1>3, OneTabKeeps

LEMMA QuitKeeps ==
    ASSUME SessionInv, NEW t \in Tab, Quit(t),
           UNCHANGED <<sealed, identities, keystore, cache, records, auth>>,
           \A put \in late' : put \in late \/ UploadOK(sealed, keystore, put)
    PROVE  SessionInv'
<1>1. Step(t, Idle)
  BY DEF Quit, Step
<1>2. TaskNow(t, Idle)
  BY SimpleTasks, TabFacts
<1> QED BY <1>1, <1>2, StepKeeps

LEMMA ConflictKeeps ==
    ASSUME SessionInv, NEW t \in Tab, Conflict(t),
           UNCHANGED <<sealed, identities, keystore, cache, records, auth, late>>
    PROVE  SessionInv'
<1> DEFINE tab == [tabs[t] EXCEPT !.task = Idle, !.conflict = TRUE]
<1>1. tabs' = [tabs EXCEPT ![t] = tab]
  BY DEF Conflict, SessionInv, TabsOK
<1>2. IsTab(tabs[t]) /\ RecordNow(ProfileOf[t], tabs[t].view) /\ TaskNow(t, Idle)
  BY TabFacts, SimpleTasks
<1>3. IsTab(tab) /\ tab.view = tabs[t].view /\ tab.task = Idle
  BY <1>2 DEF IsTab, Idle
<1> HIDE DEF tab
<1> QED BY <1>1, <1>2, <1>3, OneTabKeeps

LEMMA NoAnswerIs ==
    ASSUME UNCHANGED NoAnswer
    PROVE  /\ UNCHANGED <<sealed, identities, keystore, cache, records, auth, late>>
           /\ \A put \in late' : put \in late \/ UploadOK(sealed, keystore, put)
BY DEF NoAnswer, accountVars, backupVars, bindVars, calm

LEMMA UploadingFacts ==
    ASSUME NEW t, NEW tab, IsTab(tab)
    PROVE  LET up == Uploading(t, tab)
           IN  IsTab(up) /\ up.view = tab.view /\ Simple(up.task)
<1> DEFINE may == tab.view # NoRecord /\ tab.view.pending # NoPending /\ CanRetry(t, tab)
           task == IF may THEN [at |-> "lock", api |-> "backup", pendingOnly |-> TRUE] ELSE Idle
<1>1. Simple(task)
  BY SimpleTasks
<1>2. Uploading(t, tab) = [tab EXCEPT !.task = task]
  BY DEF Uploading
<1> HIDE DEF task
<1>3. IsTab([tab EXCEPT !.task = task]) /\ [tab EXCEPT !.task = task].view = tab.view
      /\ [tab EXCEPT !.task = task].task = task
  BY DEF IsTab
<1> QED BY <1>1, <1>2, <1>3

LEMMA CallKeeps ==
    ASSUME SessionInv, NEW t \in Tab, NEW api \in Api, Call(t, api) PROVE SessionInv'
<1>1. /\ UNCHANGED <<sealed, identities, keystore, cache, records, auth, late>>
      /\ \A put \in late' : put \in late \/ UploadOK(sealed, keystore, put)
  BY NoAnswerIs DEF Call
<1>2. CASE api = "backup"
  <2> DEFINE task == [at |-> "lock", api |-> api, pendingOnly |-> FALSE]
  <2>1. Step(t, task) /\ TaskNow(t, task)
    BY <1>1, <1>2, TabFacts, SimpleTasks DEF Call
  <2> HIDE DEF task
  <2> QED BY <1>1, <2>1, StepKeeps
<1>3. CASE api = "retryPending"
  <2> DEFINE tab == [tabs[t] EXCEPT !.view = Record(t)]
             up == Uploading(t, tab)
  <2>1. tabs' = [tabs EXCEPT ![t] = up]
    BY <1>3 DEF Call
  <2>2. IsTab(tabs[t]) /\ RecordNow(ProfileOf[t], Record(t))
        /\ \A task : Simple(task) => TaskNow(t, task)
    BY <1>1, TabFacts
  <2>3. IsTab(tab) /\ tab.view = Record(t)
    BY <2>2 DEF IsTab
  <2> HIDE DEF tab
  <2>4. IsTab(up) /\ up.view = Record(t) /\ Simple(up.task)
    BY <2>3, UploadingFacts
  <2> HIDE DEF up
  <2> QED BY <1>1, <2>1, <2>2, <2>4, OneTabKeeps
<1>4. CASE api \notin {"backup", "retryPending"}
  <2> DEFINE task == [at |-> "ask", api |-> api]
  <2>1. Step(t, task)
    BY <1>4 DEF Call
  <2>2. TaskNow(t, task)
    BY <1>1, TabFacts, SimpleTasks
  <2> HIDE DEF task
  <2> QED BY <1>1, <2>1, <2>2, StepKeeps
<1> QED BY <1>2, <1>3, <1>4

LEMMA EnterBackupKeeps ==
    ASSUME SessionInv, NEW t \in Tab, EnterBackup(t) PROVE SessionInv'
<1> DEFINE tab == [tabs[t] EXCEPT !.view = Record(t)]
           goes == /\ tab.me # NoMember /\ tab.view # NoRecord /\ Subject(t) # NoSub
                   /\ ~(tab.task.pendingOnly /\ tab.view.pending = NoPending)
           task == IF goes THEN [at |-> "ask", api |-> "backup"] ELSE Idle
           next == [tab EXCEPT !.task = task]
<1>1. /\ UNCHANGED <<sealed, identities, keystore, cache, records, auth, late>>
      /\ \A put \in late' : put \in late \/ UploadOK(sealed, keystore, put)
  BY NoAnswerIs DEF EnterBackup
<1>2. tabs' = [tabs EXCEPT ![t] = next]
  BY DEF EnterBackup
<1>3. IsTab(tabs[t]) /\ RecordNow(ProfileOf[t], Record(t)) /\ \A x : Simple(x) => TaskNow(t, x)
  BY <1>1, TabFacts
<1>4. Simple(task)
  BY SimpleTasks DEF Api
<1>5. IsTab(tab) /\ tab.view = Record(t)
  BY <1>3 DEF IsTab
<1> HIDE DEF tab, task
<1>6. IsTab(next) /\ next.view = tab.view /\ next.task = task
  BY <1>5 DEF IsTab
<1> HIDE DEF next
<1> QED BY <1>1, <1>2, <1>3, <1>4, <1>5, <1>6, OneTabKeeps

LEMMA KeepKeeps == ASSUME SessionInv, NEW t \in Tab, Keep(t) PROVE SessionInv'
<1>1. /\ UNCHANGED <<sealed, identities, keystore, cache, records, auth, late>>
      /\ \A put \in late' : put \in late \/ UploadOK(sealed, keystore, put)
  BY NoAnswerIs DEF Keep
<1> DEFINE tab == [tabs[t] EXCEPT !.task = Idle, !.conflict = FALSE, !.kept = TRUE]
<1>2. CASE Quit(t)
  BY <1>1, <1>2, QuitKeeps
<1>3. CASE tabs' = [tabs EXCEPT ![t] = tab]
  <2>1. IsTab(tabs[t]) /\ RecordNow(ProfileOf[t], tabs[t].view) /\ TaskNow(t, Idle)
    BY <1>1, TabFacts, SimpleTasks
  <2>2. IsTab(tab) /\ tab.view = tabs[t].view /\ tab.task = Idle
    BY <2>1 DEF IsTab, Idle
  <2> HIDE DEF tab
  <2> QED BY <1>1, <1>3, <2>1, <2>2, OneTabKeeps
<1>4. Quit(t) \/ tabs' = [tabs EXCEPT ![t] = tab]
  BY DEF Keep, SessionInv, TabsOK
<1> QED BY <1>2, <1>3, <1>4

LEMMA FailsKeeps == ASSUME SessionInv, NEW t \in Tab, Fails(t) PROVE SessionInv'
<1>1. Quit(t) /\ LeftBehind(t) /\ UNCHANGED <<sealed, identities, keystore, cache, records, auth>>
  BY DEF Fails, accountVars, backupVars, bindVars
<1> QED BY <1>1, LeavesUpload, QuitKeeps

\* The tab that holds the active keystore, staged, uploads it over a tag it follows.
LEMMA SnapshotIsAnUpload ==
    ASSUME SessionInv, NEW t \in Tab, tabs[t].task.at = "snapshot",
           Handle(t) # NoKeystore, Handle(t) = tabs[t].task.expected.key
    PROVE  LET task == tabs[t].task
               upload == [member |-> identities[task.sub], key |-> Handle(t), ifMatch |-> task.backup]
           IN  Puts(sealed, identities, keystore, ProfileOf[t],
                    [at |-> "put", sub |-> task.sub, expected |-> task.expected, upload |-> upload])
<1> DEFINE task == tabs[t].task
           m == identities[task.sub]
           k == Handle(t)
           b == task.backup
           p == ProfileOf[t]
           rec == Record(t)
           upload == [member |-> m, key |-> k, ifMatch |-> b]
<1>1. Snapshots(sealed, identities, keystore, Knows(p), p, task)
  BY TaskShapes DEF SessionInv, TabsOK, TabOK
<1>2. /\ task.sub \in DOMAIN identities /\ task.expected.kind # "none"
      /\ PendingOK(sealed, p, task.expected, m) /\ Tracked(sealed, keystore, Knows(p), p, b)
      /\ AnswerOK(sealed, identities, keystore, task.sub, m, b)
  BY <1>1 DEF Snapshots
<1>3. k \in 1..Len(sealed) /\ sealed[k].member = m /\ p \in sealed[k].on
  BY <1>2 DEF PendingOK
<1>4. m \in DOMAIN keystore /\ b \in 0..Len(sealed)
  BY <1>2 DEF SessionInv, ServerOK, AnswerOK
<1>5. k = rec.key /\ rec # NoRecord
  BY DEF Handle, NoRecord
<1>6. rec = records[p] /\ \A j \in rec.retained : sealed[j].member # sealed[rec.key].member
  BY <1>5, ProfileOfTab DEF SessionInv, RecordsOK, RecordOK, Record
<1>7. ASSUME b # NoKeystore
      PROVE  /\ sealed[b].member = m
             /\ Meets(sealed, k, b) \/ Gen(sealed, b) < Gen(sealed, keystore[m])
  <2>1. sealed[b].member = m
    BY <1>2, <1>7 DEF AnswerOK
  <2>2. CASE p \in sealed[b].on
    BY <1>3, <2>1, <2>2 DEF Meets
  <2>3. CASE Gen(sealed, b) < Gen(sealed, keystore[sealed[b].member])
    BY <2>1, <2>3
  <2>4. ASSUME NEW j \in Knows(p), sealed[j].member = sealed[b].member, From(sealed, j, b)
        PROVE  Meets(sealed, k, b)
    <3>1. j = k
      BY <1>3, <1>5, <1>6, <2>1, <2>4 DEF Knows, Known
    <3> QED BY <2>4, <3>1 DEF Meets
  <2> QED BY <1>2, <1>7, <2>1, <2>2, <2>3, <2>4 DEF Tracked
<1>8. UploadOK(sealed, keystore, upload)
  <2> HIDE DEF m, k, b
  <2> QED BY <1>3, <1>4, <1>7 DEF UploadOK
<1> HIDE DEF m, k, b, task, p, rec
<1>9. k = task.expected.key
  BY DEF k, task
<1>10. Puts(sealed, identities, keystore, p,
            [at |-> "put", sub |-> task.sub, expected |-> task.expected, upload |-> upload])
  BY <1>2, <1>8, <1>9 DEF Puts, m
<1> QED BY <1>10 DEF m, k, b, task, p

LEMMA SnapshotKeeps == ASSUME SessionInv, NEW t \in Tab, Snapshot(t) PROVE SessionInv'
<1>1. /\ UNCHANGED <<sealed, identities, keystore, cache, records, auth, late>>
      /\ \A put \in late' : put \in late \/ UploadOK(sealed, keystore, put)
  BY NoAnswerIs DEF Snapshot
<1>2. CASE Handle(t) = NoKeystore
  <2>1. Quit(t)
    BY <1>2 DEF Snapshot
  <2> QED BY <1>1, <2>1, QuitKeeps
<1>3. CASE Handle(t) # NoKeystore /\ Handle(t) # tabs[t].task.expected.key
  <2> DEFINE task == [at |-> "ask", api |-> "backup"]
             tab == [tabs[t] EXCEPT !.view = Record(t), !.task = task]
  <2>1. tabs' = [tabs EXCEPT ![t] = tab]
    BY <1>3 DEF Snapshot, SessionInv, TabsOK
  <2>2. IsTab(tabs[t]) /\ RecordNow(ProfileOf[t], Record(t)) /\ TaskNow(t, task)
    BY <1>1, TabFacts, SimpleTasks DEF Api
  <2> HIDE DEF task
  <2>3. IsTab(tab) /\ tab.view = Record(t) /\ tab.task = task
    BY <2>2 DEF IsTab
  <2> HIDE DEF tab
  <2> QED BY <1>1, <2>1, <2>2, <2>3, OneTabKeeps
<1>4. CASE Handle(t) # NoKeystore /\ Handle(t) = tabs[t].task.expected.key
  <2> DEFINE upload == [member |-> identities[tabs[t].task.sub], key |-> Handle(t),
                        ifMatch |-> tabs[t].task.backup]
             task == [at |-> "put", sub |-> tabs[t].task.sub,
                      expected |-> tabs[t].task.expected, upload |-> upload]
  <2>1. Step(t, task)
    BY <1>4 DEF Snapshot
  <2>2. Puts(sealed, identities, keystore, ProfileOf[t], task)
    BY <1>4, SnapshotIsAnUpload DEF Snapshot
  <2> HIDE DEF task
  <2>3. TaskNow(t, task)
    BY <1>1, <2>2 DEF TaskNow, TaskOK
  <2> QED BY <1>1, <2>1, <2>3, StepKeeps
<1> QED BY <1>2, <1>3, <1>4

-----------------------------------------------------------------------------
(* The steps that write a record and leave the keystores it knows.         *)

\* What holds of a tab and of its profile's record.
RecordHere(t, r) ==
    RecordOK(sealed, identities, keystore, Knows(ProfileOf[t]), ProfileOf[t], r)
TaskHere(t, task) ==
    TaskOK(sealed, identities, keystore, Knows(ProfileOf[t]), ProfileOf[t], task)

LEMMA TabHere ==
    ASSUME SessionInv, NEW t \in Tab
    PROVE  /\ ProfileOf[t] \in Profile /\ ServerOK(sealed, identities, keystore)
           /\ IsTab(tabs[t]) /\ RecordHere(t, tabs[t].view) /\ TaskHere(t, tabs[t].task)
           /\ RecordHere(t, Record(t)) /\ Subject(t) \in Sub \cup {NoSub}
BY ProfileOfTab
   DEF SessionInv, TabsOK, TabOK, RecordsOK, RecordHere, TaskHere, Record, Subject

LEMMA RecordStepKeeps ==
    ASSUME SessionInv, NEW t \in Tab, NEW rec, NEW tab,
           records' = [records EXCEPT ![ProfileOf[t]] = rec], tabs' = [tabs EXCEPT ![t] = tab],
           UNCHANGED <<sealed, identities, keystore, cache, auth, late>>,
           Known(rec) = Known(Record(t)), RecordHere(t, rec),
           IsTab(tab), RecordHere(t, tab.view), TaskHere(t, tab.task)
    PROVE  SessionInv'
<1> DEFINE q == ProfileOf[t]
<1>1. q \in Profile /\ records = [p \in Profile |-> records[p]] /\ tabs = [u \in Tab |-> tabs[u]]
  BY ProfileOfTab DEF SessionInv, RecordsOK, TabsOK
<1>2. /\ records' = [p \in Profile |-> records'[p]]
      /\ \A p \in Profile : records'[p] = IF p = q THEN rec ELSE records[p]
  BY <1>1
<1>3. /\ tabs' = [u \in Tab |-> tabs'[u]]
      /\ \A u \in Tab : tabs'[u] = IF u = t THEN tab ELSE tabs[u]
  BY <1>1
<1>4. \A p \in Profile : Known(records'[p]) = Known(records[p])
  BY <1>2 DEF Record
<1>5. Moves
  BY <1>4, StillMoves
<1>6. Known(records'[q]) = Knows(q)
  BY <1>1, <1>4 DEF Knows
<1>7. RecordNow(q, rec)
  BY <1>6 DEF RecordNow, RecordHere
<1>8. TabNow(t, tab)
  BY <1>6 DEF TabNow, TabOK, RecordHere, TaskHere
<1>9. CachesOK' /\ auth' \in [Profile -> Sub \cup {NoSub}]
  BY DEF SessionInv, CachesOK
<1>10. \A p \in Profile : records'[p] = records[p] \/ RecordNow(p, records'[p])
  BY <1>2, <1>7
<1>11. \A u \in Tab : tabs'[u] = tabs[u] \/ TabNow(u, tabs'[u])
  BY <1>3, <1>8
<1> QED BY <1>2, <1>3, <1>5, <1>9, <1>10, <1>11, SessionKeeps

\* A binding the probe proved.
LEMMA ConfirmedStands ==
    ASSUME NEW S, NEW I, NEW B, NEW K, NEW p, NEW r, RecordOK(S, I, B, K, p, r), r # NoRecord,
           NEW sub \in Sub, sub \in DOMAIN I, I[sub] = S[r.key].member
    PROVE  RecordOK(S, I, B, K, p, Confirmed(r, sub)) /\ Known(Confirmed(r, sub)) = Known(r)
<1> DEFINE r2 == [r EXCEPT !.bound = sub, !.acked = NoKeystore, !.pending = NoPending]
<1>1. CASE r.bound = sub
  BY <1>1 DEF Confirmed
<1>2. CASE r.bound # sub
  <2>1. r \in FullRecord(Len(S))
    BY DEF RecordOK
  <2>2. /\ r2.key = r.key /\ r2.retained = r.retained /\ r2.bound = sub
        /\ r2.acked = NoKeystore /\ r2.pending = NoPending
        /\ r2 \in FullRecord(Len(S))
    <3>1. NoPending \in Pending
      BY DEF NoPending, Pending, NoKeystore
    <3>2. r.key \in 1..Len(S) /\ r.acked \in 0..Len(S)
      BY <2>1 DEF FullRecord
    <3>3. NoKeystore \in 0..Len(S)
      BY <3>2 DEF NoKeystore
    <3> QED BY <2>1, <3>1, <3>3 DEF FullRecord
  <2>3. Confirmed(r, sub) = r2 /\ sub # NoSub
    BY <1>2, SessionAssumption DEF Confirmed
  <2> HIDE DEF r2
  <2>4. r2.key \in 1..Len(S) /\ r.key \in 1..Len(S)
    BY <2>1, <2>2 DEF FullRecord
  <2>5. r2 # NoRecord
    BY <2>4, <2>2 DEF NoRecord, NoKeystore
  <2>6. Known(r2) = Known(r)
    BY <2>2, <2>5 DEF Known
  <2>7. RecordOK(S, I, B, K, p, r2)
    BY <2>2, <2>3 DEF RecordOK, PendingOK, NoPending
  <2> QED BY <2>3, <2>6, <2>7
<1> QED BY <1>1, <1>2

\* An upload staged is of the active keystore, or a revocation that stands.
LEMMA StagedStands ==
    ASSUME NEW S, NEW I, NEW B, NEW K, NEW p, NEW r, RecordOK(S, I, B, K, p, r), r # NoRecord,
           r.bound # NoSub
    PROVE  /\ RecordOK(S, I, B, K, p, Staged(r)) /\ Known(Staged(r)) = Known(r)
           /\ Staged(r).bound = r.bound /\ Staged(r).pending.kind # "none"
           /\ PendingOK(S, p, Staged(r).pending, I[r.bound])
<1> DEFINE r2 == [r EXCEPT !.pending = [kind |-> "backup", key |-> r.key]]
<1>1. CASE Staged(r) = r /\ r.pending.kind = "revoke"
  BY <1>1 DEF RecordOK
<1>2. CASE Staged(r) = r2
  <2>1. r \in FullRecord(Len(S))
    BY DEF RecordOK
  <2>2. /\ r2.key = r.key /\ r2.retained = r.retained /\ r2.bound = r.bound
        /\ r2.acked = r.acked /\ r2.pending = [kind |-> "backup", key |-> r.key]
        /\ r2 \in FullRecord(Len(S))
    <3>1. [kind |-> "backup", key |-> r.key] \in Pending
      BY <2>1 DEF FullRecord, Pending
    <3> QED BY <2>1, <3>1 DEF FullRecord
  <2> HIDE DEF r2
  <2>3. r2.key \in 1..Len(S) /\ r.key \in 1..Len(S)
    BY <2>1, <2>2 DEF FullRecord
  <2>4. r2 # NoRecord
    BY <2>3, <2>2 DEF NoRecord, NoKeystore
  <2>5. Known(r2) = Known(r)
    BY <2>2, <2>4 DEF Known
  <2>6. PendingOK(S, p, r2.pending, S[r.key].member) /\ I[r.bound] = S[r.key].member
    BY <2>2, <2>3 DEF PendingOK, RecordOK
  <2>7. RecordOK(S, I, B, K, p, r2)
    BY <2>2, <2>6 DEF RecordOK
  <2> QED BY <1>2, <2>2, <2>5, <2>6, <2>7
<1>3. (Staged(r) = r /\ r.pending.kind = "revoke") \/ Staged(r) = r2
  BY DEF Staged
<1> QED BY <1>1, <1>2, <1>3

\* What is acknowledged is of this identity, and the server's is as new.
LEMMA AcknowledgedStands ==
    ASSUME NEW S, NEW I, NEW B, NEW K, NEW p, NEW r, RecordOK(S, I, B, K, p, r),
           NEW expected, NEW member, expected.kind # "none", PendingOK(S, p, expected, member),
           Gen(S, expected.key) <= Gen(S, B[member])
    PROVE  /\ RecordOK(S, I, B, K, p, Acknowledged(r, expected))
           /\ Known(Acknowledged(r, expected)) = Known(r)
<1> DEFINE r2 == [r EXCEPT !.acked = expected.key, !.pending = NoPending]
<1>1. CASE Acknowledged(r, expected) = r
  BY <1>1
<1>2. CASE r = NoRecord /\ Acknowledged(r, expected) = r2
  <2>1. r2 = r
    BY <1>2 DEF NoRecord
  <2> QED BY <1>2, <2>1
<1>3. CASE r # NoRecord /\ r.pending = expected /\ Acknowledged(r, expected) = r2
  <2>1. r \in FullRecord(Len(S)) /\ expected.key \in 1..Len(S) /\ r.bound # NoSub
    BY <1>3 DEF RecordOK, PendingOK, NoPending
  <2>2. /\ r2.key = r.key /\ r2.retained = r.retained /\ r2.bound = r.bound
        /\ r2.acked = expected.key /\ r2.pending = NoPending
        /\ r2 \in FullRecord(Len(S))
    <3>1. NoPending \in Pending /\ expected.key \in 0..Len(S)
      BY <2>1 DEF NoPending, Pending, NoKeystore
    <3> QED BY <2>1, <3>1 DEF FullRecord
  <2> HIDE DEF r2
  <2>3. r2.key \in 1..Len(S) /\ r.key \in 1..Len(S)
    BY <2>1, <2>2 DEF FullRecord
  <2>4. r2 # NoRecord
    BY <2>3, <2>2 DEF NoRecord, NoKeystore
  <2>5. Known(r2) = Known(r)
    BY <1>3, <2>2, <2>4 DEF Known
  <2>6. S[expected.key].member = S[r.key].member /\ S[expected.key].member = member
        /\ p \in S[expected.key].on
    BY <1>3 DEF RecordOK, PendingOK
  <2>7. RecordOK(S, I, B, K, p, r2)
    <3>1. Tracked(S, B, K, p, r2.acked)
      BY <2>2, <2>6 DEF Tracked
    <3>2. PendingOK(S, p, r2.pending, S[r2.key].member) /\ r2.pending.kind # "revoke"
      BY <2>2 DEF PendingOK, NoPending
    <3> QED BY <1>3, <2>1, <2>2, <2>6, <3>1, <3>2 DEF RecordOK
  <2> QED BY <1>3, <2>5, <2>7
<1>4. \/ Acknowledged(r, expected) = r
      \/ r.pending = expected /\ Acknowledged(r, expected) = r2
  BY DEF Acknowledged
<1> QED BY <1>1, <1>2, <1>3, <1>4

\* What an operation does after its probe: nothing that remembers more than the answer.
LEMMA AfterForms ==
    ASSUME NEW t, NEW task, NEW ok \in BOOLEAN, task.api \in Api
    PROVE  LET next(at) == [at |-> at, api |-> task.api, sub |-> task.sub,
                            member |-> task.member, backup |-> task.backup]
           IN  \/ After(t, task, ok) = Idle
               \/ After(t, task, ok) = [at |-> "register", api |-> task.api, sub |-> task.sub]
               \/ After(t, task, ok) = [at |-> "lock", api |-> "backup", pendingOnly |-> FALSE]
               \/ After(t, task, ok) = next("keep")
               \/ After(t, task, ok) = next("adopt") /\ task.backup # NoKeystore
               \/ After(t, task, ok) = next("stage") /\ ok /\ task.member # NoMember
<1>1. CASE task.api = "probe"
  BY <1>1 DEF After
<1>2. CASE task.api \in {"register", "enableSync"}
  BY <1>2 DEF After
<1>3. CASE task.api = "backup"
  BY <1>3 DEF After
<1>4. CASE task.api = "keepLocalOffline"
  BY <1>4 DEF After
<1>5. CASE task.api \in {"retryPending", "restore", "adoptRemoteIdentity"}
  BY <1>5 DEF After
<1> QED BY <1>1, <1>2, <1>3, <1>4, <1>5 DEF Api

LEMMA AfterStands ==
    ASSUME NEW S, NEW I, NEW B, NEW K, NEW p, NEW t, NEW task, NEW ok \in BOOLEAN,
           task.api \in Api, AnswerOK(S, I, B, task.sub, task.member, task.backup),
           ok /\ task.member # NoMember => Tracked(S, B, K, p, task.backup)
    PROVE  TaskOK(S, I, B, K, p, After(t, task, ok))
<1> DEFINE next(at) == [at |-> at, api |-> task.api, sub |-> task.sub,
                        member |-> task.member, backup |-> task.backup]
<1>1. Simple(After(t, task, ok)) => TaskOK(S, I, B, K, p, After(t, task, ok))
  BY DEF TaskOK
<1>2. \A at : /\ next(at).at = at /\ next(at).sub = task.sub
              /\ next(at).member = task.member /\ next(at).backup = task.backup
              /\ next(at) = [at |-> next(at).at, api |-> next(at).api, sub |-> next(at).sub,
                             member |-> next(at).member, backup |-> next(at).backup]
  OBVIOUS
<1>3. task.sub \in Sub
  BY DEF AnswerOK
<1> HIDE DEF next
<1>4. CASE After(t, task, ok) = next("keep")
  <2>1. Answered(S, I, B, K, p, next("keep"))
    BY <1>2 DEF Answered
  <2> QED BY <1>4, <2>1 DEF TaskOK
<1>5. CASE After(t, task, ok) = next("adopt") /\ task.backup # NoKeystore
  <2>1. Answered(S, I, B, K, p, next("adopt"))
    BY <1>2, <1>5 DEF Answered
  <2> QED BY <1>5, <2>1 DEF TaskOK
<1>6. CASE After(t, task, ok) = next("stage") /\ ok /\ task.member # NoMember
  <2>1. Answered(S, I, B, K, p, next("stage"))
    BY <1>2, <1>6 DEF Answered
  <2> QED BY <1>6, <2>1 DEF TaskOK
<1>7. CASE \/ After(t, task, ok) = Idle
           \/ After(t, task, ok) = [at |-> "register", api |-> task.api, sub |-> task.sub]
           \/ After(t, task, ok) = [at |-> "lock", api |-> "backup", pendingOnly |-> FALSE]
  BY <1>1, <1>3, <1>7, SimpleTasks
<1> QED BY <1>4, <1>5, <1>6, <1>7, AfterForms DEF next

\* The tag of an answer a record reconciles with.
LEMMA ReconciledIsTracked ==
    ASSUME NEW S, NEW I, NEW B, NEW K, NEW p, NEW r, RecordOK(S, I, B, K, p, r),
           NEW task, Reconciles(r, task), task.member # NoMember
    PROVE  Tracked(S, B, K, p, task.backup)
<1>1. r # NoRecord
  BY DEF Reconciles, BindingAgrees
<1>2. CASE task.backup = NoKeystore
  BY <1>2 DEF Tracked
<1>3. CASE task.backup = r.key
  BY <1>1, <1>3 DEF RecordOK, Tracked
<1>4. CASE r.acked = task.backup /\ task.backup # NoKeystore
  BY <1>1, <1>4 DEF RecordOK
<1> QED BY <1>1, <1>2, <1>3, <1>4 DEF Reconciles, PendingFromCheckpoint

LEMMA AnswerStands ==
    ASSUME SessionInv, NEW t \in Tab, Subject(t) # NoSub
    PROVE  LET task == Answer(t)
           IN  /\ task.api = tabs[t].task.api /\ task.sub = Subject(t)
               /\ AnswerOK(sealed, identities, keystore, task.sub, task.member, task.backup)
<1> DEFINE s == Subject(t)
           m == Answer(t).member
           b == Answer(t).backup
<1>1. Answer(t).api = tabs[t].task.api /\ Answer(t).sub = s /\ s \in Sub
  BY TabHere DEF Answer
<1>2. CASE s \in DOMAIN identities
  <2>1. m = identities[s] /\ b = keystore[m]
    BY <1>2, SessionAssumption DEF Answer, SessionInv, ServerOK
  <2>2. /\ m \in MemberId /\ m \in DOMAIN keystore /\ b \in 0..Len(sealed)
        /\ b # NoKeystore => sealed[b].member = m
    BY <1>2, <2>1 DEF SessionInv, ServerOK
  <2>3. Gen(sealed, b) \in Nat
    BY <2>2, GenIsNat DEF SessionInv, ServerOK
  <2> HIDE DEF s, m, b
  <2>4. m # NoMember
    BY <2>2, SessionAssumption
  <2>5. Gen(sealed, b) <= Gen(sealed, keystore[m])
    BY <2>1, <2>3
  <2>6. AnswerOK(sealed, identities, keystore, s, m, b)
    BY <1>1, <1>2, <2>1, <2>2, <2>4, <2>5 DEF AnswerOK
  <2> QED BY <1>1, <2>6 DEF s, m, b
<1>3. CASE s \notin DOMAIN identities
  <2>1. m = NoMember /\ b = NoKeystore
    BY <1>3 DEF Answer
  <2>2. NoKeystore \in 0..Len(sealed)
    BY DEF NoKeystore, SessionInv, ServerOK
  <2> HIDE DEF s, m, b
  <2>3. AnswerOK(sealed, identities, keystore, s, m, b)
    BY <1>1, <2>1, <2>2 DEF AnswerOK
  <2> QED BY <1>1, <2>3 DEF s, m, b
<1> QED BY <1>2, <1>3

LEMMA ProbeKeeps == ASSUME SessionInv, NEW t \in Tab, Probe(t) PROVE SessionInv'
<1> DEFINE task == Answer(t)
           view == tabs[t].view
           ok == Reconciles(view, task)
           confirms == ok /\ task.member # NoMember /\ view.bound # task.sub
           rec == IF confirms THEN Confirmed(Record(t), task.sub) ELSE Record(t)
           view2 == IF confirms THEN rec ELSE view
           next == After(t, task, ok)
           tab == [tabs[t] EXCEPT !.task = next, !.conflict = ~ok, !.view = view2]
<1>1. UNCHANGED <<sealed, identities, keystore, cache, auth, late>>
  BY DEF Probe, accountVars, backupVars, bindVars, calm
<1>2. task.sub = Subject(t)
  BY DEF Answer
<1>3. CASE Quit(t) /\ UNCHANGED records
  BY <1>1, <1>3, QuitKeeps
<1>4. CASE /\ task.sub # NoSub /\ ~(confirms /\ LocalMember(Record(t)) # task.member)
           /\ Save(t, rec) /\ tabs' = [tabs EXCEPT ![t] = tab]
  <2>1. /\ ProfileOf[t] \in Profile /\ ServerOK(sealed, identities, keystore)
        /\ IsTab(tabs[t]) /\ RecordHere(t, view) /\ TaskHere(t, tabs[t].task)
        /\ RecordHere(t, Record(t))
    BY TabHere
  <2>2. /\ task.api \in Api
        /\ AnswerOK(sealed, identities, keystore, task.sub, task.member, task.backup)
    <3>1. tabs[t].task.api \in Api
      BY <2>1, TaskShapes DEF TaskHere, Probe
    <3> QED BY <1>2, <1>4, <3>1, AnswerStands
  <2>3. ok \in BOOLEAN
    BY DEF Reconciles
  <2> HIDE DEF ok, task
  <2>4. TaskHere(t, next)
    <3>1. ok /\ task.member # NoMember =>
             Tracked(sealed, keystore, Knows(ProfileOf[t]), ProfileOf[t], task.backup)
      BY <2>1, ReconciledIsTracked DEF RecordHere, ok
    <3> QED BY <2>2, <2>3, <3>1, AfterStands DEF TaskHere
  <2>5. RecordHere(t, rec) /\ Known(rec) = Known(Record(t))
    <3>1. CASE confirms
      <4>1. /\ Record(t) # NoRecord /\ task.sub \in Sub /\ task.sub \in DOMAIN identities
            /\ identities[task.sub] = sealed[Record(t).key].member
        BY <1>4, <2>2, <3>1 DEF LocalMember, AnswerOK, MemberOf
      <4> QED BY <2>1, <3>1, <4>1, ConfirmedStands DEF RecordHere
    <3>2. CASE ~confirms
      BY <2>1, <3>2
    <3> QED BY <3>1, <3>2
  <2>6. RecordHere(t, view2)
    BY <2>1, <2>5
  <2> HIDE DEF rec, view2, next
  <2>7. IsTab(tab) /\ tab.view = view2 /\ tab.task = next
    BY <2>1, <2>3 DEF IsTab
  <2>8. records' = [records EXCEPT ![ProfileOf[t]] = rec]
    BY <1>4 DEF Save
  <2> HIDE DEF tab
  <2> QED BY <1>1, <1>4, <2>4, <2>5, <2>6, <2>7, <2>8, RecordStepKeeps
<1>5. tabs = [u \in Tab |-> tabs[u]]
  BY DEF SessionInv, TabsOK
<1> QED BY <1>3, <1>4, <1>5 DEF Probe

LEMMA StageKeeps == ASSUME SessionInv, NEW t \in Tab, Stage(t) PROVE SessionInv'
<1> DEFINE task == tabs[t].task
           rec == Staged(Record(t))
           next == [at |-> "snapshot", sub |-> task.sub, backup |-> task.backup,
                    expected |-> rec.pending]
           tab == [tabs[t] EXCEPT !.view = rec, !.task = next]
<1>1. UNCHANGED <<sealed, identities, keystore, cache, auth, late>>
  BY DEF Stage, accountVars, backupVars, bindVars, calm
<1>2. CASE Quit(t) /\ UNCHANGED records
  BY <1>1, <1>2, QuitKeeps
<1>3. CASE /\ Record(t) # NoRecord /\ Record(t).bound = task.sub
           /\ Save(t, rec) /\ tabs' = [tabs EXCEPT ![t] = tab]
  <2>1. /\ IsTab(tabs[t]) /\ TaskHere(t, task) /\ RecordHere(t, Record(t))
    BY TabHere
  <2>2. Answered(sealed, identities, keystore, Knows(ProfileOf[t]), ProfileOf[t], task)
        /\ task.at = "stage"
    BY <2>1, TaskShapes DEF TaskHere, Stage
  <2>3. /\ task.sub \in Sub /\ task.sub \in DOMAIN identities
        /\ identities[task.sub] = task.member
        /\ AnswerOK(sealed, identities, keystore, task.sub, identities[task.sub], task.backup)
        /\ Tracked(sealed, keystore, Knows(ProfileOf[t]), ProfileOf[t], task.backup)
    BY <2>2 DEF Answered, AnswerOK
  <2>4. Record(t).bound # NoSub
    BY <1>3, <2>3, SessionAssumption
  <2>5. /\ RecordHere(t, rec) /\ Known(rec) = Known(Record(t)) /\ rec.pending.kind # "none"
        /\ PendingOK(sealed, ProfileOf[t], rec.pending, identities[task.sub])
    <3> DEFINE r == Record(t)
               p == ProfileOf[t]
    <3>1. RecordOK(sealed, identities, keystore, Knows(p), p, r)
      BY <2>1 DEF RecordHere
    <3> HIDE DEF r, p
    <3>2. r # NoRecord /\ r.bound # NoSub /\ r.bound = task.sub
      BY <1>3, <2>4 DEF r
    <3>3. /\ RecordOK(sealed, identities, keystore, Knows(p), p, Staged(r))
          /\ Known(Staged(r)) = Known(r) /\ Staged(r).pending.kind # "none"
          /\ PendingOK(sealed, p, Staged(r).pending, identities[r.bound])
      BY <3>1, <3>2, StagedStands
    <3> QED BY <3>2, <3>3 DEF RecordHere, r, p
  <2> HIDE DEF rec, task
  <2>6. TaskHere(t, next)
    <3>1. Snapshots(sealed, identities, keystore, Knows(ProfileOf[t]), ProfileOf[t], next)
      BY <2>3, <2>5 DEF Snapshots
    <3> QED BY <3>1 DEF TaskHere, TaskOK
  <2> HIDE DEF next
  <2>7. IsTab(tab) /\ tab.view = rec /\ tab.task = next
    BY <2>1 DEF IsTab
  <2>8. records' = [records EXCEPT ![ProfileOf[t]] = rec]
    BY <1>3 DEF Save
  <2> HIDE DEF tab
  <2> QED BY <1>1, <1>3, <2>5, <2>6, <2>7, <2>8, RecordStepKeeps
<1>4. tabs = [u \in Tab |-> tabs[u]]
  BY DEF SessionInv, TabsOK
<1> QED BY <1>2, <1>3, <1>4 DEF Stage

LEMMA AcknowledgeKeeps == ASSUME SessionInv, NEW t \in Tab, Acknowledge(t) PROVE SessionInv'
<1> DEFINE task == tabs[t].task
           rec == Acknowledged(Record(t), task.expected)
           c == tabs[t].conflict /\ rec = Record(t)
           tab == [tabs[t] EXCEPT !.view = rec, !.task = Idle, !.conflict = c]
<1>1. UNCHANGED <<sealed, identities, keystore, cache, auth, late>>
  BY DEF Acknowledge, accountVars, backupVars, bindVars, calm
<1>2. CASE (Quit(t) \/ Conflict(t)) /\ UNCHANGED records
  BY <1>1, <1>2, QuitKeeps, ConflictKeeps
<1>3. CASE Save(t, rec) /\ tabs' = [tabs EXCEPT ![t] = tab]
  <2>1. /\ IsTab(tabs[t]) /\ TaskHere(t, task) /\ RecordHere(t, Record(t))
    BY TabHere
  <2>2. Puts(sealed, identities, keystore, ProfileOf[t], task) /\ task.at = "stored"
    BY <2>1, TaskShapes DEF TaskHere, Acknowledge
  <2>3. RecordHere(t, rec) /\ Known(rec) = Known(Record(t))
    <3>1. /\ task.expected.kind # "none"
          /\ PendingOK(sealed, ProfileOf[t], task.expected, identities[task.sub])
          /\ Gen(sealed, task.expected.key) <= Gen(sealed, keystore[identities[task.sub]])
      BY <2>2 DEF Puts
    <3> QED BY <2>1, <3>1, AcknowledgedStands DEF RecordHere
  <2>4. TaskHere(t, Idle)
    BY SimpleTasks DEF TaskHere, TaskOK
  <2> HIDE DEF rec, task, c
  <2>5. IsTab(tab) /\ tab.view = rec /\ tab.task = Idle
    BY <2>1 DEF IsTab, Idle
  <2>6. records' = [records EXCEPT ![ProfileOf[t]] = rec]
    BY <1>3 DEF Save
  <2> HIDE DEF tab
  <2> QED BY <1>1, <1>3, <2>3, <2>4, <2>5, <2>6, RecordStepKeeps
<1>4. tabs = [u \in Tab |-> tabs[u]]
  BY DEF SessionInv, TabsOK
<1> QED BY <1>2, <1>3, <1>4 DEF Acknowledge

-----------------------------------------------------------------------------
(* The steps that reach the server.                                        *)

LEMMA ServerMoves ==
    ASSUME SessionInv, ServerOK(sealed', identities', keystore'),
           Grows(sealed, identities, keystore, sealed', identities', keystore'),
           UNCHANGED records
    PROVE  Moves
<1>1. sealed \in Seq(Entry) /\ Len(sealed) \in Nat /\ Len(sealed') \in Nat
      /\ Len(sealed) <= Len(sealed')
  BY DEF SessionInv, ServerOK, Grows
<1>2. ASSUME NEW p \in Profile
      PROVE  /\ Known(records'[p]) \subseteq 1..Len(sealed')
             /\ \A k \in Known(records[p]) :
                   Succeeds(sealed, keystore, sealed', keystore', Known(records'[p]), k)
  <2>1. Known(records[p]) \subseteq 1..Len(sealed)
    BY KnownBounds DEF SessionInv, RecordsOK
  <2> QED BY <1>1, <2>1, SameSucceeds
<1> QED BY <1>2 DEF Moves

LEMMA MovedTabKeeps ==
    ASSUME SessionInv, Moves, CachesOK', UNCHANGED <<records, auth>>,
           NEW t \in Tab, NEW tab, tabs' = [tabs EXCEPT ![t] = tab],
           IsTab(tab), RecordNow(ProfileOf[t], tab.view), TaskNow(t, tab.task),
           \A put \in late' : put \in late \/ UploadOK(sealed', keystore', put)
    PROVE  SessionInv'
<1>1. tabs = [u \in Tab |-> tabs[u]] /\ auth' \in [Profile -> Sub \cup {NoSub}]
  BY DEF SessionInv, TabsOK
<1>2. tabs' = [u \in Tab |-> tabs'[u]] /\ tabs'[t] = tab /\ \A u \in Tab : u # t => tabs'[u] = tabs[u]
  BY <1>1
<1>3. TabNow(t, tab)
  BY DEF TabNow, TabOK, RecordNow, TaskNow
<1>4. records' = [p \in Profile |-> records'[p]] /\ \A p \in Profile : records'[p] = records[p]
  BY DEF SessionInv, RecordsOK
<1> QED BY <1>1, <1>2, <1>3, <1>4, SessionKeeps

LEMMA NoTabKeeps ==
    ASSUME SessionInv, Moves, CachesOK', UNCHANGED <<records, tabs, auth>>,
           \A put \in late' : put \in late \/ UploadOK(sealed', keystore', put)
    PROVE  SessionInv'
<1>1. /\ tabs' = [t \in Tab |-> tabs'[t]] /\ auth' \in [Profile -> Sub \cup {NoSub}]
      /\ records' = [p \in Profile |-> records'[p]]
      /\ \A p \in Profile : records'[p] = records[p] /\ \A t \in Tab : tabs'[t] = tabs[t]
      /\ \A t \in Tab : tabs'[t] = tabs[t]
  BY DEF SessionInv, TabsOK, RecordsOK
<1> QED BY <1>1, SessionKeeps

\* The table keeps its two keys, and the cache what it holds.
LEMMA RegisterMoves ==
    ASSUME SessionInv, NEW i \in Instance, NEW s \in Sub, NEW m \in MemberId,
           Register(i, s, m), UNCHANGED records
    PROVE  Moves /\ CachesOK'
<1>1. ServerOK(sealed, identities, keystore) /\ CachesOK /\ sealed' = sealed
  BY DEF SessionInv, Register
<1>2. CASE Bindable(s, m) /\ identities' = Put(identities, s, m)
           /\ keystore' = Put(keystore, m, NoKeystore)
  <2>1. s \notin DOMAIN identities /\ m \notin DOMAIN keystore
        /\ \A x \in DOMAIN identities : identities[x] # m
    <3>1. s \notin DOMAIN identities /\ \A x \in DOMAIN identities : identities[x] # m
      BY <1>2 DEF Bindable, Range
    <3> QED BY <1>1, <3>1 DEF ServerOK
  <2>2. /\ DOMAIN identities' = DOMAIN identities \cup {s} /\ identities'[s] = m
        /\ \A x \in DOMAIN identities : identities'[x] = identities[x]
    BY <1>2, <2>1 DEF Put
  <2>3. /\ DOMAIN keystore' = DOMAIN keystore \cup {m} /\ keystore'[m] = NoKeystore
        /\ \A x \in DOMAIN keystore : keystore'[x] = keystore[x]
    BY <1>2, <2>1 DEF Put
  <2>4. NoKeystore \in 0..Len(sealed)
    BY <1>1 DEF ServerOK, NoKeystore
  <2>5. ServerOK(sealed', identities', keystore')
    BY <1>1, <2>1, <2>2, <2>3, <2>4 DEF ServerOK
  <2>6. Grows(sealed, identities, keystore, sealed', identities', keystore')
    BY <1>1, <2>2, <2>3, GrowsReflexive DEF Grows
  <2>7. CachesOK'
    BY <1>1, <2>1, <2>2 DEF CachesOK, Register, Put
  <2> QED BY <2>5, <2>6, <2>7, ServerMoves
<1>3. CASE /\ s \in DOMAIN identities /\ identities[s] = m
           /\ UNCHANGED <<accounts, identities, keystore>>
  <2>1. CachesOK'
    BY <1>1, <1>3 DEF CachesOK, Register, Put
  <2> QED BY <1>1, <1>3, <2>1, GrowsReflexive, ServerMoves
<1> QED BY <1>2, <1>3 DEF Register

\* A keystore accepted is the member's own, and as new as the one it replaces.
LEMMA PutMoves ==
    ASSUME SessionInv, NEW put, UploadOK(sealed, keystore, put),
           PutKeystore(put.member, put.key, put.ifMatch),
           UNCHANGED <<sealed, identities, records>>
    PROVE  /\ Moves
           /\ Accepts(put.member, put.key, put.ifMatch) =>
                 Gen(sealed', put.key) <= Gen(sealed', keystore'[put.member])
<1> DEFINE m == put.member
           k == put.key
<1>1. /\ ServerOK(sealed, identities, keystore) /\ sealed \in Seq(Entry)
      /\ m \in DOMAIN keystore /\ k \in 1..Len(sealed) /\ sealed[k].member = m
  BY DEF SessionInv, ServerOK, UploadOK
<1>2. Gen(sealed, k) \in Nat /\ \A x \in DOMAIN keystore : Gen(sealed, keystore[x]) \in Nat
  BY <1>1, GenIsNat DEF ServerOK
<1>3. CASE Accepts(m, k, put.ifMatch)
  <2>1. keystore' = [keystore EXCEPT ![m] = k]
    BY <1>3 DEF PutKeystore
  <2>2. /\ DOMAIN keystore' = DOMAIN keystore /\ keystore'[m] = k
        /\ \A x \in DOMAIN keystore : x # m => keystore'[x] = keystore[x]
    BY <1>1, <2>1
  <2>3. Gen(sealed, keystore[m]) <= Gen(sealed, k)
    BY <1>1, <1>2, <1>3 DEF Accepts, Generation, Gen
  <2> HIDE DEF m, k
  <2>4. ServerOK(sealed', identities', keystore')
    BY <1>1, <2>2 DEF ServerOK
  <2>5. Grows(sealed, identities, keystore, sealed', identities', keystore')
    <3>1. \A x \in DOMAIN keystore : Gen(sealed, keystore[x]) <= Gen(sealed, keystore'[x])
      BY <1>2, <2>2, <2>3
    <3> QED BY <1>1, <2>2, <3>1, GrowsReflexive DEF Grows
  <2>6. Gen(sealed', k) <= Gen(sealed', keystore'[m])
    BY <1>2, <2>2
  <2> QED BY <2>4, <2>5, <2>6, ServerMoves DEF m, k
<1>4. CASE ~Accepts(m, k, put.ifMatch)
  <2>1. UNCHANGED keystore
    BY <1>4 DEF PutKeystore
  <2> QED BY <1>1, <1>4, <2>1, GrowsReflexive, ServerMoves
<1> QED BY <1>3, <1>4

LEMMA RegisterSelfKeeps ==
    ASSUME SessionInv, NEW t \in Tab, RegisterSelf(t) PROVE SessionInv'
<1> DEFINE task == tabs[t].task
           next == [at |-> "ask", api |-> task.api]
           tab == [tabs[t] EXCEPT !.task = next]
           m == MemberOf(Handle(t))
<1>1. UNCHANGED <<records, auth, late, mishaps>> /\ tabs = [u \in Tab |-> tabs[u]]
  BY DEF RegisterSelf, calm, SessionInv, TabsOK
<1>2. TaskHere(t, task) /\ task.sub \in Sub /\ task.api \in Api
  BY TabHere, TaskShapes DEF TaskHere, RegisterSelf
<1>3. ASSUME UNCHANGED accountVars
      PROVE  UNCHANGED <<sealed, identities, keystore, cache, records, auth, late>>
  BY <1>1, <1>3 DEF accountVars, bindVars, backupVars
<1>4. CASE (Quit(t) \/ Conflict(t)) /\ UNCHANGED accountVars
  BY <1>1, <1>3, <1>4, QuitKeeps, ConflictKeeps
<1>5. CASE Step(t, next) /\ UNCHANGED accountVars
  <2>1. TaskNow(t, next)
    BY <1>2, <1>3, <1>5, TabFacts, SimpleTasks
  <2> HIDE DEF next
  <2> QED BY <1>3, <1>5, <2>1, StepKeeps
<1>6. CASE /\ Handle(t) # NoKeystore /\ Step(t, next)
           /\ \E i \in Instance : Register(i, task.sub, m)
  <2>1. m \in MemberId
    <3>1. Handle(t) = Record(t).key /\ Record(t) # NoRecord
      BY <1>6 DEF Handle, NoRecord
    <3>2. RecordHere(t, Record(t)) /\ sealed \in Seq(Entry)
      BY TabHere DEF ServerOK
    <3>3. Handle(t) \in 1..Len(sealed)
      BY <3>1, <3>2 DEF RecordHere, RecordOK, FullRecord
    <3> HIDE DEF m
    <3>4. sealed[Handle(t)] \in Entry
      BY <3>2, <3>3
    <3> QED BY <3>4 DEF Entry, m, MemberOf
  <2> HIDE DEF m, task
  <2>2. Moves /\ CachesOK'
    BY <1>1, <1>2, <1>6, <2>1, RegisterMoves
  <2>3. TabNow(t, tabs[t]) /\ RecordNow(ProfileOf[t], tabs[t].view)
    BY <2>2, Carried
  <2>4. TaskNow(t, next)
    BY <1>2, SimpleTasks DEF TaskNow, TaskOK
  <2> HIDE DEF next
  <2>5. IsTab(tab) /\ tab.view = tabs[t].view /\ tab.task = next
    BY <2>3 DEF TabNow, TabOK, IsTab
  <2>6. tabs' = [tabs EXCEPT ![t] = tab]
    BY <1>1, <1>6 DEF Step
  <2> HIDE DEF tab
  <2> QED BY <1>1, <2>2, <2>3, <2>4, <2>5, <2>6, MovedTabKeeps
<1> QED BY <1>4, <1>5, <1>6 DEF RegisterSelf

LEMMA UploadKeystoreKeeps ==
    ASSUME SessionInv, NEW t \in Tab, UploadKeystore(t) PROVE SessionInv'
<1> DEFINE task == tabs[t].task
           put == task.upload
           next == IF Accepts(put.member, put.key, put.ifMatch)
                   THEN [task EXCEPT !.at = "stored"] ELSE Idle
           c == IF Accepts(put.member, put.key, put.ifMatch) THEN tabs[t].conflict ELSE TRUE
           tab == [tabs[t] EXCEPT !.task = next, !.conflict = c]
<1>1. UNCHANGED <<sealed, identities, cache, records, auth, late>>
  BY DEF UploadKeystore, bindVars, calm
<1>2. Puts(sealed, identities, keystore, ProfileOf[t], task) /\ task.at = "put"
  BY TabHere, TaskShapes DEF TaskHere, UploadKeystore
<1>3. UploadOK(sealed, keystore, put) /\ PutKeystore(put.member, put.key, put.ifMatch)
      /\ put.member = identities[task.sub]
  BY <1>2 DEF Puts, UploadKeystore
<1>4. /\ Moves
      /\ Accepts(put.member, put.key, put.ifMatch) =>
            Gen(sealed', put.key) <= Gen(sealed', keystore'[put.member])
  <2> HIDE DEF put
  <2> QED BY <1>1, <1>3, PutMoves
<1>5. TabNow(t, tabs[t]) /\ RecordNow(ProfileOf[t], tabs[t].view)
  BY <1>4, Carried
<1>6. CachesOK'
  BY <1>1 DEF SessionInv, CachesOK
<1>7. TaskNow(t, next)
  <2>1. CASE Accepts(put.member, put.key, put.ifMatch)
    <3>1. Puts(sealed', identities', keystore', ProfileOf[t], task)
      BY <1>2, <1>5, TaskShapes DEF TabNow, TabOK
    <3>2. identities' = identities
      BY <1>1
    <3>3. Gen(sealed', put.key) <= Gen(sealed', keystore'[identities'[task.sub]])
      BY <1>3, <1>4, <2>1, <3>2
    <3> DEFINE x == [task EXCEPT !.at = "stored"]
    <3> HIDE DEF task
    <3>4. /\ x \in [at : {"stored"}, sub : {task.sub}, expected : {task.expected},
                    upload : {task.upload}]
          /\ x.at = "stored" /\ x.sub = task.sub /\ x.expected = task.expected
          /\ x.upload = task.upload
      BY <3>1 DEF Puts
    <3> HIDE DEF x
    <3>5. Puts(sealed', identities', keystore', ProfileOf[t], x)
      <4>1. /\ task.sub \in DOMAIN identities' /\ task.expected.kind # "none"
            /\ PendingOK(sealed', ProfileOf[t], task.expected, identities'[task.sub])
            /\ UploadOK(sealed', keystore', task.upload)
            /\ task.upload.member = identities'[task.sub]
            /\ task.upload.key = task.expected.key
        BY <3>1 DEF Puts
      <4> QED BY <3>3, <3>4, <4>1 DEF Puts
    <3>6. next = x
      BY <2>1 DEF x
    <3> QED BY <3>5, <3>6 DEF TaskNow, TaskOK
  <2>2. CASE ~Accepts(put.member, put.key, put.ifMatch)
    BY <2>2, SimpleTasks DEF TaskNow, TaskOK
  <2> QED BY <2>1, <2>2
<1>8. tabs' = [tabs EXCEPT ![t] = tab]
  <2>1. tabs = [u \in Tab |-> tabs[u]] /\ IsTab(tabs[t])
    BY TabHere DEF SessionInv, TabsOK
  <2>2. CASE Accepts(put.member, put.key, put.ifMatch)
    <3>1. tabs' = [tabs EXCEPT ![t] = [tabs[t] EXCEPT !.task = next]]
      BY <2>1, <2>2 DEF UploadKeystore, Step
    <3> HIDE DEF next
    <3>2. [tabs[t] EXCEPT !.task = next] = [tabs[t] EXCEPT !.task = next, !.conflict = tabs[t].conflict]
      BY <2>1 DEF IsTab
    <3> QED BY <2>2, <3>1, <3>2
  <2>3. CASE ~Accepts(put.member, put.key, put.ifMatch)
    BY <2>1, <2>3 DEF UploadKeystore, Conflict
  <2> QED BY <2>2, <2>3
<1>9. IsTab(tab) /\ tab.view = tabs[t].view /\ tab.task = next
  <2> HIDE DEF next, c
  <2> QED BY <1>5 DEF TabNow, TabOK, IsTab
<1> HIDE DEF tab, next
<1> QED BY <1>1, <1>4, <1>5, <1>6, <1>7, <1>8, <1>9, MovedTabKeeps

LEMMA UploadLateKeeps ==
    ASSUME SessionInv, NEW put \in late, UploadLate(put) PROVE SessionInv'
<1>1. UNCHANGED <<sealed, identities, cache, records, tabs, auth>> /\ late' \subseteq late
  BY DEF UploadLate, bindVars
<1>2. UploadOK(sealed, keystore, put) /\ PutKeystore(put.member, put.key, put.ifMatch)
  BY DEF SessionInv, UploadLate
<1>3. Moves
  BY <1>1, <1>2, PutMoves
<1>4. CachesOK'
  BY <1>1 DEF SessionInv, CachesOK
<1> QED BY <1>1, <1>3, <1>4, NoTabKeeps

LEMMA BesideKeeps ==
    ASSUME SessionInv, Binding \/ Verifying \/ UNCHANGED SessionVars,
           UNCHANGED sessionVars
    PROVE  SessionInv'
<1>1. UNCHANGED <<records, tabs, auth, late>>
  BY DEF sessionVars
<1>2. ASSUME UNCHANGED <<sealed, identities, keystore, cache>> PROVE SessionInv'
  BY <1>1, <1>2, NoTabKeeps, ServerMoves, GrowsReflexive DEF SessionInv, CachesOK
<1>3. ASSUME UNCHANGED <<sealed, identities, keystore>>, CachesOK' PROVE SessionInv'
  BY <1>1, <1>3, NoTabKeeps, ServerMoves, GrowsReflexive DEF SessionInv
<1>4. CASE Verifying
  BY <1>2, <1>4 DEF Verifying, Publish, Present, TakeRefresh, Fetched, FetchFails,
                    bindVars, backupVars
<1>5. CASE UNCHANGED SessionVars
  BY <1>2, <1>5 DEF SessionVars, accountVars, bindVars, backupVars
<1>6. CASE Binding
  <2> SUFFICES ASSUME NEW i \in Instance, NEW s \in Sub,
                      (\E m \in MemberId : Register(i, s, m)) \/ Resolve(i, s) \/ Restart(i)
               PROVE  SessionInv'
    BY <1>6 DEF Binding
  <2>1. CASE \E m \in MemberId : Register(i, s, m)
    <3>1. Moves /\ CachesOK'
      BY <1>1, <2>1, RegisterMoves
    <3> QED BY <1>1, <3>1, NoTabKeeps
  <2>2. CASE Resolve(i, s) \/ Restart(i)
    <3>1. CachesOK'
      BY <2>2 DEF SessionInv, CachesOK, Resolve, Restart, Put
    <3> QED BY <1>3, <2>2, <3>1 DEF Resolve, Restart, backupVars
  <2> QED BY <2>1, <2>2
<1> QED BY <1>4, <1>5, <1>6

-----------------------------------------------------------------------------
(* The steps that write another keystore into a record.                    *)

\* A step of one profile's record and one of its tabs, which shows it.
LEMMA WriteKeeps ==
    ASSUME SessionInv, NEW t \in Tab, NEW rec, NEW tab,
           records' = [records EXCEPT ![ProfileOf[t]] = rec], tabs' = [tabs EXCEPT ![t] = tab],
           UNCHANGED <<identities, keystore, cache, auth, late>>,
           ServerOK(sealed', identities, keystore),
           Grows(sealed, identities, keystore, sealed', identities, keystore),
           \A k \in Known(Record(t)) : Succeeds(sealed, keystore, sealed', keystore, Known(rec), k),
           RecordOK(sealed', identities, keystore, Known(rec), ProfileOf[t], Record(t))
               => RecordOK(sealed', identities, keystore, Known(rec), ProfileOf[t], rec),
           Known(rec) \subseteq 1..Len(sealed'),
           IsTab(tab), tab.view = rec, tab.task = tabs[t].task \/ Simple(tab.task)
    PROVE  SessionInv'
<1> DEFINE q == ProfileOf[t]
<1>1. q \in Profile /\ records = [p \in Profile |-> records[p]] /\ tabs = [u \in Tab |-> tabs[u]]
  BY ProfileOfTab DEF SessionInv, RecordsOK, TabsOK
<1>2. /\ records' = [p \in Profile |-> records'[p]] /\ records'[q] = rec
      /\ \A p \in Profile : p # q => records'[p] = records[p]
  BY <1>1
<1>3. /\ tabs' = [u \in Tab |-> tabs'[u]] /\ tabs'[t] = tab
      /\ \A u \in Tab : u # t => tabs'[u] = tabs[u]
  BY <1>1
<1>4. Moves
  <2> SUFFICES ASSUME NEW p \in Profile
               PROVE  /\ Known(records'[p]) \subseteq 1..Len(sealed')
                      /\ \A k \in Known(records[p]) :
                            Succeeds(sealed, keystore, sealed', keystore, Known(records'[p]), k)
    BY DEF Moves
  <2>1. CASE p = q
    BY <1>2, <2>1 DEF Record
  <2>2. CASE p # q
    <3>1. Known(records[p]) \subseteq 1..Len(sealed)
      BY KnownBounds DEF SessionInv, RecordsOK
    <3>2. sealed \in Seq(Entry) /\ Len(sealed) \in Nat /\ Len(sealed') \in Nat
          /\ Len(sealed) <= Len(sealed')
      BY DEF SessionInv, ServerOK, Grows
    <3> QED BY <1>2, <2>2, <3>1, <3>2, SameSucceeds
  <2> QED BY <2>1, <2>2
<1>5. /\ RecordNow(q, Record(t)) /\ TabNow(t, tabs[t])
      /\ \A task : RecordNow(q, task) <=>
            RecordOK(sealed', identities, keystore, Known(rec), q, task)
  <2>1. RecordNow(q, records[q]) /\ TabNow(t, tabs[t])
    BY <1>1, <1>4, Carried
  <2> QED BY <1>2, <2>1 DEF RecordNow, Record
<1>6. RecordNow(q, rec)
  BY <1>5
<1>7. TabNow(t, tab)
  <2>1. TaskNow(t, tab.task)
    BY <1>5 DEF TabNow, TabOK, TaskNow, TaskOK
  <2> QED BY <1>6, <2>1 DEF TabNow, TabOK, TaskNow, RecordNow
<1>8. CachesOK' /\ auth' \in [Profile -> Sub \cup {NoSub}]
  BY DEF SessionInv, CachesOK
<1>9. \A p \in Profile : records'[p] = records[p] \/ RecordNow(p, records'[p])
  BY <1>2, <1>6
<1>10. \A u \in Tab : tabs'[u] = tabs[u] \/ TabNow(u, tabs'[u])
  BY <1>3, <1>7
<1> QED BY <1>2, <1>3, <1>4, <1>8, <1>9, <1>10, SessionKeeps

\* What sealing a keystore leaves.
LEMMA Sealing ==
    ASSUME SessionInv, NEW t \in Tab, NEW m \in MemberId, NEW g \in Nat,
           NEW k \in 0..Len(sealed), Seal(t, m, g, k)
    PROVE  /\ ServerOK(sealed', identities, keystore)
           /\ Grows(sealed, identities, keystore, sealed', identities, keystore)
           /\ NextKey \in 1..Len(sealed') /\ NextKey \notin 1..Len(sealed)
           /\ sealed'[NextKey].member = m /\ Gen(sealed', NextKey) = g
           /\ sealed'[NextKey].on = {ProfileOf[t]}
           /\ k # NoKeystore => \A j : From(sealed, k, j) => From(sealed', NextKey, j)
<1> DEFINE anc == IF k = NoKeystore THEN {} ELSE sealed[k].ancestors \cup {k}
           e == [member |-> m, generation |-> g, ancestors |-> anc, on |-> {ProfileOf[t]}]
<1>1. ServerOK(sealed, identities, keystore) /\ sealed \in Seq(Entry) /\ Len(sealed) \in Nat
  BY DEF SessionInv, ServerOK
<1>2. k # NoKeystore => k \in 1..Len(sealed) /\ k \in Nat /\ sealed[k] \in Entry
  BY <1>1 DEF NoKeystore
<1>3. anc \in SUBSET Nat
  BY <1>2 DEF Entry
<1>4. e \in Entry
  BY <1>3, ProfileOfTab DEF Entry
<1>5. sealed' = Append(sealed, e)
  BY DEF Seal
<1>6. e.member = m /\ e.generation = g /\ e.ancestors = anc /\ e.on = {ProfileOf[t]}
  OBVIOUS
<1> HIDE DEF e
<1>7. /\ sealed' \in Seq(Entry) /\ Len(sealed') = Len(sealed) + 1 /\ sealed'[NextKey] = e
      /\ \A j \in 1..Len(sealed) : sealed'[j] = sealed[j]
  BY <1>1, <1>4, <1>5 DEF NextKey
<1>8. NextKey \in 1..Len(sealed') /\ NextKey \notin 1..Len(sealed) /\ NextKey # 0
  BY <1>1, <1>7 DEF NextKey
<1>9. ServerOK(sealed', identities, keystore)
  <2>1. \A x \in DOMAIN keystore :
           /\ keystore[x] \in 0..Len(sealed')
           /\ keystore[x] # NoKeystore => keystore[x] \in 1..Len(sealed)
    BY <1>1, <1>7 DEF ServerOK, NoKeystore
  <2> QED BY <1>1, <1>7, <2>1 DEF ServerOK
<1>10. Grows(sealed, identities, keystore, sealed', identities, keystore)
  <2>1. \A x \in DOMAIN keystore : Gen(sealed', keystore[x]) = Gen(sealed, keystore[x])
                                   /\ Gen(sealed, keystore[x]) \in Nat
    <3>1. \A x \in DOMAIN keystore : keystore[x] \in 0..Len(sealed)
             /\ (keystore[x] # NoKeystore => keystore[x] \in 1..Len(sealed))
      BY <1>1 DEF ServerOK, NoKeystore
    <3> QED BY <1>1, <1>7, <3>1, GenIsNat DEF Gen
  <2> QED BY <1>1, <1>7, <2>1 DEF Grows
<1>11. Gen(sealed', NextKey) = g
  BY <1>6, <1>7, <1>8 DEF Gen, NoKeystore
<1>12. k # NoKeystore => \A j : From(sealed, k, j) => From(sealed', NextKey, j)
  BY <1>6, <1>7 DEF From
<1> QED BY <1>6, <1>7, <1>8, <1>9, <1>10, <1>11, <1>12

LEMMA CreateAccountKeeps ==
    ASSUME SessionInv, NEW t \in Tab, CreateAccount(t) PROVE SessionInv'
<1>1. PICK m \in MemberId :
         /\ Seal(t, m, 0, NoKeystore) /\ Save(t, Created(NextKey))
         /\ tabs' = [tabs EXCEPT ![t] = Settled(@, NextKey, m, Created(NextKey))]
  BY DEF CreateAccount
<1> DEFINE rec == Created(NextKey)
           tab == Settled(tabs[t], NextKey, m, rec)
<1>2. /\ UNCHANGED <<identities, keystore, cache, auth, late>>
      /\ tabs' = [tabs EXCEPT ![t] = tab] /\ records' = [records EXCEPT ![ProfileOf[t]] = rec]
  BY <1>1 DEF CreateAccount, Unsaved, bindVars, calm, Save, SessionInv, TabsOK
<1>3. Known(Record(t)) = {}
  BY DEF CreateAccount, Known
<1>4. /\ ServerOK(sealed', identities, keystore)
      /\ Grows(sealed, identities, keystore, sealed', identities, keystore)
      /\ NextKey \in 1..Len(sealed') /\ sealed'[NextKey].on = {ProfileOf[t]}
  <2>1. 0 \in Nat /\ NoKeystore \in 0..Len(sealed)
    BY DEF SessionInv, ServerOK, NoKeystore
  <2> QED BY <1>1, <2>1, Sealing
<1>5. /\ rec.key = NextKey /\ rec.retained = {} /\ rec.bound = NoSub /\ rec.acked = NoKeystore
      /\ rec.pending = NoPending /\ rec \in FullRecord(Len(sealed'))
  <2>1. NoPending \in Pending /\ NoKeystore \in 0..Len(sealed')
    BY <1>4 DEF NoPending, Pending, NoKeystore, ServerOK
  <2> QED BY <1>4, <2>1 DEF Created, FullRecord
<1>6. IsTab(tabs[t])
  BY TabHere
<1> HIDE DEF rec
<1>7. IsTab(tab) /\ tab.view = rec /\ tab.task = tabs[t].task
  BY <1>6 DEF Settled, IsTab
<1> HIDE DEF tab
<1>8. Known(rec) \subseteq 1..Len(sealed')
  BY <1>4, <1>5 DEF Known
<1>9. RecordOK(sealed', identities, keystore, Known(rec), ProfileOf[t], rec)
  <2>1. PendingOK(sealed', ProfileOf[t], rec.pending, sealed'[rec.key].member)
        /\ rec.pending.kind # "revoke"
    BY <1>5 DEF PendingOK, NoPending
  <2> QED BY <1>4, <1>5, <2>1 DEF RecordOK
<1> QED BY <1>2, <1>3, <1>4, <1>7, <1>8, <1>9, WriteKeeps

\* The record of an identity sealed again.
Rekeyed(r, k, kind) ==
    [r EXCEPT
        !.key = k,
        !.pending = IF @.kind = "revoke" THEN [@ EXCEPT !.key = k]
                    ELSE IF r.bound # NoSub /\ k # r.key /\ kind # "none"
                         THEN [kind |-> kind, key |-> k]
                    ELSE IF @.key = k THEN @ ELSE NoPending]

LEMMA RekeyedStands ==
    ASSUME NEW S, NEW I, NEW B, NEW K, NEW p, NEW r, RecordOK(S, I, B, K, p, r), r # NoRecord,
           NEW k \in 1..Len(S), Len(S) \in Nat, S[k].member = S[r.key].member, p \in S[k].on,
           NEW kind \in {"backup", "revoke"}
    PROVE  /\ RecordOK(S, I, B, K, p, Rekeyed(r, k, kind))
           /\ Known(Rekeyed(r, k, kind)) = {k} \cup r.retained
<1> DEFINE pending ==
       IF r.pending.kind = "revoke" THEN [r.pending EXCEPT !.key = k]
       ELSE IF r.bound # NoSub /\ k # r.key /\ kind # "none" THEN [kind |-> kind, key |-> k]
       ELSE IF r.pending.key = k THEN r.pending ELSE NoPending
           r2 == [r EXCEPT !.key = k, !.pending = pending]
<1>1. r \in FullRecord(Len(S)) /\ r.pending \in Pending /\ k \in Nat
  BY DEF RecordOK, FullRecord
<1>2. Rekeyed(r, k, kind) = r2
  BY DEF Rekeyed
<1>3. /\ pending \in Pending /\ PendingOK(S, p, pending, S[k].member)
      /\ pending.kind = "revoke" => pending.key = k
      /\ r.bound = NoSub => pending = NoPending
  <2>1. CASE r.pending.kind = "revoke"
    <3>1. pending \in Pending /\ pending.kind = "revoke" /\ pending.key = k
      BY <1>1, <2>1 DEF Pending
    <3>2. r.bound # NoSub
      BY <2>1 DEF RecordOK, NoPending
    <3> HIDE DEF pending
    <3> QED BY <3>1, <3>2 DEF PendingOK
  <2>2. CASE r.pending.kind # "revoke" /\ r.bound # NoSub /\ k # r.key
    <3>1. pending = [kind |-> kind, key |-> k]
      BY <2>2
    <3> HIDE DEF pending
    <3> QED BY <1>1, <2>2, <3>1 DEF PendingOK, Pending
  <2>3. CASE r.pending.kind # "revoke" /\ (r.bound = NoSub \/ k = r.key)
    <3>1. pending = r.pending \/ pending = NoPending
      BY <2>3
    <3>2. PendingOK(S, p, r.pending, S[k].member) /\ (r.bound = NoSub => r.pending = NoPending)
      BY DEF RecordOK
    <3> HIDE DEF pending
    <3> QED BY <1>1, <2>3, <3>1, <3>2 DEF PendingOK, NoPending, Pending, NoKeystore
  <2> QED BY <2>1, <2>2, <2>3
<1> HIDE DEF pending
<1>4. /\ r2.key = k /\ r2.retained = r.retained /\ r2.bound = r.bound /\ r2.acked = r.acked
      /\ r2.pending = pending /\ r2 \in FullRecord(Len(S))
  BY <1>1, <1>3 DEF FullRecord
<1> HIDE DEF r2
<1>5. r2 # NoRecord
  BY <1>4 DEF NoRecord, NoKeystore
<1>6. Known(r2) = {k} \cup r.retained
  BY <1>4, <1>5 DEF Known
<1>7. RecordOK(S, I, B, K, p, r2)
  BY <1>3, <1>4 DEF RecordOK
<1> QED BY <1>2, <1>6, <1>7

LEMMA MutateKeeps ==
    ASSUME SessionInv, NEW t \in Tab, Mutate(t, "recover") \/ Mutate(t, "changePassphrase")
                                      \/ Mutate(t, "revokeCredentials")
    PROVE  SessionInv'
<1>1. PICK call \in {"recover", "changePassphrase", "revokeCredentials"} : Mutate(t, call)
  OBVIOUS
<1> DEFINE r == Record(t)
           k == r.key
           m == MemberOf(k)
           g == Generation(k) + (IF call = "changePassphrase" THEN 0 ELSE 1)
           kind == IF call = "changePassphrase" THEN "backup" ELSE "revoke"
           rec == Replaced(r, NextKey, m, kind)
           me == IF call = "recover" THEN m ELSE tabs[t].me
           set == Settled(tabs[t], NextKey, me, rec)
           tab == Uploading(t, set)
<1>2. /\ Seal(t, m, g, k) /\ r # NoRecord
      /\ UNCHANGED <<identities, keystore, cache, auth, late>>
      /\ tabs' = [tabs EXCEPT ![t] = tab] /\ records' = [records EXCEPT ![ProfileOf[t]] = rec]
  BY <1>1 DEF Mutate, Unsaved, bindVars, calm, Save, SessionInv, TabsOK
<1>3. /\ RecordHere(t, r) /\ IsTab(tabs[t]) /\ sealed \in Seq(Entry) /\ Len(sealed) \in Nat
  BY TabHere DEF ServerOK
<1>4. k \in 1..Len(sealed) /\ k \in 0..Len(sealed) /\ k # NoKeystore
      /\ r.retained \subseteq 1..Len(sealed)
  BY <1>2, <1>3 DEF RecordHere, RecordOK, FullRecord, NoKeystore
<1>5. m = sealed[k].member /\ m \in MemberId /\ Generation(k) = Gen(sealed, k)
      /\ Gen(sealed, k) \in Nat
  <2>1. sealed[k] \in Entry
    BY <1>3, <1>4
  <2> QED BY <1>3, <1>4, <2>1, GenIsNat DEF Entry, MemberOf, Generation, Gen
<1>6. g \in Nat /\ Gen(sealed, k) <= g
  BY <1>5
<1>7. rec = Rekeyed(r, NextKey, kind)
  BY DEF Replaced, Rekeyed
<1>8. kind \in {"backup", "revoke"}
  OBVIOUS
<1> HIDE DEF r, k, m, g, rec, kind, me, set, tab
<1>9. /\ ServerOK(sealed', identities, keystore)
      /\ Grows(sealed, identities, keystore, sealed', identities, keystore)
      /\ NextKey \in 1..Len(sealed') /\ sealed'[NextKey].on = {ProfileOf[t]}
      /\ sealed'[NextKey].member = m /\ Gen(sealed', NextKey) = g
      /\ \A j : From(sealed, k, j) => From(sealed', NextKey, j)
  BY <1>2, <1>4, <1>5, <1>6, Sealing
<1>10. IsTab(tab) /\ tab.view = rec /\ Simple(tab.task)
  <2>1. IsTab(set) /\ set.view = rec
    BY <1>3 DEF Settled, IsTab, set
  <2> QED BY <2>1, UploadingFacts DEF tab
<1>11. Len(sealed') \in Nat /\ Len(sealed) <= Len(sealed') /\ sealed' \in Seq(Entry)
  BY <1>9 DEF ServerOK, Grows
<1>12. sealed'[r.key].member = m
  BY <1>4, <1>5, <1>9 DEF Grows, k
<1>13. ASSUME NEW K, RecordOK(sealed', identities, keystore, K, ProfileOf[t], r)
       PROVE  /\ RecordOK(sealed', identities, keystore, K, ProfileOf[t], rec)
              /\ Known(rec) = {NextKey} \cup r.retained
  <2>1. ProfileOf[t] \in sealed'[NextKey].on /\ sealed'[NextKey].member = sealed'[r.key].member
    BY <1>9, <1>12
  <2> QED BY <1>2, <1>7, <1>8, <1>9, <1>11, <1>13, <2>1, RekeyedStands
<1>14. Known(rec) = {NextKey} \cup r.retained
  <2>1. Known(r) \subseteq 1..Len(sealed)
    BY <1>3, KnownBounds DEF RecordHere
  <2>2. \A j \in Known(r) : Succeeds(sealed, keystore, sealed', keystore, Known(r), j)
    BY <1>3, <1>9, <2>1, SameSucceeds
  <2>3. Known(r) \subseteq 1..Len(sealed')
    BY <1>11, <1>3, <2>1
  <2>4. ServerOK(sealed, identities, keystore)
        /\ RecordOK(sealed, identities, keystore, Known(r), ProfileOf[t], r)
    BY <1>3 DEF SessionInv, RecordHere, Knows, Record, r
  <2>5. RecordOK(sealed', identities, keystore, Known(r), ProfileOf[t], r)
    BY <1>9, <2>1, <2>2, <2>3, <2>4, RecordStays
  <2> QED BY <1>13, <2>5
<1>15. ASSUME NEW j \in Known(r)
       PROVE  Succeeds(sealed, keystore, sealed', keystore, Known(rec), j)
  <2>1. CASE j = k
    <3>1. NextKey \in Known(rec)
      BY <1>14
    <3> QED BY <1>5, <1>6, <1>9, <2>1, <3>1 DEF Succeeds
  <2>2. CASE j \in r.retained
    <3>1. j \in Known(rec) /\ j \in 1..Len(sealed)
      BY <1>4, <1>14, <2>2
    <3> QED BY <1>3, <1>9, <3>1, SameSucceeds
  <2> QED BY <1>2, <1>15, <2>1, <2>2 DEF Known, k
<1>16. Known(rec) \subseteq 1..Len(sealed')
  BY <1>3, <1>4, <1>9, <1>11, <1>14
<1> QED BY <1>2, <1>9, <1>10, <1>13, <1>15, <1>16, WriteKeeps DEF r

\* The floor is the generation of the one keystore kept of that member.
LEMMA FloorIs ==
    ASSUME NEW I, NEW B, NEW K, NEW p, NEW r, RecordOK(sealed, I, B, K, p, r),
           NEW k \in Known(r)
    PROVE  Floor(r, MemberOf(k)) = Generation(k)
<1> DEFINE m == MemberOf(k)
           known == {j \in {r.key} \cup (IF r = NoRecord THEN {} ELSE r.retained) :
                        j # NoKeystore /\ MemberOf(j) = m}
<1>1. r # NoRecord
  BY DEF Known
<1>2. r.key \in 1..Len(sealed) /\ r.retained \subseteq 1..Len(sealed)
  BY <1>1 DEF RecordOK, FullRecord
<1>3. /\ \A j \in r.retained : MemberOf(j) # MemberOf(r.key)
      /\ \A i, j \in r.retained : MemberOf(i) = MemberOf(j) => i = j
  BY <1>1 DEF RecordOK, MemberOf
<1>4. k # NoKeystore
  BY <1>1, <1>2 DEF Known, NoKeystore
<1>5. known = {k}
  BY <1>1, <1>3, <1>4 DEF Known
<1>6. Floor(r, m) = IF known = {} THEN 0 ELSE Generation(CHOOSE j \in known : TRUE)
  BY DEF Floor
<1> HIDE DEF known
<1>7. (CHOOSE j \in known : TRUE) = k
  BY <1>5
<1> QED BY <1>5, <1>6, <1>7

\* The identities a record retains once another, or the same, is adopted.
Kept(r, m) ==
    IF r = NoRecord THEN {}
    ELSE IF MemberOf(r.key) = m THEN r.retained
    ELSE {j \in r.retained : MemberOf(j) # m} \cup {r.key}

LEMMA AdoptedIs ==
    ASSUME NEW r, r = NoRecord \/ r \in FullRecord(Len(sealed)),
           NEW k, NEW m, NEW sub, NEW remote, NEW kind
    PROVE  AdoptedRecord(r, k, m, sub, remote, kind) \in
              [key : {k}, retained : {Kept(r, m)}, bound : {sub}, acked : {remote},
               pending : {IF kind = "revoke" THEN [kind |-> kind, key |-> k] ELSE NoPending}]
<1> DEFINE pending == IF kind = "revoke" THEN [kind |-> kind, key |-> k] ELSE NoPending
           base == IF r = NoRecord THEN Created(k) ELSE Replaced(r, k, m, "none")
<1>1. AdoptedRecord(r, k, m, sub, remote, kind)
        = [base EXCEPT !.bound = sub, !.acked = remote, !.pending = pending]
  BY DEF AdoptedRecord
<1>2. base \in [key : {k}, retained : {Kept(r, m)}, bound : {base.bound}, acked : {base.acked},
                pending : {base.pending}]
  <2>1. CASE r = NoRecord
    BY <2>1 DEF Created, Kept
  <2>2. CASE r # NoRecord /\ m # MemberOf(r.key)
    BY <2>2 DEF Replaced, Created, Kept
  <2>3. CASE r # NoRecord /\ m = MemberOf(r.key)
    <3> DEFINE x == IF r.pending.kind = "revoke" THEN [r.pending EXCEPT !.key = k]
                    ELSE IF r.bound # NoSub /\ k # r.key /\ "none" # "none"
                         THEN [kind |-> "none", key |-> k]
                    ELSE IF r.pending.key = k THEN r.pending ELSE NoPending
    <3>1. base = [r EXCEPT !.key = k, !.pending = x]
      BY <2>3 DEF Replaced
    <3>2. r \in [key : {r.key}, retained : {Kept(r, m)}, bound : {r.bound}, acked : {r.acked},
                 pending : {r.pending}]
      BY <2>3 DEF FullRecord, Kept
    <3> HIDE DEF x, base
    <3> QED BY <3>1, <3>2
  <2> QED BY <2>1, <2>2, <2>3
<1> HIDE DEF base, pending
<1>3. [base EXCEPT !.bound = sub, !.acked = remote, !.pending = pending]
        \in [key : {k}, retained : {Kept(r, m)}, bound : {sub}, acked : {remote}, pending : {pending}]
  BY <1>2
<1> QED BY <1>1, <1>3 DEF pending

\* A keystore restored is then one its profile has held.
LEMMA Restoring ==
    ASSUME SessionInv, NEW p \in Profile, NEW k \in 1..Len(sealed),
           sealed' = [sealed EXCEPT ![k].on = @ \cup {p}]
    PROVE  /\ ServerOK(sealed', identities, keystore)
           /\ Grows(sealed, identities, keystore, sealed', identities, keystore)
           /\ Len(sealed') = Len(sealed) /\ p \in sealed'[k].on
<1> DEFINE e == [sealed[k] EXCEPT !.on = @ \cup {p}]
<1>1. ServerOK(sealed, identities, keystore) /\ sealed \in Seq(Entry) /\ sealed[k] \in Entry
  BY DEF SessionInv, ServerOK
<1>2. /\ e.member = sealed[k].member /\ e.generation = sealed[k].generation
      /\ e.ancestors = sealed[k].ancestors /\ e.on = sealed[k].on \cup {p} /\ e \in Entry
  BY <1>1 DEF Entry
<1>3. sealed' = [sealed EXCEPT ![k] = e]
  OBVIOUS
<1> HIDE DEF e
<1>4. /\ sealed' \in Seq(Entry) /\ Len(sealed') = Len(sealed) /\ sealed'[k] = e
      /\ \A j \in 1..Len(sealed) : j # k => sealed'[j] = sealed[j]
  <2>1. /\ [sealed EXCEPT ![k] = e] \in Seq(Entry)
        /\ Len([sealed EXCEPT ![k] = e]) = Len(sealed)
        /\ \A j \in 1..Len(sealed) : [sealed EXCEPT ![k] = e][j] = IF j = k THEN e ELSE sealed[j]
    BY <1>1, <1>2, ExceptSeq
  <2> QED BY <1>3, <2>1
<1>5. \A j \in 1..Len(sealed) :
         /\ sealed'[j].member = sealed[j].member /\ sealed'[j].generation = sealed[j].generation
         /\ sealed'[j].ancestors = sealed[j].ancestors /\ sealed[j].on \subseteq sealed'[j].on
  BY <1>2, <1>4
<1>6. \A x \in DOMAIN keystore :
         /\ keystore[x] \in 0..Len(sealed)
         /\ keystore[x] # NoKeystore => keystore[x] \in 1..Len(sealed)
  BY <1>1 DEF ServerOK, NoKeystore
<1>7. ServerOK(sealed', identities, keystore)
  BY <1>1, <1>4, <1>5, <1>6 DEF ServerOK
<1>8. \A x \in DOMAIN keystore : Gen(sealed', keystore[x]) = Gen(sealed, keystore[x])
                                 /\ Gen(sealed, keystore[x]) \in Nat
  BY <1>1, <1>5, <1>6, GenIsNat DEF Gen
<1>9. Grows(sealed, identities, keystore, sealed', identities, keystore)
  BY <1>1, <1>4, <1>5, <1>8, GrowsReflexive DEF Grows
<1> QED BY <1>2, <1>4, <1>7, <1>9

LEMMA AdoptKeeps ==
    ASSUME SessionInv, NEW t \in Tab, NEW byCode \in BOOLEAN, Adopt(t, byCode)
    PROVE  SessionInv'
<1> DEFINE task == tabs[t].task
           m == task.member
           b == task.backup
           r == Record(t)
           k == IF byCode THEN NextKey ELSE b
           kind == IF byCode THEN "revoke" ELSE "none"
           rec == AdoptedRecord(r, k, m, task.sub, b, kind)
           upload == [at |-> "lock", api |-> "backup", pendingOnly |-> TRUE]
           next == IF byCode THEN upload ELSE Idle
           tab == [tabs[t] EXCEPT !.handle = k, !.me = m, !.view = rec, !.conflict = FALSE,
                                  !.task = next]
           p == ProfileOf[t]
<1>1. UNCHANGED <<identities, keystore, cache, auth, late>> /\ tabs = [u \in Tab |-> tabs[u]]
  BY DEF Adopt, bindVars, calm, SessionInv, TabsOK
<1>2. CASE Step(t, upload) /\ UNCHANGED <<sealed, records>>
  <2>1. TaskNow(t, upload)
    BY <1>1, <1>2, TabFacts, SimpleTasks
  <2> HIDE DEF upload
  <2> QED BY <1>1, <1>2, <2>1, StepKeeps
<1>3. CASE (Quit(t) \/ Conflict(t)) /\ UNCHANGED <<sealed, records>>
  BY <1>1, <1>3, QuitKeeps, ConflictKeeps
<1>4. CASE /\ ~(Generation(b) < Floor(r, m))
           /\ IF byCode THEN Seal(t, m, Generation(b) + 1, b)
              ELSE sealed' = [sealed EXCEPT ![k].on = @ \cup {p}]
           /\ Save(t, rec) /\ tabs' = [tabs EXCEPT ![t] = tab]
  <2>1. /\ IsTab(tabs[t]) /\ RecordHere(t, r) /\ p \in Profile
        /\ ServerOK(sealed, identities, keystore) /\ sealed \in Seq(Entry) /\ Len(sealed) \in Nat
        /\ Answered(sealed, identities, keystore, Knows(p), p, task) /\ task.at = "adopt"
    BY TabHere, TaskShapes DEF TaskHere, Adopt, ServerOK
  <2>2. /\ task.sub \in Sub /\ task.sub \in DOMAIN identities /\ identities[task.sub] = m
        /\ m \in MemberId /\ m \in DOMAIN keystore
        /\ b \in 1..Len(sealed) /\ b \in 0..Len(sealed) /\ b # NoKeystore
        /\ sealed[b].member = m /\ Gen(sealed, b) <= Gen(sealed, keystore[m])
    <3>1. /\ AnswerOK(sealed, identities, keystore, task.sub, m, b) /\ b # NoKeystore
      BY <2>1 DEF Answered
    <3>2. /\ task.sub \in Sub /\ task.sub \in DOMAIN identities /\ identities[task.sub] = m
          /\ b \in 0..Len(sealed) /\ sealed[b].member = m
          /\ Gen(sealed, b) <= Gen(sealed, keystore[m])
      BY <3>1 DEF AnswerOK
    <3>3. b \in 1..Len(sealed)
      BY <2>1, <3>1, <3>2 DEF NoKeystore
    <3> QED BY <2>1, <3>1, <3>2, <3>3 DEF ServerOK
  <2>3. Generation(b) = Gen(sealed, b) /\ Gen(sealed, b) \in Nat /\ Gen(sealed, keystore[m]) \in Nat
    <3>1. keystore[m] \in 0..Len(sealed)
      BY <2>1, <2>2 DEF ServerOK
    <3> QED BY <2>1, <2>2, <3>1, GenIsNat DEF Generation, Gen
  <2>4. task.sub # NoSub
    BY <2>2, SessionAssumption
  <2>5. r = NoRecord \/ (r # NoRecord /\ r \in FullRecord(Len(sealed)))
    BY <2>1 DEF RecordHere, RecordOK
  <2>6. /\ rec.key = k /\ rec.retained = Kept(r, m) /\ rec.bound = task.sub /\ rec.acked = b
        /\ rec.pending = IF kind = "revoke" THEN [kind |-> kind, key |-> k] ELSE NoPending
        /\ rec \in [key : {k}, retained : {Kept(r, m)}, bound : {task.sub}, acked : {b},
                    pending : {rec.pending}]
    <3> DEFINE pending == IF kind = "revoke" THEN [kind |-> kind, key |-> k] ELSE NoPending
    <3>1. rec \in [key : {k}, retained : {Kept(r, m)}, bound : {task.sub}, acked : {b},
                   pending : {pending}]
      BY <2>5, AdoptedIs
    <3> HIDE DEF rec, pending
    <3>2. /\ rec.key = k /\ rec.retained = Kept(r, m) /\ rec.bound = task.sub /\ rec.acked = b
          /\ rec.pending = pending
      BY <3>1
    <3> QED BY <3>1, <3>2 DEF pending
  <2>7. IsTab(tab) /\ tab.view = rec /\ Simple(tab.task)
    <3>1. Simple(next)
      BY SimpleTasks
    <3> HIDE DEF next, rec, k, m
    <3>2. IsTab(tab) /\ tab.view = rec /\ tab.task = next
      BY <2>1 DEF IsTab
    <3> QED BY <3>1, <3>2
  <2>8. kind \in {"revoke", "none"} /\ (byCode <=> kind = "revoke")
    OBVIOUS
  <2>9. /\ ServerOK(sealed', identities, keystore)
        /\ Grows(sealed, identities, keystore, sealed', identities, keystore)
        /\ k \in 1..Len(sealed') /\ sealed'[k].member = m /\ p \in sealed'[k].on
        /\ byCode => /\ Gen(sealed', k) = Gen(sealed, b) + 1 /\ From(sealed', k, b)
                     /\ k \notin 1..Len(sealed)
    <3>1. CASE byCode
      <4> DEFINE g == Generation(b) + 1
      <4>1. g \in Nat /\ Seal(t, m, g, b)
        BY <1>4, <2>3, <3>1
      <4>2. From(sealed, b, b)
        BY DEF From
      <4>3. g = Gen(sealed, b) + 1 /\ k = NextKey
        BY <2>3, <3>1
      <4> HIDE DEF g, k, m, b
      <4>4. /\ ServerOK(sealed', identities, keystore)
            /\ Grows(sealed, identities, keystore, sealed', identities, keystore)
            /\ NextKey \in 1..Len(sealed') /\ NextKey \notin 1..Len(sealed)
            /\ sealed'[NextKey].member = m /\ Gen(sealed', NextKey) = g
            /\ sealed'[NextKey].on = {ProfileOf[t]}
            /\ \A j : From(sealed, b, j) => From(sealed', NextKey, j)
        BY <2>2, <4>1, Sealing
      <4> QED BY <4>2, <4>3, <4>4
    <3>2. CASE ~byCode
      <4>1. k = b /\ sealed' = [sealed EXCEPT ![b].on = @ \cup {p}]
        BY <1>4, <3>2
      <4>2. /\ ServerOK(sealed', identities, keystore)
            /\ Grows(sealed, identities, keystore, sealed', identities, keystore)
            /\ Len(sealed') = Len(sealed) /\ p \in sealed'[b].on
        <5> HIDE DEF b, p
        <5> QED BY <2>1, <2>2, <4>1, Restoring
      <4>3. sealed'[b].member = m
        BY <2>2, <4>2 DEF Grows
      <4> QED BY <2>2, <3>2, <4>1, <4>2, <4>3
    <3> QED BY <3>1, <3>2
  <2> HIDE DEF task, m, b, r, k, kind, rec, tab, p, next
  <2>10. Len(sealed') \in Nat /\ Len(sealed) <= Len(sealed') /\ sealed' \in Seq(Entry)
    BY <2>9 DEF ServerOK, Grows
  <2>11. /\ Kept(r, m) \subseteq Known(r) /\ Known(r) \subseteq 1..Len(sealed)
         /\ \A j \in Known(r) : sealed[j].member # m => j \in Kept(r, m)
         /\ \A j \in Kept(r, m) : sealed[j].member # m
         /\ \A i, j \in Kept(r, m) : sealed[i].member = sealed[j].member => i = j
    <3>1. CASE r = NoRecord
      BY <3>1 DEF Kept, Known
    <3>2. CASE r # NoRecord
      <4>1. /\ r.key \in 1..Len(sealed) /\ r.retained \subseteq 1..Len(sealed)
            /\ \A j \in r.retained : sealed[j].member # sealed[r.key].member
            /\ \A i, j \in r.retained : sealed[i].member = sealed[j].member => i = j
        BY <2>5, <2>1, <3>2 DEF FullRecord, RecordHere, RecordOK
      <4>2. Known(r) = {r.key} \cup r.retained
        BY <3>2 DEF Known
      <4>3. CASE sealed[r.key].member = m
        BY <3>2, <4>1, <4>2, <4>3 DEF Kept, MemberOf
      <4>4. CASE sealed[r.key].member # m
        <5>1. Kept(r, m) = {j \in r.retained : sealed[j].member # m} \cup {r.key}
          BY <3>2, <4>4 DEF Kept, MemberOf
        <5> QED BY <4>1, <4>2, <4>4, <5>1
      <4> QED BY <4>3, <4>4
    <3> QED BY <3>1, <3>2
  <2>12. rec # NoRecord /\ Known(rec) = {k} \cup Kept(r, m)
    <3>1. rec # NoRecord
      BY <2>6, <2>9 DEF NoRecord, NoKeystore
    <3> QED BY <2>6, <3>1 DEF Known
  <2>13. Known(rec) \subseteq 1..Len(sealed')
    BY <2>1, <2>9, <2>10, <2>11, <2>12
  <2>14. ASSUME NEW j \in Known(r)
         PROVE  Succeeds(sealed, keystore, sealed', keystore, Known(rec), j)
    <3>1. CASE sealed[j].member # m
      BY <2>1, <2>9, <2>11, <2>12, <3>1, SameSucceeds
    <3>2. CASE sealed[j].member = m
      <4>1. Floor(r, m) = Generation(j)
        <5>1. MemberOf(j) = m
          BY <3>2 DEF MemberOf
        <5> QED BY <2>1, <5>1, FloorIs DEF RecordHere
      <4>2. Generation(j) = Gen(sealed, j) /\ Gen(sealed, j) \in Nat
        <5>1. j \in 0..Len(sealed)
          BY <2>11
        <5> QED BY <2>1, <5>1, GenIsNat DEF Generation, Gen
      <4>3. Gen(sealed, j) <= Gen(sealed, keystore[m])
        BY <1>4, <2>2, <2>3, <4>1, <4>2 DEF b, m, r, task
      <4>4. Gen(sealed', keystore[m]) = Gen(sealed, keystore[m])
        <5>1. keystore[m] \in 0..Len(sealed)
          BY <2>1, <2>2 DEF ServerOK
        <5> QED BY <2>1, <2>9, <5>1, GenStays
      <4> QED BY <2>2, <3>2, <4>3, <4>4 DEF Succeeds
    <3> QED BY <3>1, <3>2
  <2>15. RecordOK(sealed', identities, keystore, Known(rec), p, rec)
    <3>1. /\ PendingOK(sealed', p, rec.pending, m)
          /\ rec.pending.kind = "revoke" => rec.pending.key = k
          /\ rec.pending \in Pending
      <4>1. rec.pending = [kind |-> "revoke", key |-> k] \/ rec.pending = NoPending
        BY <2>6, <2>8
      <4>2. CASE rec.pending = [kind |-> "revoke", key |-> k]
        <5>1. rec.pending.kind = "revoke" /\ rec.pending.key = k /\ k \in Nat
          BY <2>9, <4>2
        <5>2. rec.pending \in Pending
          BY <4>2, <5>1 DEF Pending
        <5> QED BY <2>9, <5>1, <5>2 DEF PendingOK
      <4>3. CASE rec.pending = NoPending
        BY <4>3 DEF NoPending, PendingOK, Pending, NoKeystore
      <4> QED BY <4>1, <4>2, <4>3
    <3>2. rec \in FullRecord(Len(sealed'))
      <4>1. Kept(r, m) \in SUBSET (1..Len(sealed')) /\ b \in 0..Len(sealed')
        BY <2>1, <2>2, <2>10, <2>11
      <4> QED BY <2>2, <2>6, <2>9, <3>1, <4>1 DEF FullRecord
    <3>3. \A j \in Kept(r, m) : sealed'[j].member = sealed[j].member
      BY <2>9, <2>11 DEF Grows
    <3>4. /\ \A j \in rec.retained : sealed'[j].member # m
          /\ \A i, j \in rec.retained : sealed'[i].member = sealed'[j].member => i = j
      BY <2>6, <2>11, <3>3
    <3>5. /\ sealed'[b].member = m /\ Gen(sealed', b) = Gen(sealed, b)
          /\ Gen(sealed', b) <= Gen(sealed', keystore[m])
      <4>1. keystore[m] \in 0..Len(sealed)
        BY <2>1, <2>2 DEF ServerOK
      <4>2. Gen(sealed', b) = Gen(sealed, b) /\ Gen(sealed', keystore[m]) = Gen(sealed, keystore[m])
        BY <2>1, <2>2, <2>9, <4>1, GenStays
      <4> QED BY <2>2, <2>9, <4>2 DEF Grows
    <3>6. Tracked(sealed', keystore, Known(rec), p, b)
      <4>1. CASE byCode
        <5>1. k \in Known(rec) /\ sealed'[k].member = sealed'[b].member /\ From(sealed', k, b)
              /\ Gen(sealed', b) < Gen(sealed', k)
          BY <2>3, <2>9, <2>12, <3>5, <4>1
        <5> QED BY <5>1 DEF Tracked
      <4>2. CASE ~byCode
        <5>1. p \in sealed'[b].on
          BY <2>9, <4>2 DEF k
        <5> QED BY <5>1 DEF Tracked
      <4> QED BY <4>1, <4>2
    <3> QED BY <2>2, <2>4, <2>6, <2>9, <2>12, <3>1, <3>2, <3>4, <3>5, <3>6 DEF RecordOK
  <2>16. records' = [records EXCEPT ![ProfileOf[t]] = rec] /\ tabs' = [tabs EXCEPT ![t] = tab]
    BY <1>4 DEF Save, rec, r, task, m, b, k, kind, tab, next
  <2> QED BY <1>1, <2>7, <2>9, <2>13, <2>14, <2>15, <2>16, WriteKeeps DEF r, p
<1> QED BY <1>1, <1>2, <1>3, <1>4 DEF Adopt

-----------------------------------------------------------------------------
(* The invariant holds, and the bindings stay one to one.                  *)

LEMMA SessionStarts == ASSUME AccountInit, SessionInit PROVE SessionInv
<1>1. sealed = << >> /\ identities = << >> /\ keystore = << >> /\ late = {}
      /\ cache = [i \in Instance |-> << >>] /\ records = [p \in Profile |-> NoRecord]
      /\ auth = [p \in Profile |-> NoSub] /\ tabs = [t \in Tab |-> Fresh(NoRecord)]
  BY DEF AccountInit, SessionInit
<1>2. ServerOK(sealed, identities, keystore) /\ CachesOK
  BY <1>1 DEF ServerOK, CachesOK
<1>3. RecordsOK
  BY <1>1 DEF RecordsOK, RecordOK
<1>4. TabsOK
  <2>1. IsTab(Fresh(NoRecord)) /\ Fresh(NoRecord).view = NoRecord /\ Fresh(NoRecord).task = Idle
    BY DEF IsTab, Fresh
  <2>2. \A t \in Tab : TabOK(sealed, identities, keystore, Knows(ProfileOf[t]), ProfileOf[t],
                             Fresh(NoRecord))
    BY <2>1, SimpleTasks DEF TabOK, RecordOK, TaskOK
  <2> HIDE DEF Fresh
  <2> QED BY <1>1, <2>2 DEF TabsOK
<1> QED BY <1>1, <1>2, <1>3, <1>4 DEF SessionInv

LEMMA LocalKeeps == ASSUME SessionInv, NEW t \in Tab, Local(t) PROVE SessionInv'
<1>1. CASE CreateAccount(t)
  BY <1>1, CreateAccountKeeps
<1>2. CASE Unlock(t) \/ Lock(t) \/ Reopen(t)
  BY <1>2, UnlockKeeps, LockKeeps, ReopenKeeps
<1>3. CASE \E call \in {"recover", "changePassphrase", "revokeCredentials"} : Mutate(t, call)
  BY <1>3, MutateKeeps
<1>4. CASE \E s \in Sub \cup {NoSub} : AuthChange(t, s)
  BY <1>4, AuthChangeKeeps
<1> QED BY <1>1, <1>2, <1>3, <1>4 DEF Local

LEMMA RemoteKeeps == ASSUME SessionInv, NEW t \in Tab, Remote(t, Api) PROVE SessionInv'
<1>1. CASE \E api \in Api : Call(t, api)
  BY <1>1, CallKeeps
<1>2. CASE EnterBackup(t) \/ Keep(t) \/ Fails(t)
  BY <1>2, EnterBackupKeeps, KeepKeeps, FailsKeeps
<1>3. CASE Probe(t) \/ ProbeOfAnother(t)
  BY <1>3, ProbeKeeps, ProbeOfAnotherKeeps
<1>4. CASE RegisterSelf(t) \/ Stage(t) \/ Snapshot(t)
  BY <1>4, RegisterSelfKeeps, StageKeeps, SnapshotKeeps
<1>5. CASE UploadKeystore(t) \/ Acknowledge(t)
  BY <1>5, UploadKeystoreKeeps, AcknowledgeKeeps
<1>6. CASE \E byCode \in BOOLEAN : Adopt(t, byCode)
  BY <1>6, AdoptKeeps
<1> QED BY <1>1, <1>2, <1>3, <1>4, <1>5, <1>6 DEF Remote

LEMMA SessionStepKeeps == SessionInv /\ [EveryNext]_SessionVars => SessionInv'
<1> SUFFICES ASSUME SessionInv, [EveryNext]_SessionVars PROVE SessionInv'
  OBVIOUS
<1>1. CASE \E t \in Tab : Local(t) \/ Remote(t, Api)
  BY <1>1, LocalKeeps, RemoteKeeps
<1>2. CASE \E put \in late : UploadLate(put)
  BY <1>2, UploadLateKeeps
<1>3. CASE (Binding \/ Verifying) /\ UNCHANGED sessionVars
  BY <1>3, BesideKeeps
<1>4. CASE UNCHANGED SessionVars
  BY <1>4, BesideKeeps DEF SessionVars
<1> QED BY <1>1, <1>2, <1>3, <1>4 DEF EveryNext, SessionNext

LEMMA SessionInvHolds == SessionSpec => []SessionInv
BY SessionStarts, SessionStepKeeps, PTL DEF SessionSpec

\* Whatever registrations race, on any tab and device, two subjects never share a
\* member, no process remembers a binding the table does not hold, and a profile's
\* binding is the server's (account.rs: bind_identity; accountRecord.js:
\* confirmAccountBinding).
THEOREM BindingsStayExclusive == SessionSpec => []BindingsAreExclusive
<1>1. SessionInv => BindingsAreExclusive
  <2> SUFFICES ASSUME SessionInv PROVE BindingsAreExclusive
    OBVIOUS
  <2>1. \A s, t \in DOMAIN identities : identities[s] = identities[t] => s = t
    BY DEF SessionInv, ServerOK
  <2>2. \A i \in Instance : \A s \in DOMAIN cache[i] :
           s \in DOMAIN identities /\ cache[i][s] = identities[s]
    BY DEF SessionInv, CachesOK
  <2>3. ASSUME NEW p \in Profile, records[p] # NoRecord, records[p].bound # NoSub
        PROVE  /\ records[p].bound \in DOMAIN identities
               /\ identities[records[p].bound] = MemberOf(records[p].key)
    BY <2>3 DEF SessionInv, RecordsOK, RecordOK, MemberOf
  <2> QED BY <2>1, <2>2, <2>3 DEF BindingsAreExclusive
<1> QED BY <1>1, SessionInvHolds, PTL

-----------------------------------------------------------------------------
(* An upload follows what it replaces.                                     *)

BackupsFollow ==
    \A m \in DOMAIN keystore : keystore'[m] # keystore[m] =>
        MemberOf(keystore'[m]) = m /\ Follows(keystore'[m], keystore[m])

LEMMA UnchangedFollow == ASSUME UNCHANGED keystore PROVE BackupsFollow
BY DEF BackupsFollow

LEMMA PutFollows ==
    ASSUME SessionInv, NEW put, UploadOK(sealed, keystore, put),
           PutKeystore(put.member, put.key, put.ifMatch)
    PROVE  BackupsFollow
<1> DEFINE m == put.member
           k == put.key
<1>1. CASE ~Accepts(m, k, put.ifMatch)
  BY <1>1, UnchangedFollow DEF PutKeystore
<1>2. CASE Accepts(m, k, put.ifMatch)
  <2> SUFFICES ASSUME NEW x \in DOMAIN keystore, keystore'[x] # keystore[x]
               PROVE  MemberOf(keystore'[x]) = x /\ Follows(keystore'[x], keystore[x])
    BY DEF BackupsFollow
  <2>1. keystore' = [keystore EXCEPT ![m] = k]
    BY <1>2 DEF PutKeystore
  <2>2. x = m /\ keystore'[x] = k /\ keystore[m] = put.ifMatch
    BY <1>2, <2>1 DEF Accepts
  <2>3. sealed[k].member = m
    BY DEF UploadOK
  <2>4. CASE put.ifMatch = NoKeystore
    BY <2>2, <2>3, <2>4 DEF Follows, Descends, MemberOf
  <2>5. CASE put.ifMatch # NoKeystore
    <3>1. keystore[m] \in 0..Len(sealed) /\ sealed \in Seq(Entry)
      BY DEF SessionInv, ServerOK, UploadOK
    <3>2. Gen(sealed, keystore[m]) \in Nat
      BY <3>1, GenIsNat
    <3>3. Meets(sealed, k, put.ifMatch) \/ Gen(sealed, put.ifMatch) < Gen(sealed, keystore[m])
      BY <2>5 DEF UploadOK
    <3>4. Meets(sealed, k, put.ifMatch)
      BY <2>2, <3>2, <3>3
    <3> QED BY <2>2, <2>3, <3>4 DEF Follows, Descends, MemberOf, Meets, From
  <2> QED BY <2>4, <2>5
<1> QED BY <1>1, <1>2

LEMMA RegisterFollows ==
    ASSUME SessionInv, NEW i, NEW s, NEW m, Register(i, s, m) PROVE BackupsFollow
<1>1. CASE UNCHANGED keystore
  BY <1>1, UnchangedFollow
<1>2. CASE Bindable(s, m) /\ keystore' = Put(keystore, m, NoKeystore)
  <2>1. m \notin DOMAIN keystore
    BY <1>2 DEF SessionInv, ServerOK, Bindable, Range
  <2> QED BY <1>2, <2>1 DEF Put, BackupsFollow
<1> QED BY <1>1, <1>2 DEF Register

LEMMA StepFollows == SessionInv /\ [EveryNext]_SessionVars => BackupsFollow
<1> SUFFICES ASSUME SessionInv, [EveryNext]_SessionVars PROVE BackupsFollow
  OBVIOUS
<1>1. ASSUME NEW t \in Tab, Local(t) PROVE BackupsFollow
  BY <1>1, UnchangedFollow
     DEF Local, CreateAccount, Unlock, Lock, Mutate, Reopen, AuthChange, Unsaved, accountVars,
         backupVars
<1>2. ASSUME NEW t \in Tab, Remote(t, Api) PROVE BackupsFollow
  <2>1. CASE RegisterSelf(t)
    BY <2>1, RegisterFollows, UnchangedFollow DEF RegisterSelf, accountVars, backupVars
  <2>2. CASE UploadKeystore(t)
    <3>1. UploadOK(sealed, keystore, tabs[t].task.upload)
      BY <2>2, TabHere, TaskShapes DEF TaskHere, UploadKeystore, Puts
    <3> QED BY <2>2, <3>1, PutFollows DEF UploadKeystore
  <2>3. CASE ~RegisterSelf(t) /\ ~UploadKeystore(t)
    <3>1. UNCHANGED keystore
      BY <1>2, <2>3
         DEF Remote, Call, EnterBackup, Probe, ProbeOfAnother, Keep, Fails, Stage, Snapshot,
             Acknowledge, Adopt, NoAnswer, accountVars, backupVars
    <3> QED BY <3>1, UnchangedFollow
  <2> QED BY <2>1, <2>2, <2>3
<1>3. ASSUME NEW put \in late, UploadLate(put) PROVE BackupsFollow
  BY <1>3, PutFollows DEF UploadLate, SessionInv
<1>4. CASE Binding
  <2>1. PICK i \in Instance, s \in Sub :
           (\E m \in MemberId : Register(i, s, m)) \/ Resolve(i, s) \/ Restart(i)
    BY <1>4 DEF Binding
  <2>2. CASE \E m \in MemberId : Register(i, s, m)
    BY <2>2, RegisterFollows
  <2>3. CASE Resolve(i, s) \/ Restart(i)
    BY <2>3, UnchangedFollow DEF Resolve, Restart, backupVars
  <2> QED BY <2>1, <2>2, <2>3
<1>5. CASE Verifying
  BY <1>5, UnchangedFollow DEF Verifying, Publish, Present, TakeRefresh, Fetched, FetchFails, backupVars
<1>6. CASE UNCHANGED SessionVars
  BY <1>6, UnchangedFollow DEF SessionVars, accountVars, backupVars
<1> QED BY <1>1, <1>2, <1>3, <1>4, <1>5, <1>6 DEF EveryNext, SessionNext

\* No upload, early or late, from any tab of any device, replaces a keystore it was
\* not sealed from and its profile has never held, and no checkpoint is ahead of the
\* server (accountSession.js: acceptRegisteredProbe, backupUnderLock; account.rs:
\* put_keystore).
THEOREM OverwritesFollow == SessionSpec => NoUnseenOverwrite
<1>1. SessionInv => CheckpointsStand
  <2> SUFFICES ASSUME SessionInv, NEW p \in Profile, records[p] # NoRecord,
                      records[p].acked # NoKeystore
               PROVE  Generation(records[p].acked)
                        <= Generation(keystore[identities[records[p].bound]])
    BY DEF CheckpointsStand
  <2> DEFINE r == records[p]
  <2>1. RecordOK(sealed, identities, keystore, Knows(p), p, r) /\ r # NoRecord
        /\ r.acked # NoKeystore
    BY DEF SessionInv, RecordsOK
  <2> HIDE DEF r
  <2>2. /\ identities[r.bound] = sealed[r.key].member
        /\ Gen(sealed, r.acked) <= Gen(sealed, keystore[sealed[r.key].member])
    BY <2>1 DEF RecordOK
  <2>3. Gen(sealed, r.acked) <= Gen(sealed, keystore[identities[r.bound]])
    BY <2>2
  <2> QED BY <2>3 DEF r, Generation, Gen
<1>2. SessionInv /\ SessionInv' /\ [EveryNext]_SessionVars
         => [UploadsFollow]_<<keystore, records>>
  BY <1>1, StepFollows, PTL DEF UploadsFollow, BackupsFollow
<1> QED BY <1>2, SessionInvHolds, PTL DEF SessionSpec, NoUnseenOverwrite

-----------------------------------------------------------------------------
(* A revocation stays pending until the server is as new.                  *)

RevocationStands(p, r2) ==
    LET rec == records[p] IN
    /\ rec # NoRecord /\ rec.pending.kind = "revoke" /\ r2.pending.kind # "revoke"
    /\ MemberOf(r2.key) = MemberOf(rec.key)
    => Generation(keystore'[MemberOf(rec.key)]) >= Generation(rec.pending.key)

\* What a revocation pending says of its record.
LEMMA PendingRevocation ==
    ASSUME SessionInv, NEW p \in Profile, records[p] # NoRecord,
           records[p].pending.kind = "revoke"
    PROVE  LET r == records[p]
           IN  /\ RecordOK(sealed, identities, keystore, Knows(p), p, r)
               /\ r.pending.key = r.key /\ r.key \in 1..Len(sealed)
               /\ Generation(r.key) = Gen(sealed, r.key) /\ Gen(sealed, r.key) \in Nat
               /\ r.bound \in DOMAIN identities /\ identities[r.bound] = MemberOf(r.key)
               /\ r.bound # NoSub
<1> DEFINE r == records[p]
<1>1. RecordOK(sealed, identities, keystore, Knows(p), p, r) /\ r # NoRecord
      /\ r.pending.kind = "revoke"
  BY DEF SessionInv, RecordsOK
<1> HIDE DEF r
<1>2. /\ r.pending.key = r.key /\ r.key \in 1..Len(sealed) /\ r.bound # NoSub
      /\ r.bound \in DOMAIN identities /\ identities[r.bound] = MemberOf(r.key)
  BY <1>1 DEF RecordOK, FullRecord, NoPending, MemberOf
<1>3. sealed \in Seq(Entry) /\ r.key \in 0..Len(sealed)
  BY <1>2 DEF SessionInv, ServerOK
<1>4. Gen(sealed, r.key) \in Nat
  BY <1>3, GenIsNat
<1> QED BY <1>1, <1>2, <1>4 DEF r, Generation, Gen

LEMMA OneRecordStands ==
    ASSUME SessionInv, NEW t \in Tab, NEW r2, Save(t, r2), RevocationStands(ProfileOf[t], r2)
    PROVE  RevocationsStand
<1>1. records = [p \in Profile |-> records[p]] /\ ProfileOf[t] \in Profile
  BY ProfileOfTab DEF SessionInv, RecordsOK
<1>2. \A p \in Profile : records'[p] = IF p = ProfileOf[t] THEN r2 ELSE records[p]
  BY <1>1 DEF Save
<1> QED BY <1>2 DEF RevocationsStand, RevocationStands

LEMMA SameRecordsStand == ASSUME UNCHANGED records PROVE RevocationsStand
BY DEF RevocationsStand

LEMMA ProbeStands == ASSUME SessionInv, NEW t \in Tab, Probe(t) PROVE RevocationsStand
<1> DEFINE task == Answer(t)
           view == tabs[t].view
           ok == Reconciles(view, task)
           confirms == ok /\ task.member # NoMember /\ view.bound # task.sub
           r == Record(t)
           rec == IF confirms THEN Confirmed(r, task.sub) ELSE r
<1>1. CASE UNCHANGED records
  BY <1>1, SameRecordsStand
<1>2. CASE task.sub # NoSub /\ ~(confirms /\ LocalMember(r) # task.member) /\ Save(t, rec)
  <2>1. RevocationStands(ProfileOf[t], rec)
    <3> SUFFICES ASSUME r # NoRecord, r.pending.kind = "revoke", rec.pending.kind # "revoke"
                 PROVE  FALSE
      BY DEF RevocationStands, Record
    <3>1. confirms /\ LocalMember(r) = task.member
      BY <1>2
    <3>2. /\ r.bound \in DOMAIN identities /\ identities[r.bound] = MemberOf(r.key)
      BY PendingRevocation, ProfileOfTab DEF Record
    <3>3. task.sub = Subject(t) /\ Subject(t) # NoSub
      BY <1>2 DEF Answer
    <3>4. AnswerOK(sealed, identities, keystore, task.sub, task.member, task.backup)
      BY <3>3, AnswerStands
    <3>5. task.sub \in DOMAIN identities /\ identities[task.sub] = task.member
      <4> HIDE DEF task
      <4> QED BY <3>1, <3>4 DEF AnswerOK
    <3>6. r.bound = task.sub
      <4> HIDE DEF task
      <4>1. identities[r.bound] = identities[task.sub]
        BY <3>1, <3>2, <3>5 DEF LocalMember
      <4> QED BY <3>2, <3>5, <4>1 DEF SessionInv, ServerOK
    <3> QED BY <3>6 DEF Confirmed
  <2> HIDE DEF rec
  <2> QED BY <1>2, <2>1, OneRecordStands
<1> QED BY <1>1, <1>2 DEF Probe

LEMMA StageStands == ASSUME SessionInv, NEW t \in Tab, Stage(t) PROVE RevocationsStand
<1> DEFINE r == Record(t)
<1>1. CASE UNCHANGED records
  BY <1>1, SameRecordsStand
<1>2. CASE Save(t, Staged(r))
  <2>1. RevocationStands(ProfileOf[t], Staged(r))
    <3> SUFFICES ASSUME r # NoRecord, r.pending.kind = "revoke"
                 PROVE  Staged(r).pending.kind = "revoke"
      BY DEF RevocationStands, Record
    <3>1. r.pending.key = r.key /\ Generation(r.key) \in Nat
      BY PendingRevocation, ProfileOfTab DEF Record
    <3> QED BY <3>1 DEF Staged
  <2> QED BY <1>2, <2>1, OneRecordStands
<1> QED BY <1>1, <1>2 DEF Stage

LEMMA AcknowledgeStands == ASSUME SessionInv, NEW t \in Tab, Acknowledge(t) PROVE RevocationsStand
<1> DEFINE r == Record(t)
           task == tabs[t].task
           rec == Acknowledged(r, task.expected)
           p == ProfileOf[t]
<1>1. CASE UNCHANGED records
  BY <1>1, SameRecordsStand
<1>2. CASE Save(t, rec)
  <2>1. RevocationStands(p, rec)
    <3> SUFFICES ASSUME r # NoRecord, r.pending.kind = "revoke", rec.pending.kind # "revoke"
                 PROVE  Generation(keystore[MemberOf(r.key)]) >= Generation(r.pending.key)
      BY DEF RevocationStands, Record, Acknowledge, accountVars, backupVars
    <3>1. r.pending = task.expected
      BY DEF Acknowledged
    <3>2. /\ RecordOK(sealed, identities, keystore, Knows(p), p, r)
          /\ r.pending.key = r.key /\ Generation(r.key) \in Nat /\ r.key \in 1..Len(sealed)
      BY PendingRevocation, ProfileOfTab DEF Record
    <3>3. Puts(sealed, identities, keystore, p, task) /\ task.at = "stored"
      BY TabHere, TaskShapes DEF TaskHere, Acknowledge
    <3>4. /\ Gen(sealed, r.key) <= Gen(sealed, keystore[identities[task.sub]])
          /\ sealed[r.key].member = identities[task.sub]
      <4> HIDE DEF task, r
      <4> QED BY <3>1, <3>2, <3>3 DEF Puts, PendingOK
    <3>5. keystore[MemberOf(r.key)] \in 0..Len(sealed)
      <4>1. task.sub \in DOMAIN identities
        BY <3>3 DEF Puts
      <4> QED BY <3>4, <4>1 DEF SessionInv, ServerOK, MemberOf
    <3>6. Gen(sealed, keystore[MemberOf(r.key)]) \in Nat
      BY <3>5, GenIsNat DEF SessionInv, ServerOK
    <3>7. Gen(sealed, r.key) <= Gen(sealed, keystore[MemberOf(r.key)])
      BY <3>4 DEF MemberOf
    <3> HIDE DEF r
    <3>8. Generation(r.key) = Gen(sealed, r.key)
          /\ Generation(keystore[MemberOf(r.key)]) = Gen(sealed, keystore[MemberOf(r.key)])
      BY DEF Generation, Gen
    <3> QED BY <3>2, <3>6, <3>7, <3>8
  <2> HIDE DEF rec
  <2> QED BY <1>2, <2>1, OneRecordStands
<1> QED BY <1>1, <1>2 DEF Acknowledge

LEMMA MutateStands == ASSUME SessionInv, NEW t \in Tab, NEW call, Mutate(t, call) PROVE RevocationsStand
<1> DEFINE r == Record(t)
           kind == IF call = "changePassphrase" THEN "backup" ELSE "revoke"
           rec == Replaced(r, NextKey, MemberOf(r.key), kind)
<1>1. Save(t, rec) /\ rec = Rekeyed(r, NextKey, kind)
  BY DEF Mutate, Replaced, Rekeyed
<1>2. RevocationStands(ProfileOf[t], rec)
  <2> SUFFICES ASSUME r # NoRecord, r.pending.kind = "revoke"
               PROVE  rec.pending.kind = "revoke"
    BY DEF RevocationStands, Record
  <2>1. r \in FullRecord(Len(sealed))
    BY TabHere DEF RecordHere, RecordOK
  <2>2. r.pending \in Pending
    BY <2>1 DEF FullRecord
  <2> DEFINE pending == [r.pending EXCEPT !.key = NextKey]
  <2>3. pending.kind = "revoke"
    BY <2>2 DEF Pending
  <2>4. Rekeyed(r, NextKey, kind) = [r EXCEPT !.key = NextKey, !.pending = pending]
    BY DEF Rekeyed
  <2> HIDE DEF pending, r
  <2>5. [r EXCEPT !.key = NextKey, !.pending = pending].pending = pending
    BY <2>1 DEF FullRecord
  <2> QED BY <1>1, <2>3, <2>4, <2>5
<1> HIDE DEF rec
<1> QED BY <1>1, <1>2, OneRecordStands

LEMMA AdoptStands ==
    ASSUME SessionInv, NEW t \in Tab, NEW byCode \in BOOLEAN, Adopt(t, byCode)
    PROVE  RevocationsStand
<1> DEFINE task == tabs[t].task
           m == task.member
           b == task.backup
           r == Record(t)
           k == IF byCode THEN NextKey ELSE b
           kind == IF byCode THEN "revoke" ELSE "none"
           rec == AdoptedRecord(r, k, m, task.sub, b, kind)
           p == ProfileOf[t]
<1>1. CASE UNCHANGED records
  BY <1>1, SameRecordsStand
<1>2. CASE ~(Generation(b) < Floor(r, m)) /\ Save(t, rec)
  <2>1. UNCHANGED keystore
    BY DEF Adopt
  <2>2. RevocationStands(p, rec)
    <3> SUFFICES ASSUME r # NoRecord, r.pending.kind = "revoke", rec.pending.kind # "revoke",
                        MemberOf(rec.key) = MemberOf(r.key)
                 PROVE  Generation(keystore[MemberOf(r.key)]) >= Generation(r.pending.key)
      BY <2>1 DEF RevocationStands, Record
    <3>1. /\ RecordOK(sealed, identities, keystore, Knows(p), p, r)
          /\ r.pending.key = r.key /\ Generation(r.key) = Gen(sealed, r.key)
          /\ Gen(sealed, r.key) \in Nat
      BY PendingRevocation, ProfileOfTab DEF Record
    <3>2. r \in FullRecord(Len(sealed))
      BY <3>1 DEF RecordOK
    <3>3. /\ rec.key = k
          /\ rec.pending = IF kind = "revoke" THEN [kind |-> kind, key |-> k] ELSE NoPending
      <4> DEFINE pending == IF kind = "revoke" THEN [kind |-> kind, key |-> k] ELSE NoPending
      <4>1. rec \in [key : {k}, retained : {Kept(r, m)}, bound : {task.sub}, acked : {b},
                     pending : {pending}]
        BY <3>2, AdoptedIs
      <4> HIDE DEF rec, pending
      <4> QED BY <4>1 DEF pending
    <3>4. ~byCode /\ k = b
      BY <3>3
    <3>5. Answered(sealed, identities, keystore, Knows(p), p, task) /\ task.at = "adopt"
      BY TabHere, TaskShapes DEF TaskHere, Adopt
    <3>6. /\ AnswerOK(sealed, identities, keystore, task.sub, m, b) /\ b # NoKeystore
      BY <3>5 DEF Answered
    <3>7. /\ sealed[b].member = m /\ Gen(sealed, b) <= Gen(sealed, keystore[m])
          /\ b \in 0..Len(sealed) /\ m \in DOMAIN keystore
      <4> HIDE DEF m, b
      <4> QED BY <3>6 DEF AnswerOK, SessionInv, ServerOK
    <3>8. MemberOf(r.key) = m
      BY <3>3, <3>4, <3>7 DEF MemberOf
    <3>9. r.key \in Known(r)
      BY DEF Known
    <3>10. Floor(r, m) = Generation(r.key)
      BY <3>1, <3>8, <3>9, FloorIs
    <3>11. /\ Generation(b) = Gen(sealed, b)
           /\ Generation(keystore[m]) = Gen(sealed, keystore[m])
           /\ Gen(sealed, b) \in Nat /\ Gen(sealed, keystore[m]) \in Nat
      <4>1. keystore[m] \in 0..Len(sealed) /\ sealed \in Seq(Entry)
        BY <3>7 DEF SessionInv, ServerOK
      <4> QED BY <3>7, <4>1, GenIsNat DEF Generation, Gen
    <3> HIDE DEF m, b, r, rec
    <3> QED BY <1>2, <3>1, <3>7, <3>8, <3>10, <3>11
  <2> HIDE DEF rec
  <2> QED BY <1>2, <2>2, OneRecordStands
<1> QED BY <1>1, <1>2 DEF Adopt

LEMMA StepStands == SessionInv /\ [EveryNext]_SessionVars => RevocationsStand
<1> SUFFICES ASSUME SessionInv, [EveryNext]_SessionVars PROVE RevocationsStand
  OBVIOUS
<1>1. ASSUME NEW t \in Tab, Local(t) PROVE RevocationsStand
  <2>1. CASE CreateAccount(t)
    <3>1. PICK k : Save(t, Created(k)) /\ Record(t) = NoRecord
      BY <2>1 DEF CreateAccount
    <3>2. RevocationStands(ProfileOf[t], Created(k))
      BY <3>1 DEF RevocationStands, Record
    <3> QED BY <3>1, <3>2, OneRecordStands
  <2>2. CASE \E call \in {"recover", "changePassphrase", "revokeCredentials"} : Mutate(t, call)
    BY <2>2, MutateStands
  <2>3. CASE Unlock(t) \/ Lock(t) \/ Reopen(t) \/ \E s \in Sub \cup {NoSub} : AuthChange(t, s)
    BY <2>3, SameRecordsStand DEF Unlock, Lock, Reopen, AuthChange
  <2> QED BY <1>1, <2>1, <2>2, <2>3 DEF Local
<1>2. ASSUME NEW t \in Tab, Remote(t, Api) PROVE RevocationsStand
  <2>1. CASE Probe(t) \/ Stage(t) \/ Acknowledge(t) \/ \E byCode \in BOOLEAN : Adopt(t, byCode)
    BY <2>1, ProbeStands, StageStands, AcknowledgeStands, AdoptStands
  <2>2. CASE \/ \E api \in Api : Call(t, api)
             \/ EnterBackup(t) \/ ProbeOfAnother(t) \/ Keep(t) \/ Fails(t)
             \/ RegisterSelf(t) \/ Snapshot(t) \/ UploadKeystore(t)
    BY <2>2, SameRecordsStand
       DEF Call, EnterBackup, ProbeOfAnother, Keep, Fails, RegisterSelf, Snapshot, UploadKeystore,
           NoAnswer
  <2> QED BY <1>2, <2>1, <2>2 DEF Remote
<1>3. ASSUME NEW put \in late, UploadLate(put) PROVE RevocationsStand
  BY <1>3, SameRecordsStand DEF UploadLate
<1>4. CASE UNCHANGED sessionVars
  BY <1>4, SameRecordsStand DEF sessionVars
<1>5. CASE UNCHANGED SessionVars
  BY <1>4, <1>5 DEF SessionVars
<1> QED BY <1>1, <1>2, <1>3, <1>4, <1>5 DEF EveryNext, SessionNext

\* A pending revocation of the active identity is not dropped before the server holds a
\* keystore as new: not by the acknowledgement of an older upload, a probe, a restore or
\* another tab (accountRecord.js: acknowledgeAccountBackup, stageAccountBackup,
\* adoptRemoteAccountIdentity).
THEOREM RevocationsReach == SessionSpec => RevocationsReachTheServer
<1>1. SessionInv /\ [EveryNext]_SessionVars => [RevocationsStand]_records
  BY StepStands
<1> QED BY <1>1, SessionInvHolds, PTL DEF SessionSpec, RevocationsReachTheServer

=============================================================================
