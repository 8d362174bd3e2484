--------------------------- MODULE AccountSession ---------------------------
(***************************************************************************)
(* The client half of an account: the record a browser profile keeps       *)
(* (accountRecord.js, accountRecordStore.js), the worker's account calls   *)
(* on it (appCore.worker.js), and the session of each tab that binds it to *)
(* a token's subject and backs its keystore up (accountSession.js).        *)
(*                                                                         *)
(* A worker call runs under the profile's record lock, so it is one step;  *)
(* a session operation is one step per answer it waits for.  A tab runs    *)
(* its operations one after another, but creates, unlocks and locks at any *)
(* time.  A credential is the right one: a wrong one changes nothing.      *)
(* A known floor is always the generation of a keystore kept, so it is     *)
(* read from there; the record's revision, which only orders the writes of *)
(* the lock's holder, is left out.                                         *)
(***************************************************************************)
EXTENDS Account

CONSTANTS
    Tab, Profile, ProfileOf,    \* tabs, browser profiles, the profile of a tab
    NoSub,                      \* signed out
    MaxMishaps                  \* bound on locks, crashes, lost answers and sign-outs

NoMember == "none"

ASSUME SessionAssumption ==
    /\ ProfileOf \in [Tab -> Profile] /\ NoSub \notin Sub /\ NoMember \notin MemberId
    /\ MaxMishaps \in Nat

VARIABLES
    records,    \* the account record of each profile
    tabs,       \* what each tab's session and worker hold
    auth,       \* the subject each profile is signed in as, which its tabs share
    late,       \* uploads whose call ended before the server handled them
    mishaps     \* how many locks, crashes, lost answers and sign-outs there were

sessionVars == <<records, tabs, auth, late, mishaps>>

NoRecord == [key |-> NoKeystore]
NoPending == [kind |-> "none", key |-> NoKeystore]
Idle == [at |-> "idle"]
Fresh(rec) == [handle |-> NoKeystore, me |-> NoMember, view |-> rec,
               conflict |-> FALSE, kept |-> FALSE, task |-> Idle]

SessionInit ==
    /\ records = [p \in Profile |-> NoRecord]
    /\ tabs = [t \in Tab |-> Fresh(NoRecord)]
    /\ auth = [p \in Profile |-> NoSub]
    /\ late = {} /\ mishaps = 0

Record(t) == records[ProfileOf[t]]
Subject(t) == auth[ProfileOf[t]]
LocalMember(rec) == IF rec = NoRecord THEN NoMember ELSE MemberOf(rec.key)
\* dropStaleResidentAccount, which every worker call begins with.
Handle(t) == IF tabs[t].handle = Record(t).key THEN tabs[t].handle ELSE NoKeystore

Mishap == mishaps < MaxMishaps /\ mishaps' = mishaps + 1
calm == <<late, mishaps>>

-----------------------------------------------------------------------------
(* accountRecord.js                                                        *)

\* accountFloorForMember
Floor(rec, m) ==
    LET known == {k \in {rec.key} \cup (IF rec = NoRecord THEN {} ELSE rec.retained) :
                     k # NoKeystore /\ MemberOf(k) = m}
    IN  IF known = {} THEN 0 ELSE Generation(CHOOSE k \in known : TRUE)

Created(k) ==
    [key |-> k, retained |-> {}, bound |-> NoSub, acked |-> NoKeystore, pending |-> NoPending]

\* replaceAccountIdentity.  keystoreOf names the member of k, sealed in this step.
Replaced(rec, k, m, kind) ==
    IF m # MemberOf(rec.key)
    THEN [Created(k) EXCEPT !.retained =
             {j \in rec.retained : MemberOf(j) # m} \cup {rec.key}]
    ELSE [rec EXCEPT
             !.key = k,
             !.pending = IF @.kind = "revoke" THEN [@ EXCEPT !.key = k]
                         ELSE IF rec.bound # NoSub /\ k # rec.key /\ kind # "none"
                              THEN [kind |-> kind, key |-> k]
                         ELSE IF @.key = k THEN @ ELSE NoPending]

\* adoptRemoteAccountIdentity
AdoptedRecord(rec, k, m, sub, remote, kind) ==
    [(IF rec = NoRecord THEN Created(k) ELSE Replaced(rec, k, m, "none")) EXCEPT
        !.bound = sub, !.acked = remote,
        !.pending = IF kind = "revoke" THEN [kind |-> kind, key |-> k] ELSE NoPending]

\* confirmAccountBinding
Confirmed(rec, sub) ==
    IF rec.bound = sub THEN rec
    ELSE [rec EXCEPT !.bound = sub, !.acked = NoKeystore, !.pending = NoPending]

\* stageAccountBackup
Staged(rec) ==
    IF rec.pending.kind = "revoke" /\ Generation(rec.pending.key) >= Generation(rec.key)
    THEN rec
    ELSE [rec EXCEPT !.pending = [kind |-> "backup", key |-> rec.key]]

\* Mutant: clears whatever is pending.
AcknowledgedAny(rec, expected) ==
    [rec EXCEPT !.acked = expected.key, !.pending = NoPending]

\* acknowledgeAccountBackup: compare and clear.
Acknowledged(rec, expected) ==
    IF rec.pending = expected
    THEN [rec EXCEPT !.acked = expected.key, !.pending = NoPending]
    ELSE rec

-----------------------------------------------------------------------------
(* The calls on local custody                                              *)

Unsaved == <<bindVars, keystore, jwksVars, auth, calm>>
Save(t, rec) == records' = [records EXCEPT ![ProfileOf[t]] = rec]

\* A keystore sealed from k, or for a member no one had yet.
Seal(t, m, g, k) ==
    /\ Len(sealed) < MaxSeals
    /\ sealed' = Append(sealed, [member |-> m, generation |-> g,
                     ancestors |-> IF k = NoKeystore THEN {} ELSE sealed[k].ancestors \cup {k},
                     on |-> {ProfileOf[t]}])
NextKey == Len(sealed) + 1

\* clearRemoteContext, after the refresh
Settled(tab, k, me, rec) ==
    [tab EXCEPT !.handle = k, !.me = me, !.view = rec, !.conflict = FALSE, !.kept = FALSE]

CreateAccount(t) ==
    /\ Record(t) = NoRecord
    /\ \E m \in MemberId :
          /\ \A k \in Keystore : MemberOf(k) # m
          /\ Seal(t, m, 0, NoKeystore)
          /\ Save(t, Created(NextKey))
          /\ tabs' = [tabs EXCEPT ![t] = Settled(@, NextKey, m, Created(NextKey))]
    /\ UNCHANGED Unsaved

Unlock(t) ==
    /\ Record(t) # NoRecord /\ tabs[t].me = NoMember
    /\ tabs' = [tabs EXCEPT ![t] =
                   Settled(@, Record(t).key, LocalMember(Record(t)), Record(t))]
    /\ UNCHANGED <<Unsaved, sealed, records>>

Lock(t) ==
    /\ tabs[t].me # NoMember
    /\ tabs' = [tabs EXCEPT ![t].handle = NoKeystore, ![t].me = NoMember]
    /\ Mishap
    /\ UNCHANGED <<accountVars, records, auth, late>>

CanRetry(t, tab) ==
    tab.me # NoMember /\ tab.view # NoRecord /\ Subject(t) # NoSub /\ ~tab.kept

\* completeCredentialMutation, and retryPending: upload what is pending, if one may.
Uploading(t, tab) ==
    [tab EXCEPT !.task =
        IF tab.view # NoRecord /\ tab.view.pending # NoPending /\ CanRetry(t, tab)
        THEN [at |-> "lock", api |-> "backup", pendingOnly |-> TRUE] ELSE Idle]

\* changePassphrase keeps the generation; revokeCredentials and recover raise it.
Mutate(t, call) ==
    /\ tabs[t].task = Idle /\ Record(t) # NoRecord
    /\ LET k == Record(t).key
           rec == Replaced(Record(t), NextKey, MemberOf(k),
                           IF call = "changePassphrase" THEN "backup" ELSE "revoke")
           me == IF call = "recover" THEN MemberOf(k) ELSE tabs[t].me
       IN  /\ Seal(t, MemberOf(k), Generation(k) + (IF call = "changePassphrase" THEN 0 ELSE 1), k)
           /\ Save(t, rec)
           /\ tabs' = [tabs EXCEPT ![t] = Uploading(t, Settled(@, NextKey, me, rec))]
    /\ UNCHANGED Unsaved

\* An upload the server has yet to handle may still arrive.
LeftBehind(t) ==
    late' = IF tabs[t].task.at = "put" THEN late \cup {tabs[t].task.upload} ELSE late

\* The tab is closed or crashes, and opens again (initialize).
Reopen(t) ==
    /\ tabs[t] # Fresh(Record(t))
    /\ tabs' = [tabs EXCEPT ![t] = Fresh(Record(t))]
    /\ Mishap /\ LeftBehind(t)
    /\ UNCHANGED <<accountVars, records, auth>>

\* Sign in, sign out, expiry: every tab of the profile hears of it.
Heard(t, tab) ==
    [u \in Tab |-> IF ProfileOf[u] # ProfileOf[t] THEN tabs[u]
                   ELSE [(IF u = t THEN tab ELSE tabs[u]) EXCEPT !.conflict = FALSE, !.kept = FALSE]]

AuthChange(t, s) ==
    /\ s # Subject(t)
    /\ auth' = [auth EXCEPT ![ProfileOf[t]] = s]
    /\ tabs' = Heard(t, tabs[t])
    /\ IF Subject(t) = NoSub THEN UNCHANGED mishaps ELSE Mishap
    /\ UNCHANGED <<accountVars, records, late>>

-----------------------------------------------------------------------------
(* One session operation: its probe                                        *)

Step(t, task) == tabs' = [tabs EXCEPT ![t].task = task]
Quit(t) == tabs' = [tabs EXCEPT ![t].task = Idle]
Conflict(t) == tabs' = [tabs EXCEPT ![t].task = Idle, ![t].conflict = TRUE]
NoAnswer == <<accountVars, records, auth, calm>>

Call(t, api) ==
    /\ tabs[t].task = Idle /\ Subject(t) # NoSub
    /\ CASE api = "backup" -> Step(t, [at |-> "lock", api |-> api, pendingOnly |-> FALSE])
         [] api = "retryPending" ->
              LET tab == [tabs[t] EXCEPT !.view = Record(t)]
              IN  tabs' = [tabs EXCEPT ![t] = Uploading(t, tab)]
         [] OTHER -> Step(t, [at |-> "ask", api |-> api])
    /\ UNCHANGED NoAnswer

InBackup == {"stage", "snapshot", "put", "stored"}
\* The lock `openom.account.backup` of the profile's tabs.
LockFree(t) ==
    \A u \in Tab : ProfileOf[u] = ProfileOf[t] /\ u # t =>
        ~(tabs[u].task.at \in InBackup \/ (tabs[u].task.at = "ask" /\ tabs[u].task.api = "backup"))

\* backupUnderLock: the record is read afresh, then the server's backup.
EnterBackup(t) ==
    /\ tabs[t].task.at = "lock" /\ LockFree(t)
    /\ LET tab == [tabs[t] EXCEPT !.view = Record(t)]
           may == tab.me # NoMember /\ tab.view # NoRecord /\ Subject(t) # NoSub
           idle == tab.task.pendingOnly /\ tab.view.pending = NoPending
       IN  tabs' = [tabs EXCEPT ![t] =
              [tab EXCEPT !.task = IF may /\ ~idle THEN [at |-> "ask", api |-> "backup"] ELSE Idle]]
    /\ UNCHANGED NoAnswer

\* classifyAccountBindingState: default deny, before any version is compared.
BindingAgrees(rec, task) ==
    IF task.member = NoMember THEN rec = NoRecord \/ rec.bound = NoSub
    ELSE rec # NoRecord /\ rec.bound \in {NoSub, task.sub} /\ task.member = LocalMember(rec)

\* Mutant: a pending upload is from whatever the server holds.
PendingFromAny(rec, backup) == rec.pending # NoPending /\ rec.pending.key = rec.key

\* The upload pending was sealed after the version last acknowledged.
PendingFromCheckpoint(rec, backup) ==
    rec.pending # NoPending /\ rec.pending.key = rec.key /\ rec.acked = backup

\* acceptRegisteredProbe, acceptUnregisteredProbe
Reconciles(rec, task) ==
    /\ BindingAgrees(rec, task)
    /\ task.backup \in {NoKeystore} \cup (IF rec = NoRecord THEN {} ELSE {rec.key})
          \/ PendingFromCheckpoint(rec, task.backup)

\* What follows a probe: a refusal is a conflict, or asks for what is not there.
After(t, task, ok) ==
    LET registered == task.member # NoMember
        next == CASE task.api = "probe" -> "idle"
                  [] task.api \in {"register", "enableSync"} /\ ~registered -> "register"
                  [] task.api = "register" -> "idle"
                  [] task.api = "enableSync" -> IF ok THEN "lock" ELSE "idle"
                  [] task.api = "backup" -> IF ok /\ registered THEN "stage" ELSE "idle"
                  [] task.api = "keepLocalOffline" -> "keep"
                  [] OTHER -> IF registered /\ task.backup # NoKeystore THEN "adopt" ELSE "idle"
    IN  CASE next = "idle" -> Idle
          [] next = "register" -> [at |-> next, api |-> task.api, sub |-> task.sub]
          [] next = "lock" -> [at |-> "lock", api |-> "backup", pendingOnly |-> FALSE]
          [] OTHER -> [at |-> next, api |-> task.api, sub |-> task.sub,
                       member |-> task.member, backup |-> task.backup]

\* GET /me as the attempt's subject.
Answer(t) ==
    LET s == Subject(t)
        m == IF s \in DOMAIN identities THEN identities[s] ELSE NoMember
    IN  [api |-> tabs[t].task.api, sub |-> s, member |-> m,
         backup |-> IF m = NoMember THEN NoKeystore ELSE keystore[m]]

\* Accept the probe, and confirm the binding it proves.  Only what is compared
\* later is kept of the answer: a server or a tab that moves on meanwhile does the
\* same before or after this step.
Probe(t) ==
    /\ tabs[t].task.at = "ask"
    /\ LET task == Answer(t)
           view == tabs[t].view
           ok == Reconciles(view, task)
           confirms == ok /\ task.member # NoMember /\ view.bound # task.sub
           rec == IF confirms THEN Confirmed(Record(t), task.sub) ELSE Record(t)
       IN  IF task.sub = NoSub \/ (confirms /\ LocalMember(Record(t)) # task.member)
           THEN Quit(t) /\ UNCHANGED records
           ELSE /\ Save(t, rec)
                /\ tabs' = [tabs EXCEPT ![t].task = After(t, task, ok), ![t].conflict = ~ok,
                                        ![t].view = IF confirms THEN rec ELSE @]
    /\ UNCHANGED <<accountVars, auth, calm>>

\* assertAttemptStillCurrent: the subject changed while the answer was awaited.
ProbeOfAnother(t) ==
    /\ tabs[t].task.at = "ask" /\ Subject(t) # NoSub
    /\ \E s \in (Sub \cup {NoSub}) \ {Subject(t)} :
          /\ auth' = [auth EXCEPT ![ProfileOf[t]] = s]
          /\ tabs' = [Heard(t, [tabs[t] EXCEPT !.task = Idle]) EXCEPT ![t].conflict = s # NoSub]
    /\ Mishap
    /\ UNCHANGED <<accountVars, records, late>>

Keep(t) ==
    /\ tabs[t].task.at = "keep"
    /\ IF tabs[t].view # NoRecord /\ tabs[t].conflict
       THEN tabs' = [tabs EXCEPT ![t].task = Idle, ![t].conflict = FALSE, ![t].kept = TRUE]
       ELSE Quit(t)
    /\ UNCHANGED NoAnswer

\* Any answer a task waits for may be lost; what it asked may still be done.
Fails(t) ==
    /\ tabs[t].task.at \in {"ask", "register", "put", "stored"}
    /\ Quit(t)
    /\ Mishap /\ LeftBehind(t)
    /\ UNCHANGED <<accountVars, records, auth>>

-----------------------------------------------------------------------------
(* register; backup; restore                                               *)

Unambiguous(t) ==
    LET rec == tabs[t].view
    IN  rec # NoRecord /\ tabs[t].me # NoMember /\ ~tabs[t].conflict
        /\ rec.acked = NoKeystore /\ rec.bound = NoSub

\* The proof is signed by the key in the worker; the binding is then probed for.
\* A refusal of the timestamp or the token starts again from the probe.
RegisterSelf(t) ==
    /\ tabs[t].task.at = "register"
    /\ LET task == tabs[t].task
           again == Step(t, [at |-> "ask", api |-> task.api])
           m == MemberOf(Handle(t))
       IN  IF ~Unambiguous(t) THEN Conflict(t) /\ UNCHANGED accountVars
           ELSE IF Handle(t) = NoKeystore THEN Quit(t) /\ UNCHANGED accountVars
           ELSE \/ \E i \in Instance : Register(i, task.sub, m) /\ again
                \/ ~Registrable(task.sub, m) /\ Conflict(t) /\ UNCHANGED accountVars
                \/ again /\ UNCHANGED accountVars
    /\ UNCHANGED <<records, auth, calm>>

\* accountStageBackup, for the member this session believes it is.
Stage(t) ==
    /\ tabs[t].task.at = "stage"
    /\ LET task == tabs[t].task
           rec == Staged(Record(t))
       IN  IF Record(t) # NoRecord /\ Record(t).bound = task.sub
              /\ tabs[t].me = LocalMember(Record(t))
           THEN /\ Save(t, rec)
                /\ tabs' = [tabs EXCEPT ![t].view = rec,
                       ![t].task = [at |-> "snapshot", sub |-> task.sub,
                                    backup |-> task.backup, expected |-> rec.pending]]
           ELSE Quit(t) /\ UNCHANGED records
    /\ UNCHANGED <<accountVars, auth, calm>>

\* accountSnapshot must be what was staged, or the round starts again.
Snapshot(t) ==
    /\ tabs[t].task.at = "snapshot"
    /\ LET task == tabs[t].task
           k == Handle(t)
       IN  IF k = NoKeystore THEN Quit(t)
           ELSE IF k # task.expected.key
           THEN tabs' = [tabs EXCEPT ![t].view = Record(t),
                                     ![t].task = [at |-> "ask", api |-> "backup"]]
           ELSE Step(t, [at |-> "put", sub |-> task.sub, expected |-> task.expected,
                         upload |-> [member |-> identities[task.sub], key |-> k,
                                     ifMatch |-> task.backup]])
    /\ UNCHANGED NoAnswer

\* putKeystore answers; surfaceBackupConflict.
UploadKeystore(t) ==
    /\ tabs[t].task.at = "put"
    /\ LET put == tabs[t].task.upload
       IN  /\ PutKeystore(put.member, put.key, put.ifMatch)
           /\ IF Accepts(put.member, put.key, put.ifMatch)
              THEN Step(t, [tabs[t].task EXCEPT !.at = "stored"]) ELSE Conflict(t)
    /\ UNCHANGED <<bindVars, sealed, jwksVars, records, auth, calm>>

UploadLate(put) ==
    /\ late' = late \ {put}
    /\ PutKeystore(put.member, put.key, put.ifMatch)
    /\ UNCHANGED <<bindVars, sealed, jwksVars, records, tabs, auth, mishaps>>

\* accountAcknowledgeBackup, if the subject is still the one that uploaded.
Acknowledge(t) ==
    /\ tabs[t].task.at = "stored"
    /\ LET expected == tabs[t].task.expected
           rec == Acknowledged(Record(t), expected)
       IN  IF Subject(t) # tabs[t].task.sub
           THEN /\ IF Subject(t) = NoSub THEN Quit(t) ELSE Conflict(t)
                /\ UNCHANGED records
           ELSE /\ Save(t, rec)
                /\ tabs' = [tabs EXCEPT ![t].view = rec, ![t].task = Idle,
                                        ![t].conflict = @ /\ rec = Record(t)]
    /\ UNCHANGED <<accountVars, auth, calm>>

\* A revocation of this very backup is under way: upload it, not another.
Resumes(rec, task) ==
    /\ LocalMember(rec) = task.member
    /\ rec.pending.kind = "revoke" /\ rec.bound = task.sub /\ rec.acked = task.backup

\* restoreRemoteIdentity with a passphrase, or with a recovery code, which seals
\* the next generation (accountAdoptCandidate).
Adopt(t, byCode) ==
    /\ tabs[t].task.at = "adopt"
    /\ LET task == tabs[t].task
           view == tabs[t].view
           differs == view # NoRecord /\ LocalMember(view) # task.member
           k == IF byCode THEN NextKey ELSE task.backup
           rec == AdoptedRecord(Record(t), k, task.member, task.sub, task.backup,
                                IF byCode THEN "revoke" ELSE "none")
           upload == [at |-> "lock", api |-> "backup", pendingOnly |-> TRUE]
       IN  IF byCode /\ Resumes(view, task)
           THEN Step(t, upload) /\ UNCHANGED <<sealed, records>>
           ELSE IF Subject(t) # task.sub /\ Subject(t) # NoSub
           THEN Conflict(t) /\ UNCHANGED <<sealed, records>>
           ELSE IF \/ differs # (task.api = "adoptRemoteIdentity")
                   \/ Subject(t) = NoSub
                   \/ Generation(task.backup) < Floor(Record(t), task.member)
           THEN Quit(t) /\ UNCHANGED <<sealed, records>>
           ELSE /\ IF byCode
                   THEN Seal(t, task.member, Generation(task.backup) + 1, task.backup)
                   ELSE sealed' = [sealed EXCEPT ![k].on = @ \cup {ProfileOf[t]}]
                /\ Save(t, rec)
                /\ tabs' = [tabs EXCEPT ![t] = [@ EXCEPT
                       !.handle = k, !.me = task.member, !.view = rec, !.conflict = FALSE,
                       !.task = IF byCode THEN upload ELSE Idle]]
    /\ UNCHANGED <<bindVars, keystore, jwksVars, auth, calm>>

-----------------------------------------------------------------------------
Local(t) ==
    \/ CreateAccount(t) \/ Unlock(t) \/ Lock(t)
    \/ \E call \in {"recover", "changePassphrase", "revokeCredentials"} : Mutate(t, call)
    \/ Reopen(t)
    \/ \E s \in Sub \cup {NoSub} : AuthChange(t, s)

\* apis: the session operations called.
Remote(t, apis) ==
    \/ \E api \in apis : Call(t, api)
    \/ EnterBackup(t) \/ Probe(t) \/ ProbeOfAnother(t) \/ Keep(t) \/ Fails(t)
    \/ RegisterSelf(t) \/ Stage(t) \/ Snapshot(t) \/ UploadKeystore(t) \/ Acknowledge(t)
    \/ \E byCode \in BOOLEAN : Adopt(t, byCode)

SessionNext(T, apis) ==
    (\E t \in T : Local(t) \/ Remote(t, apis)) \/ (\E put \in late : UploadLate(put))

\* The operations of the session object, and clients of the server beside these tabs.
Api == {"probe", "register", "enableSync", "backup", "retryPending",
        "keepLocalOffline", "restore", "adoptRemoteIdentity"}

SessionVars == <<accountVars, sessionVars>>
EveryNext ==
    SessionNext(Tab, Api) \/ ((Binding \/ Verifying) /\ UNCHANGED sessionVars)
SessionSpec == AccountInit /\ SessionInit /\ [][EveryNext]_SessionVars

-----------------------------------------------------------------------------
\* Two subjects never share a member id, whatever registrations race; no process
\* remembers a binding the table does not hold; and the binding a profile keeps is
\* the server's (account.rs: bind_identity; auth.rs: resolve_member;
\* accountRecord.js: confirmAccountBinding).
BindingsAreExclusive ==
    /\ \A s, t \in DOMAIN identities : identities[s] = identities[t] => s = t
    /\ \A i \in Instance : \A s \in DOMAIN cache[i] :
          s \in DOMAIN identities /\ cache[i][s] = identities[s]
    /\ \A p \in Profile : LET rec == records[p] IN
          rec # NoRecord /\ rec.bound # NoSub =>
             rec.bound \in DOMAIN identities /\ identities[rec.bound] = MemberOf(rec.key)

\* An upload, early or late, replaces only a keystore it was sealed from or one its
\* own profile has held, never the unseen change of another device; and what is
\* stored is at least as new as what any profile holds as acknowledged
\* (accountSession.js: acceptRegisteredProbe, backupUnderLock; account.rs:
\* put_keystore).
Follows(k, j) == Descends(k, j) \/ sealed[k].on \cap sealed[j].on # {}

CheckpointsStand ==
    \A p \in Profile : LET rec == records[p] IN
        rec # NoRecord /\ rec.acked # NoKeystore =>
            Generation(rec.acked) <= Generation(keystore[identities[rec.bound]])

UploadsFollow ==
    /\ \A m \in DOMAIN keystore : keystore'[m] # keystore[m] =>
          MemberOf(keystore'[m]) = m /\ Follows(keystore'[m], keystore[m])
    /\ CheckpointsStand'
NoUnseenOverwrite == [][UploadsFollow]_<<keystore, records>>

\* A revocation stays pending until the server holds a keystore that is as new: no
\* acknowledgement of an older upload, restore, or tab that saw less, drops it while
\* its identity is active (accountRecord.js: acknowledgeAccountBackup,
\* stageAccountBackup, adoptRemoteAccountIdentity).
RevocationsStand ==
    \A p \in Profile : LET rec == records[p] IN
        /\ rec # NoRecord /\ rec.pending.kind = "revoke"
        /\ records'[p].pending.kind # "revoke"
        /\ MemberOf(records'[p].key) = MemberOf(rec.key)
        => Generation(keystore'[MemberOf(rec.key)]) >= Generation(rec.pending.key)
RevocationsReachTheServer == [][RevocationsStand]_records
=============================================================================
