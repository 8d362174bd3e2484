------------------------------ MODULE Account ------------------------------
(***************************************************************************)
(* Accounts on the managed server: the binding of a token subject to a     *)
(* member id (account.rs, auth.rs), the keystore backup with its floor and *)
(* its tag, and the signing keys a token is verified with (jwks.rs).       *)
(*                                                                         *)
(* A member id is the hash of an author key, so a caller who proves a key  *)
(* proves one member id: MemberId stands for both.  A sealed keystore is   *)
(* its place in the order of sealing, and 0 is none; a blob hash and an    *)
(* ETag are hashes of the keystore's bytes, so the place stands for them   *)
(* too.  What was sealed into it says which keystores it descends from.    *)
(***************************************************************************)
EXTENDS Integers, FiniteSets, Functions, Sequences

CONSTANTS
    Sub,            \* token subjects
    MemberId,       \* self-certifying member ids
    Instance,       \* server processes, each with its identity cache
    MaxSeals,       \* bound on the keystores ever sealed
    Kid, Bearer     \* signing keys; requests that bear a token

ASSUME AccountAssumption == MaxSeals \in Nat

VARIABLES
    accounts,   \* the accounts table
    identities, \* the identities table: Sub -> MemberId
    cache,      \* each process's identity_cache
    keystore,   \* the stored backup of each bound member
    sealed,     \* every keystore sealed: its member, generation and ancestors,
                \* and the profiles it has been on
    published,  \* the keys the issuer's JWKS URL serves
    everPublished,
    jwks,       \* the keys cached
    bearer      \* what each token-bearing request is doing, and its kid

bindVars == <<accounts, identities, cache>>
backupVars == <<keystore, sealed>>
jwksVars == <<published, everPublished, jwks, bearer>>
accountVars == <<bindVars, backupVars, jwksVars>>

NoKeystore == 0
Keystore == 1..Len(sealed)
MemberOf(k) == sealed[k].member
\* The plaintext generation of the bytes; a member with no backup is at zero.
Generation(k) == IF k = NoKeystore THEN 0 ELSE sealed[k].generation
Descends(k, j) == j \in sealed[k].ancestors \cup {k, NoKeystore}

JwksInit ==
    /\ published = {} /\ everPublished = {} /\ jwks = {}
    /\ bearer = [r \in Bearer |-> [at |-> "idle"]]

AccountInit ==
    /\ accounts = {} /\ identities = << >>
    /\ cache = [i \in Instance |-> << >>]
    /\ keystore = << >> /\ sealed = << >>
    /\ JwksInit

-----------------------------------------------------------------------------
(* register, resolve_member                                                *)

Put(f, k, v) == [x \in DOMAIN f \cup {k} |-> IF x = k THEN v ELSE f[x]]

\* Mutant: only the subject's key is unique.
BindableBySub(s, m) == s \notin DOMAIN identities

Bindable(s, m) == s \notin DOMAIN identities /\ m \notin Range(identities)

Registrable(s, m) == Bindable(s, m) \/ (s \in DOMAIN identities /\ identities[s] = m)

\* bind_identity, then the cache: a conflict rolls the speculative account back.
Register(i, s, m) ==
    /\ \/ /\ Bindable(s, m)
          /\ accounts' = accounts \cup {m}
          /\ identities' = Put(identities, s, m)
          /\ keystore' = Put(keystore, m, NoKeystore)
       \/ /\ s \in DOMAIN identities /\ identities[s] = m
          /\ UNCHANGED <<accounts, identities, keystore>>
    /\ cache' = [cache EXCEPT ![i] = Put(@, s, m)]
    /\ UNCHANGED <<sealed, jwksVars>>

\* A hit is remembered; a miss never is.
Resolve(i, s) ==
    /\ s \in DOMAIN identities \ DOMAIN cache[i]
    /\ cache' = [cache EXCEPT ![i] = Put(@, s, identities[s])]
    /\ UNCHANGED <<accounts, identities, backupVars, jwksVars>>

Restart(i) ==
    /\ cache[i] # << >>
    /\ cache' = [cache EXCEPT ![i] = << >>]
    /\ UNCHANGED <<accounts, identities, backupVars, jwksVars>>

-----------------------------------------------------------------------------
(* put_keystore                                                            *)

\* A rollback (409) is refused, an exact replay is answered with the tag that
\* stands, and a stale tag is refused (412).
Accepts(m, k, ifMatch) ==
    /\ Generation(k) >= Generation(keystore[m])
    /\ keystore[m] = k \/ keystore[m] = ifMatch

PutKeystore(m, k, ifMatch) ==
    keystore' = IF Accepts(m, k, ifMatch) THEN [keystore EXCEPT ![m] = k] ELSE keystore

-----------------------------------------------------------------------------
(* JwksCache                                                               *)

Publish(k) ==
    /\ k \notin everPublished
    /\ published' \in {published \cup {k}, {k}}
    /\ everPublished' = everPublished \cup {k}
    /\ UNCHANGED <<bindVars, backupVars, jwks, bearer>>

\* A cached key verifies at once; otherwise the request queues for the refresh.
Present(r, k) ==
    /\ bearer[r].at = "idle"
    /\ bearer' = [bearer EXCEPT ![r] = [at |-> IF k \in jwks THEN "verified" ELSE "waiting", kid |-> k]]
    /\ UNCHANGED <<bindVars, backupVars, published, everPublished, jwks>>

RefreshFree == \A r \in Bearer : bearer[r].at # "fetching"

\* Under the refresh lock the cache is read again before anything is fetched.
TakeRefresh(r) ==
    /\ bearer[r].at = "waiting"
    /\ RefreshFree
    /\ bearer' = [bearer EXCEPT ![r].at = IF bearer[r].kid \in jwks THEN "verified" ELSE "fetching"]
    /\ UNCHANGED <<bindVars, backupVars, published, everPublished, jwks>>

Fetched(r) ==
    /\ bearer[r].at = "fetching"
    /\ jwks' = published
    /\ bearer' = [bearer EXCEPT ![r].at = IF bearer[r].kid \in published THEN "verified" ELSE "rejected"]
    /\ UNCHANGED <<bindVars, backupVars, published, everPublished>>

FetchFails(r) ==
    /\ bearer[r].at = "fetching"
    /\ bearer' = [bearer EXCEPT ![r].at = "rejected"]
    /\ UNCHANGED <<bindVars, backupVars, published, everPublished, jwks>>

-----------------------------------------------------------------------------
Binding ==
    \E i \in Instance, s \in Sub :
        \/ \E m \in MemberId : Register(i, s, m)
        \/ Resolve(i, s) \/ Restart(i)

Verifying ==
    \/ \E k \in Kid : Publish(k)
    \/ \E r \in Bearer : \/ \E k \in Kid : Present(r, k)
                         \/ TakeRefresh(r) \/ Fetched(r) \/ FetchFails(r)

AccountSpec == AccountInit /\ [][Binding \/ Verifying]_accountVars

=============================================================================
