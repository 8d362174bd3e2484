--------------------------- MODULE MCControlPlane ---------------------------
(***************************************************************************)
(* The parts of the managed server's control plane: accounts, token keys,  *)
(* proposals, invites (each with the tree's membership) and media.  They   *)
(* share no table but the membership's, so a step of one commutes with     *)
(* every step of another: a behaviour explores one part, chosen at the     *)
(* start, and leaves the others as they began.                             *)
(***************************************************************************)
EXTENDS AccountSession, TreeAccess, Media, TLC

CONSTANTS
    own, ann, bob,    \* the owner and two other accounts
    u1, u2, u3, u4, f1, f2, \* tabs and browser profiles
    s1, m1,           \* the first subject and the first account
    Parts       \* the parts to explore

VARIABLE part

mcVars == <<part, accountVars, sessionVars, accessVars, mediaVars>>

\* Two tabs of one browser profile, and a device of its own.
MCProfileOf == u1 :> f1 @@ u2 :> f1 @@ u3 :> f1 @@ u4 :> f2

\* What a part leaves out: accounts but the first, subjects but the first, seals.
FirstAccount == \A k \in Keystore : k = 1 => MemberOf(k) = m1
OneAccount == \A k \in Keystore : MemberOf(k) = m1
OneSubject == \A p \in Profile : auth[p] \in {NoSub, s1}

Tabs ==
    /\ SessionNext({u1, u2}, {"enableSync", "restore", "retryPending"})
    /\ (OneAccount /\ OneSubject /\ Len(sealed) <= 2)'
Devices ==
    /\ SessionNext({u3, u4}, {"enableSync", "restore"})
    /\ (OneAccount /\ OneSubject /\ \A k \in Keystore : Generation(k) <= 1)'
Switch ==
    /\ SessionNext({u3, u4}, {"enableSync", "adoptRemoteIdentity", "keepLocalOffline"})
    /\ (FirstAccount /\ Len(sealed) <= 2)'

MCSymmetry == Permutations({u1, u2})

\* A tree of own: ann as co-owner, or demoted with bob as editor (and own unlisted).
MCRoster == {own :> 1 @@ ann :> 2, ann :> 3 @@ bob :> 4}

\* Invites for anyone who has the link, and for ann alone.
MCPinned == {{}, {ann}}

\* The devices' part begins when the first has registered its account and backed it up.
BackedUp == [Created(1) EXCEPT !.bound = s1, !.acked = 1]
FirstBackup ==
    /\ accounts = {m1} /\ identities = s1 :> m1
    /\ cache = [i \in Instance |-> << >>]
    /\ sealed = <<[member |-> m1, generation |-> 0, ancestors |-> {}, on |-> {f1}]>>
    /\ keystore = m1 :> 1
    /\ records = [p \in Profile |-> IF p = f1 THEN BackedUp ELSE NoRecord]
    /\ tabs = [t \in Tab |-> Fresh(records[ProfileOf[t]])]
    /\ auth = [p \in Profile |-> NoSub]
    /\ late = {} /\ mishaps = 0 /\ JwksInit

MCInit ==
    /\ AccessInit /\ MediaInit
    /\ part \in Parts
    /\ IF part = "devices" THEN FirstBackup ELSE AccountInit /\ SessionInit

MCNext ==
    /\ UNCHANGED part
    /\ \/ /\ part = "account" /\ Binding
          /\ UNCHANGED <<sessionVars, accessVars, mediaVars>>
       \/ /\ \/ part = "tabs" /\ Tabs
             \/ part = "devices" /\ Devices
             \/ part = "switch" /\ Switch
          /\ UNCHANGED <<accessVars, mediaVars>>
       \/ /\ part = "verifying" /\ Verifying
          /\ UNCHANGED <<sessionVars, accessVars, mediaVars>>
       \/ /\ part = "proposing" /\ (Membership \/ Proposing)
          /\ UNCHANGED <<accountVars, sessionVars, mediaVars>>
       \/ /\ part = "inviting" /\ (Membership \/ Inviting)
          /\ UNCHANGED <<accountVars, sessionVars, mediaVars>>
       \/ /\ part = "media" /\ MediaNext
          /\ UNCHANGED <<accountVars, sessionVars, accessVars>>

MCSpec == MCInit /\ [][MCNext]_mcVars
=============================================================================
