----------------------------- MODULE TreeAccess -----------------------------
(***************************************************************************)
(* Who may do what on one tree, as the managed server keeps it: the        *)
(* keyring's revisions (openom/src/keyring.rs), the ACL and its summary    *)
(* (access.rs, authz.rs), proposals (proposals.rs) and invites             *)
(* (invites.rs).                                                           *)
(*                                                                         *)
(* A keyring is the roster it resolves to, with the revision it extends    *)
(* and who authored it; the server's verifier admits it against the head.  *)
(* Keyring and summary PUTs hold the tree row's lock throughout and are    *)
(* one action each.  A proposal and a claim are checked in one statement   *)
(* and written in a later one, and others come between.                    *)
(***************************************************************************)
EXTENDS Integers, Sequences, FiniteSets

CONSTANTS
    Account, TreeOwner,
    Roster,         \* rosters a client may author: functions from members to roles
    Session,        \* requests in progress
    Invite,         \* invite ids
    PinnedTo,       \* the accounts whose verified email an invite is pinned to
    MaxRevision, MaxGen,   \* bounds on keyring revisions and summary generations
    MaxOpen, MaxDay        \* the owner's proposal entitlements

ASSUME TreeAccessAssumption ==
    /\ TreeOwner \in Account
    /\ {MaxRevision, MaxGen, MaxOpen, MaxDay} \subseteq Nat
    /\ PinnedTo \subseteq SUBSET Account

VARIABLES
    keyrings,    \* tree_keyrings: the admitted revisions, in order
    coolingDown, \* was last_reset_at stamped within the cooldown?
    acl,         \* tree_access: member -> role
    generation,  \* tree_access_meta.generation (0: no summary)
    proposals,   \* the rows: [id, by]
    dayCount,    \* proposal_day_counts of today
    submitted,   \* history: proposals created today
    invites,     \* pending_invites: invite -> its row
    session      \* what each request in progress has read

treeVars == <<keyrings, coolingDown, acl, generation>>
proposalVars == <<proposals, dayCount, submitted>>
accessVars == <<treeVars, proposalVars, invites, session>>

\* openom-roles: lower is stronger.
Role == 1..5
RoleOwner == 1
RoleCoOwner == 2
RoleMaintainer == 3
RoleEditor == 4
MinRole == [read |-> 5, propose |-> RoleEditor, stageMedia |-> RoleEditor,
            commit |-> RoleMaintainer, administer |-> RoleMaintainer]

AccessInit ==
    /\ keyrings = << >> /\ coolingDown = FALSE /\ acl = << >> /\ generation = 0
    /\ proposals = {} /\ dayCount = [m \in Account |-> 0] /\ submitted = [m \in Account |-> 0]
    /\ invites = [i \in Invite |-> [status |-> "none"]]
    /\ session = [s \in Session |-> [at |-> "idle"]]

\* authorize: the owner's fast path, else the role in the ACL.
Authorized(m, need) ==
    m = TreeOwner \/ (m \in DOMAIN acl /\ acl[m] <= MinRole[need])

\* The gate of a summary, and of minting: owner or co-owner in the present ACL.
IsSigner(m) == m = TreeOwner \/ (m \in DOMAIN acl /\ acl[m] <= RoleCoOwner)

-----------------------------------------------------------------------------
(* put_keyring, put_access and the one writer of the ACL they share        *)

\* apply_membership: the owner pinned, the others as listed, nobody else.
Normalized(roster) ==
    [m \in DOMAIN roster \cup {TreeOwner} |-> IF m = TreeOwner THEN RoleOwner ELSE roster[m]]

ApplyMembership(roster) ==
    /\ roster # << >>
    /\ acl' = Normalized(roster)
    /\ proposals' = {p \in proposals : p.by \in DOMAIN Normalized(roster)}

HeadRevision == Len(keyrings)
SignersOf(roster) == {m \in DOMAIN roster : roster[m] <= RoleCoOwner}

\* Mutant: any keyring its author once could write is admitted.
AdmitsStale(k) ==
    HeadRevision > 0 /\ ~k.reset =>
        \E r \in 1..HeadRevision : k.author \in SignersOf(keyrings[r].roster)

\* The verifier: a founding keyring, a successor of the head by one of its
\* signers, or a reset, which no signer of the head endorses.
Admits(k) ==
    /\ k.parent = HeadRevision
    /\ HeadRevision > 0 /\ ~k.reset => k.author \in SignersOf(keyrings[HeadRevision].roster)

PutKeyring(k) ==
    /\ HeadRevision < MaxRevision
    /\ Authorized(k.author, "administer")
    /\ Admits(k)
    /\ k.reset => ~coolingDown
    /\ coolingDown' = (coolingDown \/ k.reset)
    /\ keyrings' = Append(keyrings, k)
    /\ ApplyMembership(k.roster)
    /\ UNCHANGED <<generation, dayCount, submitted, invites, session>>

CooldownEnds ==
    /\ coolingDown /\ coolingDown' = FALSE
    /\ UNCHANGED <<keyrings, acl, generation, proposalVars, invites, session>>

\* A summary against the generation its client last saw; asserting what is
\* stored already changes nothing.
PutAccess(m, expected, roster) ==
    /\ generation < MaxGen
    /\ IsSigner(m)
    /\ expected = generation
    /\ generation > 0 => acl # Normalized(roster)
    /\ ApplyMembership(roster)
    /\ generation' = generation + 1
    /\ UNCHANGED <<keyrings, coolingDown, dayCount, submitted, invites, session>>

-----------------------------------------------------------------------------
(* create_proposal, delete_proposal, the sweep's expiry                    *)

Holds(s, next) == session' = [session EXCEPT ![s] = next]
Answers(s) == Holds(s, [at |-> "idle"])
Open(m) == Cardinality({p \in proposals : p.by = m})

\* The caller's role, then the count of its open proposals.
ProposeCheck(s, m) ==
    /\ session[s].at = "idle"
    /\ Authorized(m, "propose")
    /\ Open(m) < MaxOpen
    /\ Holds(s, [at |-> "propose", by |-> m])
    /\ UNCHANGED <<treeVars, proposalVars, invites>>

WithinDay(m) == dayCount[m] < MaxDay

\* The ledger's conditional upsert and the insert commit together.
ProposeInsert(s) ==
    LET m == session[s].by IN
    /\ session[s].at = "propose"
    /\ IF WithinDay(m)
       THEN /\ dayCount' = [dayCount EXCEPT ![m] = @ + 1]
            /\ submitted' = [submitted EXCEPT ![m] = @ + 1]
            /\ proposals' = proposals \cup {[id |-> submitted[m] + 1, by |-> m]}
       ELSE UNCHANGED proposalVars
    /\ Answers(s)
    /\ UNCHANGED <<treeVars, invites>>

\* A reviewer resolves it, its proposer withdraws it, or it expires: the ledger stays.
DeleteProposal(p, m) ==
    /\ p.by = m \/ Authorized(m, "administer")
    /\ proposals' = proposals \ {p}
    /\ UNCHANGED <<treeVars, dayCount, submitted, invites, session>>

ExpireProposal(p) ==
    /\ proposals' = proposals \ {p}
    /\ UNCHANGED <<treeVars, dayCount, submitted, invites, session>>

-----------------------------------------------------------------------------
(* Invites                                                                 *)

Row(i) == invites[i]
Listed(i) == Row(i).status \in {"open", "claimed", "admitted"}
SetRow(i, row) == invites' = [invites EXCEPT ![i] = row]

\* create_invite: a signer (the default policy), and no role above its own.
CreateInvite(i, m, role, pin) ==
    /\ Row(i).status = "none"
    /\ IsSigner(m)
    /\ (IF m = TreeOwner THEN RoleOwner ELSE acl[m]) <= role
    /\ SetRow(i, [status |-> "open", role |-> role, mintedBy |-> m, pin |-> pin,
                  claim |-> {}, expired |-> FALSE])
    /\ UNCHANGED <<treeVars, proposalVars, session>>

\* claim_invite reads the row ...
ClaimCheck(s, i, m) ==
    /\ session[s].at = "idle"
    /\ Row(i).status = "open" /\ ~Row(i).expired
    /\ Row(i).pin # {} => m \in Row(i).pin
    /\ Holds(s, [at |-> "claim", invite |-> i, by |-> m])
    /\ UNCHANGED <<treeVars, proposalVars, invites>>

\* Mutant: the UPDATE does not ask for the status again.
ClaimWriteAnyway(s) ==
    LET i == session[s].invite IN
    /\ session[s].at = "claim"
    /\ IF Listed(i) THEN SetRow(i, [Row(i) EXCEPT !.status = "claimed", !.claim = {session[s].by}])
                                 ELSE UNCHANGED invites
    /\ Answers(s)
    /\ UNCHANGED <<treeVars, proposalVars>>

\* ... and claims it only if it is open still.
ClaimWrite(s) ==
    LET i == session[s].invite IN
    /\ session[s].at = "claim"
    /\ IF Row(i).status = "open" THEN SetRow(i, [Row(i) EXCEPT !.status = "claimed", !.claim = {session[s].by}])
                                 ELSE UNCHANGED invites
    /\ Answers(s)
    /\ UNCHANGED <<treeVars, proposalVars>>

\* admit_invite and reopen_invite: an UPDATE of a claimed row.
AdmitInvite(i, m) ==
    /\ Row(i).status = "claimed" /\ Authorized(m, "administer")
    /\ SetRow(i, [Row(i) EXCEPT !.status = "admitted"])
    /\ UNCHANGED <<treeVars, proposalVars, session>>

ReopenInvite(i, m) ==
    /\ Row(i).status = "claimed" /\ Authorized(m, "administer")
    /\ SetRow(i, [Row(i) EXCEPT !.status = "open", !.claim = {}])
    /\ UNCHANGED <<treeVars, proposalVars, session>>

ExpireInvite(i) ==
    /\ Listed(i) /\ ~Row(i).expired
    /\ SetRow(i, [Row(i) EXCEPT !.expired = TRUE])
    /\ UNCHANGED <<treeVars, proposalVars, session>>

\* delete_invite, and sweep_expired_invites, which takes what is consumed or expired.
DropInvite(i) ==
    /\ Listed(i)
    /\ \/ Row(i).status = "admitted" \/ Row(i).expired
       \/ \E m \in Account : Authorized(m, "administer")
    /\ SetRow(i, [status |-> "gone"])
    /\ UNCHANGED <<treeVars, proposalVars, session>>

-----------------------------------------------------------------------------
Membership ==
    \/ \E m \in Account, roster \in Roster, parent \in 0..MaxRevision, reset \in BOOLEAN :
          PutKeyring([author |-> m, roster |-> roster, parent |-> parent, reset |-> reset])
    \/ CooldownEnds
    \/ \E m \in Account, roster \in Roster, g \in 0..MaxGen : PutAccess(m, g, roster)

Proposing ==
    \/ \E s \in Session : ProposeInsert(s) \/ \E m \in Account : ProposeCheck(s, m)
    \/ \E p \in proposals : ExpireProposal(p) \/ \E m \in Account : DeleteProposal(p, m)

Inviting ==
    \/ \E i \in Invite, m \in Account :
        \/ \E role \in Role, pin \in PinnedTo : CreateInvite(i, m, role, pin)
        \/ \E s \in Session : ClaimCheck(s, i, m)
        \/ AdmitInvite(i, m) \/ ReopenInvite(i, m)
    \/ \E s \in Session : ClaimWrite(s)
    \/ \E i \in Invite : ExpireInvite(i) \/ DropInvite(i)

AccessSpec == AccessInit /\ [][Membership \/ Proposing \/ Inviting]_accessVars

-----------------------------------------------------------------------------
\* The keyring's revisions are one chain: each extends the one before it, and
\* was written by a signer of it unless it is a reset, whatever stale keyrings
\* clients send (keyring.rs: put_keyring, persist_revision).
RevisionsAreOneChain ==
    \A r \in 1..HeadRevision :
        /\ keyrings[r].parent = r - 1
        /\ r > 1 /\ ~keyrings[r].reset => keyrings[r].author \in SignersOf(keyrings[r - 1].roster)

\* A claim is held by one account that its pin allows, until the claim is
\* cleared or the row goes: claims that race do not take it over
\* (invites.rs: claim_invite, reopen_invite).
Taken(row) == row.status \in {"claimed", "admitted"}

ClaimsStand ==
    \A i \in Invite :
        /\ Taken(invites[i]) /\ Taken(invites'[i]) =>
              /\ invites'[i].claim = invites[i].claim
              /\ invites[i].status = "admitted" => invites'[i].status = "admitted"
        /\ Taken(invites'[i]) =>
              /\ Cardinality(invites'[i].claim) = 1
              /\ invites'[i].pin # {} => invites'[i].claim \subseteq invites'[i].pin

ClaimIsExclusive == [][ClaimsStand]_invites
=============================================================================
