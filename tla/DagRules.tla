------------------------------ MODULE DagRules ------------------------------
(***************************************************************************)
(* The operation DAG of the keyring-dag engine (keyeo-dag) under openom's  *)
(* access rules (openom-keyring-dag): how a set of signed membership       *)
(* operations resolves to a membership.                                    *)
(*                                                                         *)
(* An operation is a record of `ops`, a function whose domain is the set   *)
(* of operation ids.  An id is a content hash: its order relative to the   *)
(* other ids is arbitrary, and that order breaks ties.  `past` is the set  *)
(* of the operation's strict ancestors, `depth` its Lamport depth; both    *)
(* are fixed when the operation is minted.  A replica is a view: a set of  *)
(* ids closed under `past`.  Everything here is a function of a base state *)
(* and a view, as resolution is in the code.                               *)
(*                                                                         *)
(* Left out: signatures and content ids (an operation is its author's),    *)
(* keys (a member has one for life: ReFound, Retarget and the rotation of  *)
(* the recovery authority are authorized for nobody, lib.rs 227-239, so    *)
(* the carve-out of strong_remove.rs 232-308 selects nothing), and the     *)
(* quorum operations, which no caller of openom mints.                     *)
(***************************************************************************)
EXTENDS Integers, FiniteSets, Folds

CONSTANTS
  Members,     \* the people who are, were or may become members
  Founder,     \* the member the genesis operation names as its only owner
  Prologue,    \* the operations every replica holds: the genesis and the first adds
  PrologueOps, \* what they are
  FreshIds     \* the ids later operations may hash to

VARIABLE ops \* [set of ids -> [author, act, target, role, past, depth, ...]]

\* The roles, strongest first (openom_keyring_api::ROLE_*).
Owner  == 0
CoOwner == 1
Editor == 3
Viewer == 4
Roles  == {Owner, CoOwner, Editor, Viewer}

Acts  == {"create", "add", "remove", "role", "reseal"}

\* A history: finitely many operations, each above its past; nobody adds, removes
\* or moves the founder.
HistoryOK(H) ==
  /\ IsFiniteSet(DOMAIN H) /\ DOMAIN H \subseteq Int
  /\ \A o \in DOMAIN H :
       /\ H[o].past \subseteq DOMAIN H /\ H[o].depth \in Nat
       /\ \A p \in H[o].past : H[p].past \subseteq H[o].past /\ H[p].depth < H[o].depth
       /\ {H[o].author, H[o].target} \subseteq Members /\ H[o].act \in Acts
       /\ H[o].act \in {"add", "role", "remove"} => H[o].target # Founder
       /\ H[o].act \in {"add", "role"} => H[o].role \in Roles

\* The founder is a member and the prologue a history; ids are ordered.
ASSUME DagAssumption ==
  /\ Founder \in Members /\ FreshIds \subseteq Int
  /\ Prologue = DOMAIN PrologueOps /\ HistoryOK(PrologueOps)

-----------------------------------------------------------------------------
(* The membership state and what an action does to it.                     *)

\* The base of a tree that was never compacted: the founder alone.
Founding ==
  [m \in Members |-> [known  |-> m = Founder,
                      active |-> m = Founder,
                      role   |-> IF m = Founder THEN Owner ELSE Viewer]]

Active(st) == {m \in Members : st[m].active}

\* Touching a signer (an owner or a co-owner) needs the owner; touching anyone
\* else needs a signer.
Needed(role) == IF role <= CoOwner THEN Owner ELSE CoOwner

\* A removed member keeps the role it had; someone never added is a viewer.
Authorized(st, op) ==
  LET mine  == st[op.author].role
      their == st[op.target].role
  IN /\ op.act # "create"
     /\ st[op.author].active
     /\ op.act = "add"    => op.role # Owner /\ mine <= Needed(op.role)
     /\ op.act = "role"   => /\ Owner \notin {their, op.role}
                             /\ mine <= Needed(their)
                             /\ mine <= Needed(op.role)
     /\ op.act = "remove" => /\ their # Owner
                             /\ op.author = op.target \/ mine <= Needed(their)

\* An add of an active member, and a removal or a role change of an inactive
\* one, are errors that the folds skip.
HasEffect(st, op) ==
  CASE op.act = "add"                 -> ~st[op.target].active
    [] op.act \in {"remove", "role"}  -> st[op.target].active
    [] op.act = "create"              -> FALSE
    [] OTHER                          -> TRUE

Apply(st, op) ==
  IF ~HasEffect(st, op) \/ op.act = "reseal" THEN st
  ELSE [st EXCEPT ![op.target] =
          CASE op.act = "add"    -> [known |-> TRUE, active |-> TRUE, role |-> op.role]
            [] op.act = "remove" -> [@ EXCEPT !.active = FALSE]
            [] op.act = "role"   -> [@ EXCEPT !.role = op.role]]

-----------------------------------------------------------------------------
(* Causality and the order of the folds.                                   *)

Concurrent(a, b) == a # b /\ a \notin ops[b].past /\ b \notin ops[a].past

DepthOn(past) ==
  IF past = {} THEN 0
  ELSE 1 + CHOOSE d \in {ops[a].depth : a \in past} : \A a \in past : ops[a].depth <= d

Precedes(a, b) ==
  ops[a].depth < ops[b].depth \/ (ops[a].depth = ops[b].depth /\ a < b)

LastOf(S) == CHOOSE x \in S : \A y \in S \ {x} : Precedes(y, x)

\* The tips of a view: the parents of what is minted on it, and its watermark.
Tips(V) == {o \in V : \A p \in V : o \notin ops[p].past}

\* The state a set of operations folds to, in (depth, id) order.
FoldOps(base, S) ==
  MapThenFoldSet(LAMBDA o, st : Apply(st, ops[o]), base, LAMBDA o : o, LastOf, S)

\* The operations of V authorized at their own causal position: a fold of the
\* authorized ones among their ancestors.  What happens concurrently has no say.
AuthorizedIn(base, V) ==
  MapThenFoldSet(
    LAMBDA o, A : IF Authorized(FoldOps(base, ops[o].past \cap A), ops[o])
                  THEN A \cup {o} ELSE A,
    {}, LAMBDA o : o, LastOf, V)

-----------------------------------------------------------------------------
(* Strong removal: the operations of a view that get no effect.            *)

\* Mutant: judged under the role it had.
DemotedAsBefore(base, V, A, d) ==
  {o \in V : /\ ops[o].author = ops[d].target
             /\ Concurrent(o, d)
             /\ ~Authorized(FoldOps(base, ops[o].past \cap A), ops[o])}

\* The concurrent operations of a re-roled member that its new role would not
\* have allowed at their own position.
Demoted(base, V, A, d) ==
  LET t == ops[d].target
      Under(o) == LET st == FoldOps(base, ops[o].past \cap A)
                  IN IF st[t].known THEN [st EXCEPT ![t].role = ops[d].role] ELSE st
  IN {o \in V : ops[o].author = t /\ Concurrent(o, d) /\ ~Authorized(Under(o), ops[o])}

\* What each authorized removal or role change voids as long as it stands.
Strikes(base, V, A) ==
  [d \in {o \in A : ops[o].act \in {"remove", "role"}} |->
     IF ops[d].act = "remove"
     THEN {o \in V : ops[o].author = ops[d].target /\ Concurrent(o, d)}
     ELSE Demoted(base, V, A, d)]

StrikePass(strikes, void) ==
  MapThenFoldSet(LAMBDA d, v : IF d \in v THEN v ELSE v \cup strikes[d],
                 void, LAMBDA d : d, LastOf, DOMAIN strikes)

\* Was o's author a member just before o?  The latest standing add or removal in
\* o's past says.  Two of the same depth come to the code in the order of a hash
\* map (strong_remove.rs 783); here the removal is the later one.
ActiveBefore(base, V, void, o) ==
  LET who    == ops[o].author
      events == {e \in (ops[o].past \cap V) \ void :
                   ops[e].act \in {"add", "remove"} /\ ops[e].target = who}
      latest == {ops[e].act : e \in {e \in events :
                                \A f \in events : ops[f].depth <= ops[e].depth}}
      added  == \E a \in V : ops[a].act = "add" /\ ops[a].target = who
  IN IF latest = {} THEN base[who].active \/ ~added ELSE latest = {"add"}

PresencePass(base, V, void) ==
  MapThenFoldSet(
    LAMBDA o, v : IF o \in v \/ ActiveBefore(base, V, v, o) THEN v ELSE v \cup {o},
    void, LAMBDA o : o, LastOf, V)

RulesFix(base, V, strikes, void) ==
  LET fix[v \in SUBSET V] ==
        LET next == PresencePass(base, V, StrikePass(strikes, v))
        IN IF next = v THEN v ELSE fix[next]
  IN fix[void]

\* Mutant: an add loses only to what it descends from.
NoAddIsLost(V, A, void) == {}

\* An add loses to a concurrent removal of the same member that stands.
LostAdds(V, A, void) ==
  {a \in V \ void :
     /\ ops[a].act = "add"
     /\ \E r \in A \ void : /\ ops[r].act = "remove"
                            /\ ops[r].target = ops[a].target
                            /\ Concurrent(a, r)}

StrongRemove(base, V, A, strikes, void) ==
  LET fix[v \in SUBSET V] ==
        LET settled == RulesFix(base, V, strikes, v)
            lost    == LostAdds(V, A, settled)
        IN IF lost = {} THEN settled ELSE fix[settled \cup lost]
  IN fix[void]

\* An operation falls with the add that registered its author's key.
KeyTaint(V, A, void) ==
  LET Adds(o) == {a \in ops[o].past \cap V \cap A :
                    ops[a].act = "add" /\ ops[a].target = ops[o].author}
      fix[v \in SUBSET V] ==
        LET fallen == {o \in A \ v : Adds(o) # {} /\ LastOf(Adds(o)) \in v}
        IN IF fallen = {} THEN v ELSE fix[v \cup fallen]
  IN fix[void]

VoidFix(base, V, A, strikes, void) ==
  LET fix[v \in SUBSET V] ==
        LET next == StrongRemove(base, V, A, strikes, KeyTaint(V, A, v))
        IN IF next = v THEN v ELSE fix[next]
  IN fix[void]

\* Every operation of V that gets no effect, the unauthorized ones first; A are
\* the authorized ones.
IgnoredBeside(base, V, A) == VoidFix(base, V, A, Strikes(base, V, A), V \ A)
Ignored(base, V) == IgnoredBeside(base, V, AuthorizedIn(base, V))

-----------------------------------------------------------------------------
(* Resolution: the walk in causal order, the smallest id first among those  *)
(* whose parents are done.                                                  *)

Walk(base, V, skip) ==
  LET walked[n \in 0 .. Cardinality(V)] ==
        IF n = 0 THEN [state |-> base, effective |-> {}, todo |-> V]
        ELSE LET acc   == walked[n - 1]
                 ready == {o \in acc.todo : ops[o].past \cap acc.todo = {}}
                 o     == CHOOSE x \in ready : \A y \in ready : x <= y
                 runs  == /\ o \notin skip
                          /\ Authorized(acc.state, ops[o])
                          /\ HasEffect(acc.state, ops[o])
             IN [state     |-> IF runs THEN Apply(acc.state, ops[o]) ELSE acc.state,
                 effective |-> acc.effective \cup (IF runs THEN {o} ELSE {}),
                 todo      |-> acc.todo \ {o}]
  IN walked[Cardinality(V)]

ResolveFrom(base, V) == Walk(base, V, Ignored(base, V))

Resolve(V) == ResolveFrom(Founding, V)

\* An operation is let into a replica only if its author is a member the replica
\* knows now (present or past).
Authenticates(V, o) == ops[o].act = "create" \/ Resolve(V).state[ops[o].author].known

\* The views a replica may hold: closed under causality.
IsView(V) == \A o \in V : ops[o].past \subseteq V
Views == {V \in {Prologue \cup X : X \in SUBSET (DOMAIN ops \ Prologue)} : IsView(V)}

\* Two functions, or the fields of two records, the first one's before the other's.
Both(f, g) == [x \in DOMAIN f \cup DOMAIN g |-> IF x \in DOMAIN f THEN f[x] ELSE g[x]]

\* Minting an operation on the tips of a view, under whatever id it hashes to.
Mint(id, op, V) ==
  /\ id \in FreshIds \ DOMAIN ops
  /\ ops' = Both(ops, [o \in {id} |-> Both([past |-> V, depth |-> DepthOn(V)], op)])

-----------------------------------------------------------------------------
(* Compaction.                                                             *)

\* A cut (a view) may be compacted away only if every other operation descends
\* from all of its tips.
Dominates(C, V) == Tips(C) # {} /\ \A o \in V \ C : Tips(C) \subseteq ops[o].past

\* What a replica that adopted the checkpoint of cut C resolves: its base is the
\* state at the cut, its operations the rest; depths are carried over.
ResolveCompacted(C, V) == ResolveFrom(Resolve(C).state, V \ C)
=============================================================================
