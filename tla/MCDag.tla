------------------------------- MODULE MCDag --------------------------------
(***************************************************************************)
(* Three checks of the DAG keyring in one run, on the same prologue: the   *)
(* founder o, a co-owner c and an editor m.  Part "engine" lets every      *)
(* member use all the authority the rules give; part "vault" the calls of  *)
(* the vault, with their epochs; part "tree" a device of the owner, one of *)
(* the member and the server.                                              *)
(***************************************************************************)
EXTENDS DagEngine, DagVault, DagTree, TLC

CONSTANTS anOwner, aCoOwner, anEditor, ownersDevice, editorsDevice

VARIABLES
  part,  \* the part a behaviour belongs to
  early  \* steps left before parts "engine" and "vault" start: the search is breadth
         \* first, and goes through the deep and narrow part "tree" meanwhile
mcVars == <<treeVars, part, early>>

MCMembers  == {anOwner, aCoOwner, anEditor}
MCPrologue == {0, 8, 9}
Rec(a, k, t, r, p, d, n, w, x) ==
  [author |-> a, act |-> k, target |-> t, role |-> r, past |-> p, depth |-> d,
   ordinal |-> n, wraps |-> w, added |-> x]
MCPrologueOps ==
  (0 :> Rec(anOwner, "create", anOwner, Owner, {}, 0, 0, {anOwner}, {})) @@
  (8 :> Rec(anOwner, "add", aCoOwner, CoOwner, {0}, 1, -1, {}, {<<0, aCoOwner>>})) @@
  (9 :> Rec(anOwner, "add", anEditor, Editor, {0, 8}, 2, -1, {}, {<<0, anEditor>>}))
\* Outside part "vault" an operation seals nothing.
Move(k, t, r) == Both([act |-> k, target |-> t, role |-> r], NoSealing)
MCMoves ==
  {Move("remove", aCoOwner, Viewer), Move("remove", anEditor, Viewer), Move("add", anEditor, Editor),
   Move("role", aCoOwner, Editor), Move("role", anEditor, CoOwner), Move("reseal", anOwner, Viewer)}
MCPersonOf == [d \in {ownersDevice, editorsDevice} |-> IF d = editorsDevice THEN anEditor ELSE anOwner]
MCAsks == {Move("remove", aCoOwner, Viewer), Move("add", aCoOwner, Editor)}

MCInit ==
  /\ part \in {"engine", "vault", "tree"}
  /\ early = IF part = "tree" THEN 0 ELSE 30
  /\ TreeInit

Replicas == UNCHANGED <<served, acl, head, floor, call, tick, minted>>

MCNext ==
  /\ UNCHANGED part
  /\ \/ early > 0 /\ early' = early - 1 /\ UNCHANGED treeVars
     \/ early = 0 /\ part = "engine" /\ EngineNext /\ UNCHANGED early /\ Replicas
     \/ early = 0 /\ part = "vault" /\ VaultNext /\ UNCHANGED early /\ Replicas
     \/ early = 0 /\ part = "tree" /\ TreeNext /\ UNCHANGED early

MCSpec == MCInit /\ [][MCNext]_mcVars /\ TreeFairness

\* Part "vault" of CheckpointFoldsAlike.
VaultCheckpointFoldsAlike == part = "vault" => CheckpointFoldsAlike
=============================================================================
