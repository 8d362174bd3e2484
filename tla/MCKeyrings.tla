----------------------------- MODULE MCKeyrings -----------------------------
(***************************************************************************)
(* The chain engine twice over: as a store's client moves it (KeyringChain)*)
(* and as the devices of a shared tree live with it (SharedTree).  The two *)
(* share the pure rules of ChainKeyring and no variable: a behaviour       *)
(* explores one part, chosen at the start.                                 *)
(***************************************************************************)
EXTENDS KeyringChain, SharedTree

CONSTANT Parts
VARIABLE part
mcVars == <<part, vars, treeVars>>

MCRules == {[kind |-> 0, threshold |-> 0], [kind |-> 2, threshold |-> 1]}

\* the part left alone starts from one of its initial states; the chain starts under the
\* threshold rule, and may come under the founder's alone
MCInit ==
    /\ part \in Parts /\ ChainInit /\ TreeInit
    /\ part = "chain" => acl = 1 /\ docs[1].gov.kind = 2
    /\ part = "tree" => docs[1].gov.kind = 0
MCNext ==
    /\ UNCHANGED part
    /\ \/ part = "chain" /\ ChainNext /\ UNCHANGED treeVars
       \/ part = "tree" /\ TreeNext /\ UNCHANGED vars
MCSpec == MCInit /\ [][MCNext]_mcVars
=============================================================================
