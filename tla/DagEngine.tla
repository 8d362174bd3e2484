----------------------------- MODULE DagEngine ------------------------------
(***************************************************************************)
(* The rules of DagRules at work: any member mints an operation on any     *)
(* view, at any time, and the set of all operations grows.  Every view of  *)
(* it is what some replica may hold, in whatever order the operations      *)
(* reached it; the properties are about what such a replica resolves.      *)
(*                                                                         *)
(* Every authority the rules give is used here, a co-owner's included; the *)
(* narrower set of operations the app mints is in DagVault and DagTree.    *)
(***************************************************************************)
EXTENDS DagRules

CONSTANT Moves \* what a member may try: [act, target, role]

\* A move is an action on a member, with a role where it gives one.
ASSUME MovesAssumption ==
  \A move \in Moves : /\ {"act", "target", "role"} \subseteq DOMAIN move
                      /\ move.act \in Acts /\ move.target \in Members /\ move.role \in Roles

EngineInit == ops = PrologueOps

\* A member's device appends an operation on the tips of its view, if its own
\* resolution allows it and it would do something.
Append(author, move, V, st) ==
  LET op == Both([author |-> author], move)
  IN /\ Authorized(st, op)
     /\ HasEffect(st, op)
     /\ \E id \in FreshIds : Mint(id, op, V)

EngineNext ==
  \E V \in Views : \E r \in {Resolve(V)} :
    \E author \in Members, move \in Moves : Append(author, move, V, r.state)

EngineSpec == EngineInit /\ [][EngineNext]_ops

-----------------------------------------------------------------------------
Everything == DOMAIN ops
Now        == Resolve(Everything)

\* Whom the owner removed stays out until somebody who knew of the removal adds
\* them again: neither an accomplice's concurrent re-add nor anything the removed
\* member did meanwhile, a co-owner included, survives the meeting
\* (strong_remove.rs rules 1, 2 and 4).
OwnersRemovalStands ==
  \E now \in {Now} : \A r \in Everything :
    ops[r].author = Founder /\ ops[r].act = "remove" =>
      LET out  == ops[r].target
          back == {a \in Everything : ops[a].act = "add" /\ ops[a].target = out
                                      /\ r \in ops[a].past}
      IN /\ back = {} => out \notin Active(now.state)
         /\ \A o \in now.effective : ops[o].author = out => ~Concurrent(o, r)

\* A demoted co-owner keeps nothing of what it did concurrently with the authority
\* the owner took away (StrongDemote).
DemotionDisarms ==
  \E now \in {Now} : \A d \in Everything :
    ops[d].author = Founder /\ ops[d].act = "role" /\ ops[d].role > CoOwner =>
      \A o \in now.effective :
        ops[o].author = ops[d].target /\ Concurrent(o, d) =>
          ops[o].act = "reseal" \/ ops[o].target = ops[o].author

-----------------------------------------------------------------------------
(* What the sources promise and TLC refutes; no run checks these.          *)

\* strong_remove.rs 119-125: "process with that remove in one order so the remove can never cascade onto a
\* third party's op in the pass it becomes invalid": what is voided is voided by
\* something that stands.
NoPhantomVoid ==
  LET A    == AuthorizedIn(Founding, Everything)
      void == Ignored(Founding, Everything)
      S    == Strikes(Founding, Everything, A)
  IN \A o \in void \cap A :
       \/ \E d \in DOMAIN S \ void : o \in S[d]
       \/ ~ActiveBefore(Founding, Everything, void, o)
       \/ o \in LostAdds(Everything, A, void \ {o})
       \/ o \in KeyTaint(Everything, A, void \ {o})

\* A replica that adopted a checkpoint at a dominating cut resolves the membership
\* of a replica with the whole history.
CompactionAgrees ==
  \A C \in Views :
    Dominates(C, Everything) =>
      ResolveCompacted(C, Everything).state = Now.state

\* An operation one replica holds is let into every replica that holds its past.
AdmittedInAnyOrder ==
  \A V \in Views, o \in Everything :
    ops[o].past \subseteq V => Authenticates(V, o)
=============================================================================
