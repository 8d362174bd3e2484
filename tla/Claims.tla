------------------------------- MODULE Claims -------------------------------
(* Records, the operations on them, and the engine that folds both             *)
(* (openom-data-model, openom-data-crdt, openom-data-tree).                    *)
(*                                                                             *)
(* A claim and an operation are content-addressed: their id is what they say,  *)
(* so here each is its own id.  An anchor's id is opaque, chosen by the caller. *)
(* A batch whose ids do not match its contents never decodes and is left out.  *)
EXTENDS Integers, Sequences, FiniteSets

CONSTANT LogicalPerMilli   \* ticks of the clock within one millisecond

ASSUME ClockAssumption == LogicalPerMilli \in Nat \ {0}

-----------------------------------------------------------------------------
(* The hybrid clock: <<millis, logical>>.                                      *)

Later(s, t) == s[1] > t[1] \/ (s[1] = t[1] /\ s[2] > t[2])

\* Only the wall clock.
ClockWall(clock, now) == IF now > clock[1] THEN <<now, 0>> ELSE clock
ClockNext(clock, now) ==
    IF now > clock[1] THEN <<now, 0>>
    ELSE <<clock[1] + (clock[2] + 1) \div LogicalPerMilli, (clock[2] + 1) % LogicalPerMilli>>
ClockObserve(clock, at) == IF Later(at, clock) THEN at ELSE clock

-----------------------------------------------------------------------------
(* Records and operations.                                                     *)

NewAnchor(id, type, by, at) ==
    [kind |-> "anchor", id |-> id, type |-> type, by |-> by, at |-> at]
NewClaim(target, predicate, value, by, at) ==
    [kind |-> "claim", target |-> target, predicate |-> predicate, value |-> value,
     by |-> by, at |-> at]
NewRemove(target, by, at) == [kind |-> "remove", target |-> target, by |-> by, at |-> at]
NewSupersede(prior, replacement, by, at) ==
    [kind |-> "supersede", prior |-> prior, replacement |-> replacement, by |-> by, at |-> at]
NewRevoke(removal, by, at) == [kind |-> "revoke", removal |-> removal, by |-> by, at |-> at]

IsOp(i) == i.kind \in {"remove", "supersede", "revoke"}
IdOf(i) == IF i.kind = "anchor" THEN i.id ELSE i

\* A moderator has put an entry that carries the operation into the log.
Authorized(op, committers, moderators) == \E m \in moderators : <<op, m>> \in committers

\* The live records: what is asserted, or replaces something in its author's own
\* name, and is not named by a removal that stands or by a replacement.
Asserted(items) ==
    {i \in items : ~IsOp(i)}
        \cup {i.replacement : i \in {x \in items : /\ x.kind = "supersede"
                                                   /\ x.by = x.replacement.by}}
Revoked(acting) == {i.removal : i \in {x \in acting : x.kind = "revoke"}}
Dead(acting) ==
    {i.target : i \in {x \in acting : x.kind = "remove" /\ x \notin Revoked(acting)}}
        \cup {i.prior : i \in {x \in acting : x.kind = "supersede"}}
Materialize(items, committers, moderators) ==
    LET acting == {i \in items : IsOp(i) /\ Authorized(i, committers, moderators)}
    IN  {r \in Asserted(items) : IdOf(r) \notin Dead(acting)}

-----------------------------------------------------------------------------
(* The engine: one replica's items, who committed each operation, who            *)
(* moderates, what is minted and not yet flushed, and the clock.               *)

NewTree(author) ==
    [author |-> author, items |-> {}, committers |-> {}, moderators |-> {author},
     pending |-> {}, clock |-> <<0, 0>>]

Live(t) == Materialize(t.items, t.committers, t.moderators)

\* A later item takes the place of one of the same id.
Insert(items, new) == {i \in items : IdOf(i) \notin {IdOf(n) : n \in new}} \cup new
Committed(new, by) == {<<i, by>> : i \in {x \in new : IsOp(x)}}

Emit(t, new, at) ==
    [t EXCEPT !.items = Insert(@, new), !.pending = @ \cup new, !.clock = at,
              !.committers = @ \cup Committed(new, t.author)]

AssertClaim(t, target, predicate, value, at) ==
    Emit(t, {NewClaim(target, predicate, value, t.author, at)}, at)
AssertAnchor(t, id, type, at) ==
    Emit(t, {NewAnchor(id, type, t.author, at),
             NewClaim(id, "existence", [none |-> 0], t.author, at)}, at)
Remove(t, target, at) == Emit(t, {NewRemove(target, t.author, at)}, at)
SupersedeClaim(t, prior, target, predicate, value, at) ==
    Emit(t, {NewSupersede(prior, NewClaim(target, predicate, value, t.author, at),
                          t.author, at)}, at)
Revoke(t, removal, at) == Emit(t, {NewRevoke(removal, t.author, at)}, at)

Flushed(t) == [t EXCEPT !.pending = {}]

\* The clock after all of the items, taken in any order.
Observed(clock, items) ==
    LET seen == {clock} \cup {i.at : i \in items}
    IN  CHOOSE s \in seen : \A u \in seen : ~Later(u, s)

\* A batch taken as committed by whoever folds it.
MergeAsOwn(t, batch, by) ==
    [t EXCEPT !.items = Insert(@, batch), !.committers = @ \cup Committed(batch, t.author),
              !.clock = Observed(@, batch)]
Merge(t, batch, by) ==
    [t EXCEPT !.items = Insert(@, batch), !.committers = @ \cup Committed(batch, by),
              !.clock = Observed(@, batch)]

Snapshot(t) == Live(t)
LoadSnapshot(t, batch) ==
    [t EXCEPT !.items = Insert(@, batch), !.clock = Observed(@, batch)]

SetModerators(t, dids) == [t EXCEPT !.moderators = dids]
=============================================================================
