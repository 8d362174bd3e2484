----------------------------- MODULE Frontiers -----------------------------
(***************************************************************************)
(* The vocabulary every part of the sync path shares: dots, and frontiers  *)
(* (docsync::Frontier, the server's {replica: counter} maps).  A frontier  *)
(* maps a replica to its exclusive counter; a replica it lacks reads 0.    *)
(***************************************************************************)
EXTENDS Naturals, FiniteSets, FiniteSetsExt

CONSTANT Replica    \* replica ids; a fresh one is minted on every open

Dot == Replica \X Nat

IsFrontier(f) == DOMAIN f \subseteq Replica /\ f \in [DOMAIN f -> Nat]
EmptyFrontier == [r \in {} |-> 0]
At(f, r) == IF r \in DOMAIN f THEN f[r] ELSE 0
IsBelow(x, f) == x[2] < At(f, x[1])

\* Every coordinate of f is reached by g.
LeqFrontier(f, g) == \A r \in DOMAIN f : f[r] <= At(g, r)

\* f with coordinate r set to n.
WithCounter(f, r, n) == [q \in DOMAIN f \cup {r} |-> IF q = r THEN n ELSE f[q]]
=============================================================================
