--------------------------- MODULE TrustRegister ---------------------------
(***************************************************************************)
(* What a keyring promises its replicas, whatever store carries it: one    *)
(* register of revisions that only grows, and readers that move along it.  *)
(* KeyringChain implements it over a blob store that may be stale, with    *)
(* drafts, resets and lost races.                                          *)
(***************************************************************************)
EXTENDS Naturals, Sequences

CONSTANTS
  Reader,  \* who trusts revisions
  Bodies,  \* what a revision may say
  Nobody   \* no body: a reader before its first sight

VARIABLES
  register, \* the revisions, oldest first
  trusts    \* [Reader -> the revision the reader trusts, or Nobody]

RegisterInit ==
  /\ register = <<>>
  /\ trusts = [r \in Reader |-> Nobody]

Trusts(r, b) == trusts' = [trusts EXCEPT ![r] = b]

\* A reader adds the next revision and trusts it; it was at the last one.
Extend(r, b) ==
  /\ Trusts(r, b)
  /\ register # <<>> => trusts[r] = register[Len(register)]
  /\ \A n \in DOMAIN register : register[n] # b
  /\ register' = Append(register, b)

\* A reader moves on, or sees the register for the first time.
Follow(r, b) ==
  /\ Trusts(r, b)
  /\ \E n \in DOMAIN register :
       register[n] = b /\ \A k \in n .. Len(register) : trusts[r] # register[k]
  /\ UNCHANGED register

\* A reader starts over.
Forget(r) ==
  /\ Trusts(r, Nobody)
  /\ UNCHANGED register

\* Every step changes what one reader trusts.
RegisterNext ==
  \E r \in Reader :
    /\ trusts'[r] # trusts[r]
    /\ Forget(r) \/ \E b \in Bodies : Extend(r, b) \/ Follow(r, b)

RegisterSpec == RegisterInit /\ [][RegisterNext]_<<register, trusts>>
=============================================================================
