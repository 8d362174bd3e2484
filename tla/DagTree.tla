------------------------------- MODULE DagTree ------------------------------
(***************************************************************************)
(* One DAG tree between its devices and the server (apps/app/src/core      *)
(* sharing.js and appCore.worker.js over openom-keyring-dag/client.rs; the *)
(* server's anchor_verifier.rs under keyring.rs put_keyring).              *)
(*                                                                         *)
(* A device stores two things, each with a write of its own: the head, a   *)
(* closed set of operations, and the floor, the tips it will not go below. *)
(* The server stores the set it last accepted.  A membership call and the  *)
(* sync tick each read the head, wait, and write it back; nothing makes    *)
(* one wait for the other.                                                 *)
(***************************************************************************)
EXTENDS DagRules

CONSTANTS
  Devices,  \* the devices
  PersonOf, \* [Devices -> Members]
  Joiner,   \* the device that starts without the tree, invited by the owner
  Asks,     \* the membership calls users make: [act, target, role]
  TreeIds   \* the ids their operations hash to, in the order they are minted

VARIABLES
  served, \* the operations of the newest revision on the server
  acl,    \* the access list the server derived from it, [Members -> membership]
  head,   \* [Devices -> set of ids]  keyringStore.saveHead
  floor,  \* [Devices -> set of ids]  saveWatermark
  call,   \* [Devices -> the membership call in progress]
  tick,   \* [Devices -> the tick in progress]
  minted  \* [Devices -> the ids it minted]  a history, for the properties

treeVars == <<ops, served, acl, head, floor, call, tick, minted>>

\* A call or a tick at a stage, with the keyring it read or wrote.
At(stage, base) == [at |-> stage, base |-> base, floor |-> {}]
Idle       == At("idle", {})
Publishing == At("publish", {})

Present(d) == head[d] # {}
AccessOn(d) == acl[PersonOf[d]]

TreeInit ==
  /\ ops = PrologueOps
  /\ served = Prologue
  /\ acl = Resolve(Prologue).state
  /\ head  = [d \in Devices |-> IF d = Joiner THEN {} ELSE Prologue]
  /\ floor = [d \in Devices |-> IF d = Joiner THEN {} ELSE Tips(Prologue)]
  /\ call  = [d \in Devices |-> Idle]
  /\ tick  = [d \in Devices |-> Idle]
  /\ minted = [d \in Devices |-> {}]

-----------------------------------------------------------------------------
(* The server.                                                             *)

\* A PUT is taken from a signer, and only if it holds every tip of the stored
\* anchor; the stored revision is the merge of both.
Takes(d) == AccessOn(d).active /\ AccessOn(d).role <= CoOwner /\ Tips(served) \subseteq head[d]

Store(anchor) ==
  /\ served' = anchor
  /\ acl' = Resolve(anchor).state

\* Mutant: the candidate replaces the stored anchor unchecked.
PublishReplaces(d) == AccessOn(d).active /\ AccessOn(d).role <= CoOwner /\ Store(head[d])

Publish(d) == Takes(d) /\ Store(served \cup head[d])

\* publishDagAnchor: nothing to do when the served anchor is the head.
ToPublish(h) == IF h = served THEN Idle ELSE Publishing

-----------------------------------------------------------------------------
(* A membership call: read the head, mint on it, write the head, write the *)
(* floor, publish.                                                         *)

CallLoad(d) ==
  /\ PersonOf[d] = Founder
  /\ call[d] = Idle
  /\ call' = [call EXCEPT ![d] = At("loaded", head[d])]
  /\ UNCHANGED <<ops, served, acl, head, floor, tick, minted>>

\* Minting the next operation of the tree, for a signer who may and to some effect.
MintNext(author, ask, base, id) ==
  \E op \in {Both([author |-> author], ask)} : \E r \in {Resolve(base)} :
    /\ Authorized(r.state, op)
    /\ HasEffect(r.state, op)
    /\ \A other \in TreeIds \ DOMAIN ops : id <= other
    /\ Mint(id, op, base)

CallMint(d, ask) ==
  /\ call[d].at = "loaded"
  /\ \E id \in TreeIds \ DOMAIN ops :
       LET authored == call[d].base \cup {id}
       IN /\ MintNext(PersonOf[d], ask, call[d].base, id)
          /\ head'   = [head EXCEPT ![d] = authored]
          /\ call'   = [call EXCEPT ![d] = At("saved", authored)]
          /\ minted' = [minted EXCEPT ![d] = @ \cup {id}]
  /\ UNCHANGED <<served, acl, floor, tick>>

\* The floor written is the frontier of the keyring the call authored, whatever the
\* head is by now.
CallFloor(d) ==
  /\ call[d].at = "saved"
  /\ floor' = [floor EXCEPT ![d] = Tips(call[d].base)]
  /\ call'  = [call EXCEPT ![d] = ToPublish(head[d])]
  /\ UNCHANGED <<ops, served, acl, head, tick, minted>>

CallPublish(d) ==
  /\ call[d].at = "publish"
  /\ Publish(d)
  /\ call' = [call EXCEPT ![d] = Idle]
  /\ UNCHANGED <<ops, head, floor, tick, minted>>

\* The call fails or the transport does, at any point.
CallFails(d) ==
  /\ call[d] # Idle
  /\ call' = [call EXCEPT ![d] = Idle]
  /\ UNCHANGED <<ops, served, acl, head, floor, tick, minted>>

-----------------------------------------------------------------------------
(* The tick: reconcileMembershipForTick over syncDagAnchor, then publish.  *)

TickLoad(d) ==
  /\ Present(d) /\ tick[d] = Idle
  /\ tick' = [tick EXCEPT ![d] = [at |-> "read", base |-> head[d], floor |-> floor[d]]]
  /\ UNCHANGED <<ops, served, acl, head, floor, call, minted>>

\* Mutant: one tip in common and the served anchor counts as covered.
CoveredByOne(h) == Tips(served) \cap h # {}

\* The served anchor adds nothing to the head the tick read.
Covered(h) == Tips(served) \subseteq h

TickCovered(d) ==
  /\ tick[d].at = "read"
  /\ AccessOn(d).active
  /\ Covered(tick[d].base)
  /\ tick' = [tick EXCEPT ![d] = ToPublish(head[d])]
  /\ UNCHANGED <<ops, served, acl, head, floor, call, minted>>

\* Above the floor: merged onto the head the tick read, and saved over the head.
Merged(d) == tick[d].base \cup served

TickAdopt(d) ==
  /\ tick[d].at = "read"
  /\ AccessOn(d).active
  /\ ~Covered(tick[d].base)
  /\ tick[d].floor \subseteq served
  /\ head' = [head EXCEPT ![d] = Merged(d)]
  /\ tick' = [tick EXCEPT ![d] = At("floor", Merged(d))]
  /\ UNCHANGED <<ops, served, acl, floor, call, minted>>

TickFloor(d) ==
  /\ tick[d].at = "floor"
  /\ floor' = [floor EXCEPT ![d] = Tips(tick[d].base)]
  /\ tick'  = [tick EXCEPT ![d] = ToPublish(head[d])]
  /\ UNCHANGED <<ops, served, acl, head, call, minted>>

TickPublish(d) ==
  /\ tick[d].at = "publish"
  /\ Publish(d)
  /\ tick' = [tick EXCEPT ![d] = Idle]
  /\ UNCHANGED <<ops, head, floor, call, minted>>

\* A read below the floor, a refused or lost PUT, no access: the tick ends in error.
TickFails(d) ==
  /\ tick[d] # Idle
  /\ tick' = [tick EXCEPT ![d] = Idle]
  /\ UNCHANGED <<ops, served, acl, head, floor, call, minted>>

-----------------------------------------------------------------------------
(* Joining.                                                                *)

\* The pin of an invite is a frontier the owner's device had: here, that of the
\* prologue, which any served anchor holds.
Join ==
  /\ ~Present(Joiner)
  /\ AccessOn(Joiner).active
  /\ Tips(Prologue) \subseteq served
  /\ head'  = [head EXCEPT ![Joiner] = served]
  /\ floor' = [floor EXCEPT ![Joiner] = Tips(served)]
  /\ UNCHANGED <<ops, served, acl, call, tick, minted>>

\* Another device of the owner, in step with the server, authors and publishes.
Elsewhere(ask) ==
  /\ \E id \in TreeIds \ DOMAIN ops :
       /\ MintNext(Founder, ask, served, id)
       /\ served' = served \cup {id}
       /\ acl' = Apply(acl, Both([author |-> Founder], ask))
  /\ UNCHANGED <<head, floor, call, tick, minted>>

CallStep(d) ==
  \/ CallLoad(d)
  \/ \E ask \in Asks : CallMint(d, ask)
  \/ CallFloor(d)
  \/ CallPublish(d)
  \/ CallFails(d)

TickStep(d) ==
  \/ TickLoad(d)
  \/ TickCovered(d)
  \/ TickAdopt(d)
  \/ TickFloor(d)
  \/ TickPublish(d)
  \/ TickFails(d)

TreeNext ==
  \/ \E d \in Devices : CallStep(d) \/ TickStep(d)
  \/ Join
  \/ \E ask \in Asks : Elsewhere(ask)

TreeSpec == TreeInit /\ [][TreeNext]_treeVars

\* The driver ticks again and again and every tick ends; the transport lets a tick
\* through again and again.
TreeFairness ==
  /\ WF_treeVars(TickStep(Joiner))
  /\ SF_treeVars(TickAdopt(Joiner))

-----------------------------------------------------------------------------
\* A device with nothing of its own left to publish can always follow the server:
\* its floor never asks for what the server does not have, however the writes of
\* head and floor and the crashes between them fell.
ReadersFollow ==
  \A d \in Devices : minted[d] \subseteq served => floor[d] \subseteq served

\* Whatever the server comes to hold, a member that joined, authors nothing and goes
\* on ticking comes to hold too.
ReadersCatchUp ==
  \A id \in TreeIds : (Present(Joiner) /\ id \in served) ~> (id \in head[Joiner])

\* "a membership mutation committed locally but its immediate keyring PUT failed:
\* every later tick retries" (appCore.worker.js 548): what a device authored stays
\* in its head.
AuthoredIsKept == \A d \in Devices : minted[d] \subseteq head[d]
=============================================================================
