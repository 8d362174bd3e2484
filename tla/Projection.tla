----------------------------- MODULE Projection -----------------------------
(* The read model: what a set of live records says, as people, relationships,  *)
(* unions and events (openom-data-projection).  A pure function of the set.    *)
(*                                                                             *)
(* A record is an anchor or a claim.  A claim's id is the hash of its content, *)
(* so here the claim is its own id; an anchor's id is opaque, [n |-> k], and   *)
(* ordered by k.  A date is its years, a name its parts.  Lists are sets: no   *)
(* order but that of ids decides anything.                                     *)
EXTENDS Integers, FiniteSets, Sequences

CONSTANT None   \* no value

Threshold == 1   \* Policy::default: every relation takes effect at this score

IsClaim(r) == r.kind = "claim"
Anchors(L, type) == {r.id : r \in {x \in L : x.kind = "anchor" /\ x.type = type}}
Having(L, predicate, field) ==
    {c \in L : IsClaim(c) /\ c.predicate = predicate /\ field \in DOMAIN c.value}
FactOf(c) == [target |-> c.target, predicate |-> c.predicate, value |-> c.value]
Authors(F) == {c.by : c \in F}

Least(ids) == CHOOSE x \in ids : \A y \in ids : x.n <= y.n

-----------------------------------------------------------------------------
(* Scores.  The claims F say one thing; an attestation on any of them, or on  *)
(* the fact the first of them states, counts; an asserter's own support does   *)
(* not.                                                                        *)

Voters(F, L, verdict) ==
    {a.by : a \in {x \in Having(L, "attest", "verdict") :
                      /\ x.value.verdict = verdict
                      /\ \/ x.target \in F
                         \/ x.target = FactOf(CHOOSE c \in F : TRUE)}}
Score(F, L) ==
    Cardinality(Authors(F)) + Cardinality(Voters(F, L, "support") \ Authors(F))
        - Cardinality(Voters(F, L, "reject"))

\* The values of c.value[field] with the most distinct authors, one of them chosen.
MostCorroborated(C, field) ==
    LET Backing(v) == Authors({c \in C : c.value[field] = v})
        values     == {c.value[field] : c \in C}
        best       == {v \in values : \A w \in values :
                          Cardinality(Backing(v)) >= Cardinality(Backing(w))}
    IN  IF values = {} THEN None ELSE CHOOSE v \in best : TRUE

-----------------------------------------------------------------------------
(* Identity: same_as merges anchors, different_from cuts them apart.           *)

PairOf(c) == {c.value.pair[1], c.value.pair[2]}
Paired(L, predicate) == {c \in Having(L, predicate, "pair") : Cardinality(PairOf(c)) = 2}
Scored(L, predicate) ==
    {[pair |-> p, score |-> Score({c \in Paired(L, predicate) : PairOf(c) = p}, L)] :
        p \in {PairOf(c) : c \in Paired(L, predicate)}}
Edges(L) == {e \in Scored(L, "same_as") : e.score >= Threshold}
Cuts(L)  == {e.pair : e \in {x \in Scored(L, "different_from") : x.score >= Threshold}}

Greatest(p) == CHOOSE x \in p : \A y \in p : y.n <= x.n
EarlierPair(p, q) ==
    \/ Least(p).n < Least(q).n
    \/ Least(p).n = Least(q).n /\ Greatest(p).n < Greatest(q).n
Earlier(e, f) ==
    \/ e.score > f.score
    \/ e.score = f.score /\ EarlierPair(e.pair, f.pair)

\* Every id that takes part as a person.
Nodes(L) ==
    Anchors(L, "person")
        \cup (UNION {PairOf(c) : c \in Paired(L, "same_as") \cup Paired(L, "different_from")
                                         \cup Paired(L, "partnership")})
        \cup {c.target : c \in Having(L, "name", "parts") \cup Having(L, "sex", "sex")
                                 \cup Having(L, "biography", "text")
                                 \cup Having(L, "custom_value", "fieldId")
                                 \cup Having(L, "media_link", "mediaHash")}
        \cup {c.value.personId : c \in Having(L, "reattribute_to", "personId")}
        \cup UNION {{c.target, c.value.parentPersonId} :
                       c \in Having(L, "parent", "parentPersonId")}

\* The union-find: parents, of which the smaller id is always the root.
Find(parent, x) ==
    LET up[y \in DOMAIN parent] == IF parent[y] = y THEN y ELSE up[parent[y]] IN up[x]
Union(parent, a, b) ==
    LET ra == Find(parent, a)
        rb == Find(parent, b)
        lo == Least({ra, rb})
    IN  [parent EXCEPT ![ra] = lo, ![rb] = lo]
\* Only a cut between the two ids themselves.
ViolatesDirectly(parent, p, cuts) == p \in cuts
Violates(parent, p, cuts) ==
    \E c \in cuts : {Find(parent, x) : x \in c} = {Find(parent, x) : x \in p}
AdmitEdge(cuts, e, st) ==
    LET roots == {Find(st.parent, x) : x \in e.pair} IN
    IF Cardinality(roots) = 1 THEN st
    ELSE IF Violates(st.parent, e.pair, cuts)
         THEN [st EXCEPT !.skipped = @ \cup {e.pair}]
         ELSE [st EXCEPT !.parent = Union(@, Least(e.pair), Greatest(e.pair))]

\* The edges in order, each admitted unless a cut forbids it.
LastOf(edges) == CHOOSE e \in edges : \A f \in edges \ {e} : Earlier(f, e)
Cluster(nodes, edges, cuts) ==
    LET after[E \in SUBSET edges] ==
            IF E = {} THEN [parent |-> [x \in nodes |-> x], skipped |-> {}]
            ELSE AdmitEdge(cuts, LastOf(E), after[E \ {LastOf(E)}])
        end == after[edges]
    IN  [rep |-> [x \in nodes |-> Find(end.parent, x)], skipped |-> end.skipped]

Members(R, x) == {y \in DOMAIN R.rep : R.rep[y] = R.rep[x]}

\* The claim's person, when a reattribution outweighs where it was made.
Rehome(L) ==
    LET moves  == Having(L, "reattribute_to", "personId")
        To(c, p) == {m \in moves : m.target = c /\ m.value.personId = p}
        Ok(c)  == {p \in {m.value.personId : m \in {x \in moves : x.target = c}} :
                      Score(To(c, p), L) >= Threshold}
        moved  == {c \in {m.target : m \in moves} : Ok(c) # {}}
    IN  [c \in moved |->
            Least({p \in Ok(c) : \A q \in Ok(c) : Score(To(c, p), L) >= Score(To(c, q), L)})]

Resolve(L) ==
    LET k == Cluster(Nodes(L), Edges(L), Cuts(L)) IN
    [rep |-> k.rep, skipped |-> k.skipped, rehome |-> Rehome(L),
     anchors |-> Anchors(L, "person")]

Canon(R, x) ==
    IF x \notin DOMAIN R.rep THEN None
    ELSE IF Members(R, x) \cap R.anchors = {} THEN None
         ELSE Least(Members(R, x) \cap R.anchors)
EffTarget(R, c) == IF c \in DOMAIN R.rehome THEN R.rehome[c] ELSE c.target
SubjectOf(R, c) == Canon(R, EffTarget(R, c))

-----------------------------------------------------------------------------
(* People.  A field of a person is read off the claims whose subject, after    *)
(* reattribution, is in the person's cluster.                                  *)

About(R, C, person) == {c \in C : SubjectOf(R, c) = person}

\* A name's intrinsic form, to which equivalences and preferences refer.
NameRef(c) == [k \in {"parts", "script", "culture"} \cap DOMAIN c.value |-> c.value[k]]
\* Of the claims that state one form, the one that stands for it.
Carrier(names, ref) == CHOOSE c \in names : NameRef(c) = ref
Joined(names, r, s) ==
    \E c \in names : /\ "equivalent_to" \in DOMAIN c.value
                     /\ \/ NameRef(c) = r /\ s \in c.value.equivalent_to
                        \/ NameRef(c) = s /\ r \in c.value.equivalent_to
FormsJoinedTo(names, ref) ==
    LET refs == {NameRef(c) : c \in names}
        Closed(S) == \A r \in S : \A s \in refs : Joined(names, r, s) => s \in S
    IN  {r \in refs : \A S \in SUBSET refs : ref \in S /\ Closed(S) => r \in S}
\* The class of a name: a claim of its component, or the name itself.
EquivClass(names, c) ==
    IF c = Carrier(names, NameRef(c))
    THEN CHOOSE d \in {Carrier(names, r) : r \in FormsJoinedTo(names, NameRef(c))} : TRUE
    ELSE c

\* The preferred form with the best score among those the person's names have.
PreferredName(L, R, person, names) ==
    LET votes == {v \in Having(L, "preferred", "contentRef") :
                     v.value.for = "name" /\ Canon(R, v.target) = person}
        For(v) == {w \in votes : w.target = v.target /\ w.value = v.value}
        ok == {v \in votes : /\ Score(For(v), L) >= Threshold
                             /\ \E c \in names : NameRef(c) = v.value.contentRef}
    IN  IF ok = {} THEN None
        ELSE LET top == CHOOSE v \in ok : \A w \in ok : Score(For(v), L) >= Score(For(w), L)
             IN  Carrier(names, top.value.contentRef)

CustomFields(L, mine) ==
    {LET defs == {d \in Having(L, "custom_field", "fieldId") : d.value.fieldId = f}
         Def(k, dflt) == LET v == MostCorroborated({d \in defs : k \in DOMAIN d.value}, k)
                         IN  IF v = None THEN dflt ELSE v
     IN  [field |-> f, label |-> Def("label", f), type |-> Def("type", "text"),
          value |-> MostCorroborated({c \in mine : c.value.fieldId = f}, "value")] :
        f \in {c.value.fieldId : c \in mine}}

\* A citation and its source, resolved or left empty.
Sources(L, mine) ==
    {[claim |-> c, source |-> c.citation.sourceId,
      description |-> IF c.citation.sourceId \in {s \in L : IsClaim(s) /\ s.predicate = "source"}
                      THEN c.citation.sourceId.value ELSE None] : c \in mine}

Known == {"source", "place_point", "place_name", "part_of", "media_link", "same_as",
          "different_from", "attest", "preferred", "parent", "partnership", "event_type",
          "date", "event_place", "participant", "name", "sex", "biography", "custom_field",
          "custom_value", "reattribute_to", "existence"}
Unknown(L) == {c \in L : IsClaim(c) /\ c.predicate \notin Known}

PersonAt(L, R, id) ==
    LET Of(predicate, field) == About(R, Having(L, predicate, field), id)
        names == Of("name", "parts")
    IN  [id        |-> id,
         also      |-> (Members(R, id) \cap R.anchors) \ {id},
         names     |-> {[claim |-> c, class |-> EquivClass(names, c)] : c \in names},
         preferred |-> PreferredName(L, R, id, names),
         sex       |-> MostCorroborated(Of("sex", "sex"), "sex"),
         biography |-> MostCorroborated(Of("biography", "text"), "text"),
         customs   |-> CustomFields(L, Of("custom_value", "fieldId")),
         sources   |-> Sources(L, About(R, {c \in L : "citation" \in DOMAIN c}, id)),
         media     |-> Of("media_link", "mediaHash"),
         other     |-> About(R, Unknown(L), id)]
People(L, R) == {PersonAt(L, R, id) : id \in {Canon(R, x) : x \in R.anchors}}

-----------------------------------------------------------------------------
(* Relationships, events and the unions they make.                             *)

KindOf(c) == IF "kind" \in DOMAIN c.value THEN c.value.kind ELSE "biological"
ParentKey(c) == <<c.target, c.value.parentPersonId, KindOf(c)>>
ParentChild(L, R) ==
    LET C == Having(L, "parent", "parentPersonId")
        Stands(k) == Score({c \in C : ParentKey(c) = k}, L) >= Threshold
        Edge(k) == [parent |-> Canon(R, k[2]), child |-> Canon(R, k[1]), kind |-> k[3]]
    IN  {e \in {Edge(k) : k \in {x \in {ParentKey(c) : c \in C} : Stands(x)}} :
            None \notin {e.parent, e.child} /\ e.parent # e.child}

RoleOf(c) == IF "role" \in DOMAIN c.value THEN c.value.role ELSE "partner"
PartnerKey(c) == <<PairOf(c), RoleOf(c)>>
Partnerships(L, R) ==
    LET C == Paired(L, "partnership")
        Stands(k) == Score({c \in C : PartnerKey(c) = k}, L) >= Threshold
        Edge(k) == [pair |-> {Canon(R, x) : x \in k[1]}, role |-> k[2]]
    IN  {e \in {Edge(k) : k \in {x \in {PartnerKey(c) : c \in C} : Stands(x)}} :
            None \notin e.pair /\ Cardinality(e.pair) = 2}

\* The name whose validity covers the year, else the most corroborated one.
Covers(c, year) == \/ "validRange" \notin DOMAIN c.value
                   \/ /\ c.value.validRange[1] <= year
                      /\ year <= c.value.validRange[2]
PlaceName(L, place, year) ==
    LET names == {c \in Having(L, "place_name", "name") : c.target = place}
        At(c) == {d \in names : d.value = c.value}
        Best(C) == IF C = {} THEN None
                   ELSE (CHOOSE c \in C : \A d \in C :
                           Cardinality(Authors(At(c))) >= Cardinality(Authors(At(d)))).value.name
    IN  IF year = None \/ {c \in names : Covers(c, year)} = {} THEN Best(names)
        ELSE Best({c \in names : Covers(c, year)})
PlaceView(L, place, year) ==
    [id     |-> place,
     name   |-> PlaceName(L, place, year),
     point  |-> MostCorroborated({c \in Having(L, "place_point", "point") : c.target = place}, "point"),
     partOf |-> MostCorroborated({c \in Having(L, "part_of", "parentPlaceId") : c.target = place},
                                 "parentPlaceId")]

EventView(L, R, id) ==
    LET Top(predicate, field) ==
            MostCorroborated({c \in Having(L, predicate, field) : c.target = id}, field)
        date == Top("date", "edtf")
        year == IF date = None THEN None ELSE IF date[1] # None THEN date[1] ELSE date[2]
        place == Top("event_place", "placeId")
    IN  [id |-> id, type |-> Top("event_type", "type"), date |-> date,
         place |-> IF place = None THEN None ELSE PlaceView(L, place, year),
         participants |->
            {p \in {[person |-> Canon(R, c.value.personId), role |-> c.value.role] :
                       c \in {d \in Having(L, "participant", "personId") :
                                 d.target = id /\ "role" \in DOMAIN d.value}} : p.person # None}]
Events(L, R) == {EventView(L, R, id) : id \in Anchors(L, "event")}

\* The children of one set of parents, and the couples without any.
ParentsOf(edges, child) == {e.parent : e \in {x \in edges : x.child = child}}
MarriageOf(events, parents) ==
    LET of == {e.id : e \in {x \in events : /\ x.type \in {"marriage", "divorce"}
                                            /\ {p.person : p \in x.participants} = parents}}
    IN  IF of = {} THEN None ELSE Least(of)
Unions(edges, pairs, events) ==
    {[parents  |-> s,
      children |-> {c \in {e.child : e \in edges} : ParentsOf(edges, c) = s},
      marriage |-> MarriageOf(events, s)] :
        s \in {ParentsOf(edges, e.child) : e \in edges} \cup {p.pair : p \in pairs}}

ViewOf(L, R) ==
    LET events == Events(L, R) IN
    [people       |-> People(L, R),
     unions       |-> Unions(ParentChild(L, R), Partnerships(L, R), events),
     events       |-> events,
     conflicts    |-> R.skipped,
     unclassified |-> {c \in Unknown(L) : SubjectOf(R, c) = None}]
Project(L) == ViewOf(L, Resolve(L))

-----------------------------------------------------------------------------
(* What the clustering owes, said without the union-find.                      *)

\* The ids that a set of edges connects to x: those in every set that has x and
\* no edge leaves.
Connected(edges, x) ==
    LET ids == {x} \cup UNION {e.pair : e \in edges}
        Closed(S) == \A e \in edges : e.pair \cap S # {} => e.pair \subseteq S
    IN  {y \in ids : \A S \in SUBSET ids : x \in S /\ Closed(S) => y \in S}
JoinsACut(edges, cuts) == \E c \in cuts : \E x \in c : c \subseteq Connected(edges, x)

\* Clusters are exactly what the admitted same_as edges connect; no cluster holds
\* both ends of a cut that stands; and an edge is refused only when, with the
\* stronger edges that were admitted, it would put both ends of a cut together
\* (cluster and its union-find, PROJ-2).
ClusteringIsGreedy(R, edges, cuts) ==
    LET admitted == {e \in edges : \A x, y \in e.pair : R.rep[x] = R.rep[y]} IN
    /\ \A x \in DOMAIN R.rep : Members(R, x) = Connected(admitted, x)
    /\ ~JoinsACut(admitted, cuts)
    /\ \A e \in edges \ admitted :
          JoinsACut({f \in admitted : Earlier(f, e)} \cup {e}, cuts)

\* A name is shown on the one person whose cluster holds the place it was made,
\* or was moved to, and on nobody if that cluster has no anchor (names_map and
\* its kin, PROJ-4 and PROJ-11).
FactsFollowTheirPerson(V, R, L) ==
    \A c \in Having(L, "name", "parts") :
       LET shown == {p \in V.people : \E x \in p.names : x.claim = c}
           home  == {x \in Anchors(L, "person") : R.rep[x] = R.rep[EffTarget(R, c)]}
       IN  IF home = {} THEN shown = {}
           ELSE \E p \in shown : /\ shown = {p} /\ p.id \in home
                                 /\ p.also = home \ {p.id}

\* Both, of the view of a set of records.
IsSound(L) ==
    LET R == Resolve(L)
    IN  /\ ClusteringIsGreedy(R, Edges(L), Cuts(L))
        /\ FactsFollowTheirPerson(ViewOf(L, R), R, L)
=============================================================================
