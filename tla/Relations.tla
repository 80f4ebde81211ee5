------------------------------ MODULE Relations -------------------------------
(***************************************************************************)
(* The dependency edges the scanner works with: ladders of markets tagged  *)
(* with a bound, and pairs of markets whose nodes a declared nesting graph *)
(* connects (src/polyarb/resolution/relations.py), generated when Scanner  *)
(* is constructed (engine/scanner.py).  The closure's depth-first search   *)
(* is modelled turn by turn; Python's sets give its stack any order.       *)
(***************************************************************************)
EXTENDS Integers, Sequences, SequencesExt, Arrangements

CONSTANTS
    Nodes,     \* node ids of the nesting graph
    Inputs,    \* the edges and the tags the generators are given
    Malformed  \* a bound that is not a date or a number

Cumulative == {"by_date", "threshold_gte", "threshold_lte"}

\* A tag: id (condition_id), key (underlying_key), comparator, bound, kind, print
\* (resolution_fingerprint).  Node ids come from finite lists of edges; a bound of a
\* ladder is a date or a number, or raises when it is parsed.
ASSUME RelationsAssumption ==
    /\ IsFiniteSet(Nodes)
    /\ \A i \in Inputs :
         /\ i.edges \subseteq Nodes \X Nodes
         /\ i.tags \in Seq(ToSet(i.tags))
         /\ \A t \in ToSet(i.tags) : t.comparator \in Cumulative => t.bound \in Int \cup {Malformed}

VARIABLES
    edges,      \* the declared nesting: <<specific, general>>
    tags,       \* the registry of market tags
    todo,       \* nodes whose search is still to start
    start,      \* the node being searched from
    stack, reachable,
    closure,    \* the pairs found
    relations,  \* <<antecedent, consequent>>: the scanner's relations
    pc          \* "ladders", "next", "search", "done" or "failed"

search == <<todo, start, stack, reachable, closure>>
vars == <<edges, tags, search, relations, pc>>

\* The positions of a tag's cohort, and its members in the order of their bounds.
Cohort(t) ==
    {k \in DOMAIN tags :
        /\ tags[k].kind = "cumulative_touch"
        /\ <<tags[k].key, tags[k].comparator, tags[k].print>> = <<t.key, t.comparator, t.print>>}
Ordered(t) == Arranged(tags, Cohort(t), [k \in Cohort(t) |-> tags[k].bound])

\* Variant (seeded fault): a relation names the underlying instead of a market.
RungOfKeys(lower, higher) == <<lower.id, higher.key>>

\* The stronger of two adjacent rungs implies the weaker.
Rung(lower, higher) ==
    IF lower.comparator = "threshold_gte" THEN <<higher.id, lower.id>> ELSE <<lower.id, higher.id>>

\* generate_ladder_relations: the adjacent rungs of each cohort without a malformed bound.
LadderRelations ==
    UNION {LET ordered == Ordered(t)
           IN  {Rung(ordered[i], ordered[i + 1]) :
                  i \in {k \in 1..Len(ordered) - 1 : ordered[k].bound # ordered[k + 1].bound}} :
           t \in {u \in ToSet(tags) : /\ u.comparator \in Cumulative /\ u.kind = "cumulative_touch"
                                      /\ \A k \in Cohort(u) : tags[k].bound # Malformed}}

\* The orders Python may enumerate a set in.
Listings(S) == {s \in [1..Cardinality(S) -> S] : ToSet(s) = S}

Successors(n) == {m \in Nodes : <<n, m>> \in edges}

Init ==
    /\ \E i \in Inputs : edges = i.edges /\ tags = i.tags
    /\ todo = {} /\ start = {} /\ stack = <<>> /\ reachable = {} /\ closure = {}
    /\ relations = {} /\ pc = "ladders"

Ladders ==
    /\ pc = "ladders"
    /\ relations' = LadderRelations
    /\ todo' = {e[1] : e \in edges} \cup {e[2] : e \in edges}
    /\ pc' = "next"
    /\ UNCHANGED <<edges, tags, start, stack, reachable, closure>>

\* transitive_closure: the search from one node, and its turns.
StartSearch ==
    /\ pc = "next"
    /\ start' \in todo
    /\ todo' = todo \ {start'}
    /\ reachable' = {}
    /\ stack' \in Listings(Successors(start'))
    /\ pc' = "search"
    /\ UNCHANGED <<edges, tags, closure, relations>>

\* Variant (seeded fault): only the direct successors are found.
PushedNothing(node) == {}

\* The successors of a popped node that are pushed.
Pushed(node) == IF node \in reachable THEN {} ELSE Successors(node) \ (reachable \cup {node})

Pop ==
    /\ pc = "search" /\ stack # <<>>
    /\ reachable' = reachable \cup {Last(stack)}
    /\ \E s \in Listings(Pushed(Last(stack))) : stack' = Front(stack) \o s
    /\ UNCHANGED <<edges, tags, todo, start, closure, relations, pc>>

EndSearch ==
    /\ pc = "search" /\ stack = <<>>
    /\ closure' = closure \cup {<<start, n>> : n \in reachable \ {start}}
    /\ pc' = "next"
    /\ UNCHANGED <<edges, tags, todo, start, stack, reachable, relations>>

Nesting == {t \in ToSet(tags) : t.comparator = "nesting"}

\* Variant (seeded fault): markets settled by different sources are related.
GateOpen(t, u) == t.key = u.key

\* Two markets may be related: same underlying, same resolution fingerprint.
Gate(t, u) == t.key = u.key /\ t.print = u.print

\* generate_dag_relations raises when a node has two markets of one underlying.
GenerateDag ==
    /\ pc = "next" /\ todo = {}
    /\ IF \E i, j \in DOMAIN tags :
            /\ i # j /\ {tags[i], tags[j]} \subseteq Nesting
            /\ tags[i].key = tags[j].key /\ tags[i].bound = tags[j].bound
       THEN pc' = "failed" /\ UNCHANGED relations
       ELSE /\ relations' = relations \cup
                 {<<p[1].id, p[2].id>> : p \in
                    {q \in Nesting \X Nesting : <<q[1].bound, q[2].bound>> \in closure /\ Gate(q[1], q[2])}}
            /\ pc' = "done"
    /\ UNCHANGED <<edges, tags, search>>

Next == Ladders \/ StartSearch \/ Pop \/ EndSearch \/ GenerateDag

Spec == Init /\ [][Next]_vars

-----------------------------------------------------------------------------
TypeOK ==
    /\ pc \in {"ladders", "next", "search", "done", "failed"}
    /\ edges \subseteq Nodes \X Nodes /\ closure \subseteq Nodes \X Nodes
    /\ todo \subseteq Nodes /\ reachable \subseteq Nodes /\ ToSet(stack) \subseteq Nodes
    /\ \A r \in relations : \A i \in {1, 2} : \E t \in ToSet(tags) : t.id = r[i]

\* What is nested in an order on the nodes that has the declared edges.
IsOrderOf(R) ==
    /\ edges \subseteq R
    /\ \A a, b, c \in Nodes : <<a, b>> \in R /\ <<b, c>> \in R => <<a, c>> \in R

(* The search finds what the declared edges imply and nothing else, on any *)
(* graph, one with cycles and self-loops included: the pairs lie in every  *)
(* transitive relation that has the edges, and an edge never leads out of  *)
(* the nodes found from a start (self-pairs are left out).                 *)
ClosureIsExact ==
    /\ \A R \in SUBSET (Nodes \X Nodes) : IsOrderOf(R) => closure \subseteq R
    /\ pc = "done" =>
         \A a, b, c \in Nodes :
            /\ <<a, b>> \in closure \/ a = b
            /\ <<b, c>> \in edges
            => <<a, c>> \in closure \/ a = c

\* A market in a world: what an underlying does, as one resolution source sees it.  A
\* cumulative market compares a value with its bound, a point-in-time one hits it, and
\* a node holds with all the nodes it is nested in.
Worlds == {w \in [value : 0..3, holds : SUBSET Nodes] :
             \A e \in edges : e[1] \in w.holds => e[2] \in w.holds}

Resolves(t, w) ==
    IF t.comparator = "nesting" THEN t.bound \in w.holds
    ELSE IF t.kind = "point_in_time" THEN w.value = t.bound
    ELSE IF t.comparator = "threshold_gte" THEN w.value >= t.bound
    ELSE w.value <= t.bound

(* Every generated relation is an implication: in each world the market of *)
(* the antecedent cannot resolve YES without that of the consequent, and   *)
(* the two are never judged by different sources or of different subjects. *)
RelationsHold ==
    \A t, u \in ToSet(tags) : <<t.id, u.id>> \in relations =>
        /\ t.key = u.key /\ t.print = u.print
        /\ \A w \in Worlds : Resolves(t, w) => Resolves(u, w)
=============================================================================
