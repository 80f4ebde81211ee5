--------------------------- MODULE RelationsProofs ---------------------------
(***************************************************************************)
(* The depth-first search of transitive_closure is exact on every finite   *)
(* graph, and every relation the generators make is an implication.        *)
(*                                                                         *)
(* While a node is searched from, the nodes reached and those on the stack *)
(* are implied by it, and the successors of what was reached are reached   *)
(* or on the stack; so an empty stack leaves a set that edges do not leave.*)
(* A pair found lies in every order that has the edges, the one of a world *)
(* included.  The rungs of a ladder are ordered by the arrangement of      *)
(* their cohort.                                                           *)
(***************************************************************************)
EXTENDS Relations, CollectionTheorems

EdgeNodes == {e[1] : e \in edges} \cup {e[2] : e \in edges}

Typed ==
    /\ pc \in {"ladders", "next", "search", "done", "failed"}
    /\ edges \subseteq Nodes \X Nodes
    /\ closure \subseteq Nodes \X Nodes
    /\ todo \subseteq EdgeNodes
    /\ reachable \subseteq Nodes
    /\ stack \in Seq(Nodes)
    /\ pc = "search" => start \in Nodes

\* What the current search has in hand.
Found == reachable \cup ToSet(stack)

Implied ==
    \A R \in SUBSET (Nodes \X Nodes) : IsOrderOf(R) =>
        /\ closure \subseteq R
        /\ pc = "search" => \A n \in Found : <<start, n>> \in R

Covering ==
    pc = "search" =>
        /\ Successors(start) \subseteq Found
        /\ \A n \in reachable : Successors(n) \subseteq Found

\* The nodes whose search is over; pairs are only recorded of them.
Searched(a) == a \in EdgeNodes /\ a \notin todo /\ ~(pc = "search" /\ a = start)

ClosedAt(a) ==
    \A b, c \in Nodes :
        /\ <<a, b>> \in closure \/ a = b
        /\ <<b, c>> \in edges
        => <<a, c>> \in closure \/ a = c

Recorded ==
    IF pc = "ladders" THEN closure = {}
    ELSE /\ \A p \in closure : Searched(p[1])
         /\ \A a \in Nodes : Searched(a) => ClosedAt(a)
         /\ pc \in {"done", "failed"} => todo = {}
         /\ pc = "search" => start \in EdgeNodes /\ start \notin todo

IInv == Typed /\ Implied /\ Covering /\ Recorded

-----------------------------------------------------------------------------
\* Pushing a listing of a set onto a stack adds the set, popping takes the last away.
LEMMA ListingTyped ==
    ASSUME NEW S \in SUBSET Nodes, NEW s \in Listings(S)
    PROVE  s \in Seq(Nodes) /\ ToSet(s) = S
<1>1. IsFiniteSet(S)
  BY RelationsAssumption, FS_Subset
<1>2. Cardinality(S) \in Nat
  BY <1>1, FS_CardinalityType
<1> QED
  BY <1>2 DEF Listings

LEMMA ConcatRange ==
    ASSUME NEW u \in Seq(Nodes), NEW v \in Seq(Nodes)
    PROVE  u \o v \in Seq(Nodes) /\ ToSet(u \o v) = ToSet(u) \cup ToSet(v)
<1> DEFINE m == Len(u)
           n == Len(v)
           w == u \o v
<1>1. w \in Seq(Nodes) /\ Len(w) = m + n /\ m \in Nat /\ n \in Nat
  OBVIOUS
<1>2. \A i \in 1..m : i \in 1..Len(w) /\ w[i] = u[i]
  OBVIOUS
<1>3. \A j \in 1..n : m + j \in 1..Len(w) /\ w[m + j] = v[j]
  OBVIOUS
<1>4. \A i \in 1..Len(w) : i \in 1..m \/ \E j \in 1..n : i = m + j
  <2> TAKE i \in 1..Len(w)
  <2>1. CASE i <= m
    BY <2>1, <1>1
  <2>2. CASE i > m
    <3>1. i - m \in 1..n /\ i = m + (i - m)
      BY <2>2, <1>1
    <3> QED
      BY <3>1
  <2> QED
    BY <2>1, <2>2, <1>1
<1>5. /\ ToSet(u) = {u[i] : i \in 1..m} /\ ToSet(v) = {v[i] : i \in 1..n}
      /\ ToSet(w) = {w[i] : i \in 1..Len(w)}
  BY <1>1 DEF ToSet
<1> HIDE DEF m, n, w
<1>6. ToSet(w) = ToSet(u) \cup ToSet(v)
  <2>1. ToSet(w) \subseteq ToSet(u) \cup ToSet(v)
    BY <1>2, <1>3, <1>4, <1>5
  <2>2. ToSet(u) \subseteq ToSet(w)
    BY <1>2, <1>5
  <2>3. ToSet(v) \subseteq ToSet(w)
    BY <1>3, <1>5
  <2> QED
    BY <2>1, <2>2, <2>3
<1> QED
  BY <1>1, <1>6 DEF w

LEMMA PopPush ==
    ASSUME NEW st \in Seq(Nodes), st # <<>>, NEW s \in Seq(Nodes)
    PROVE  /\ Last(st) \in Nodes
           /\ Front(st) \o s \in Seq(Nodes)
           /\ ToSet(Front(st) \o s) \cup {Last(st)} = ToSet(st) \cup ToSet(s)
<1>1. Len(st) \in Nat \ {0} /\ st \in [1..Len(st) -> Nodes]
  OBVIOUS
<1>2. Last(st) = st[Len(st)] /\ Last(st) \in Nodes
  BY <1>1 DEF Last
<1>3. /\ Front(st) \in Seq(Nodes) /\ Len(Front(st)) = Len(st) - 1
      /\ \A i \in 1..Len(st) - 1 : Front(st)[i] = st[i]
  BY <1>1 DEF Front
<1>4. ToSet(st) = ToSet(Front(st)) \cup {Last(st)}
  <2> DEFINE n == Len(st)
             f == Front(st)
             x == Last(st)
  <2>1. ToSet(st) = {st[i] : i \in 1..n}
    BY DEF ToSet
  <2>2. ToSet(f) = {f[i] : i \in 1..n - 1}
    BY <1>3 DEF ToSet
  <2>3. /\ \A i \in 1..n : i \in 1..n - 1 \/ i = n
        /\ \A i \in 1..n - 1 : i \in 1..n
        /\ n \in 1..n
    <3>1. n \in Nat /\ n # 0
      BY <1>1
    <3> HIDE DEF n
    <3> QED
      BY <3>1
  <2>4. x = st[n] /\ \A i \in 1..n - 1 : f[i] = st[i]
    BY <1>2, <1>3
  <2> HIDE DEF n, f, x
  <2>5. ToSet(st) = ToSet(f) \cup {x}
    <3>1. \A i \in 1..n : st[i] \in ToSet(f) \cup {x}
      BY <2>2, <2>3, <2>4
    <3>2. \A i \in 1..n - 1 : f[i] \in ToSet(st)
      BY <2>1, <2>3, <2>4
    <3>3. x \in ToSet(st)
      BY <2>1, <2>3, <2>4
    <3> QED
      BY <2>1, <2>2, <3>1, <3>2, <3>3
  <2> QED
    BY <2>5 DEF f, x
<1>5. /\ Front(st) \o s \in Seq(Nodes)
      /\ ToSet(Front(st) \o s) = ToSet(Front(st)) \cup ToSet(s)
  BY <1>3, ConcatRange
<1> QED
  BY <1>2, <1>4, <1>5

-----------------------------------------------------------------------------
LEMMA EdgeNodesTyped == Typed => EdgeNodes \subseteq Nodes
  BY DEF Typed, EdgeNodes

\* A step that leaves the searched nodes and their pairs leaves what is recorded.
LEMMA RecordedFrame ==
    ASSUME Recorded, pc # "ladders", pc' # "ladders", edges' = edges, closure' = closure,
           \A a \in Nodes : Searched(a)' <=> Searched(a), closure \subseteq Nodes \X Nodes,
           pc' \in {"done", "failed"} => todo' = {},
           pc' = "search" => start' \in EdgeNodes /\ start' \notin todo'
    PROVE  Recorded'
<1>1. EdgeNodes' = EdgeNodes
  BY DEF EdgeNodes
<1>2. \A a \in Nodes : ClosedAt(a)' <=> ClosedAt(a)
  BY DEF ClosedAt
<1>3. \A q \in closure' : Searched(q[1])'
  BY DEF Recorded
<1>4. \A a \in Nodes : Searched(a)' => ClosedAt(a)'
  BY <1>2 DEF Recorded
<1> QED
  BY <1>1, <1>3, <1>4 DEF Recorded

LEMMA InitInv == Init => IInv
<1> SUFFICES ASSUME Init PROVE IInv
  OBVIOUS
<1>1. edges \subseteq Nodes \X Nodes
  BY RelationsAssumption DEF Init
<1> QED
  BY <1>1 DEF Init, IInv, Typed, Implied, Covering, Recorded

LEMMA LaddersStep == IInv /\ Ladders => IInv'
<1> SUFFICES ASSUME IInv, Ladders PROVE IInv'
  OBVIOUS
<1>1. Typed'
  <2>1. edges' = edges /\ todo' = EdgeNodes
    BY DEF Ladders, EdgeNodes
  <2>2. EdgeNodes' = EdgeNodes
    BY <2>1 DEF EdgeNodes
  <2> QED
    BY <2>1, <2>2 DEF IInv, Typed, Ladders
<1>2. Implied' /\ Covering'
  BY DEF IInv, Implied, Covering, Ladders, IsOrderOf
<1>3. Recorded'
  BY DEF IInv, Recorded, Searched, EdgeNodes, Ladders
<1> QED
  BY <1>1, <1>2, <1>3 DEF IInv

LEMMA StartStep == IInv /\ StartSearch => IInv'
<1> SUFFICES ASSUME IInv, StartSearch PROVE IInv'
  OBVIOUS
<1>1. EdgeNodes \subseteq Nodes
  BY EdgeNodesTyped DEF IInv
<1>2. /\ start' \in todo /\ todo' = todo \ {start'} /\ reachable' = {}
      /\ stack' \in Listings(Successors(start')) /\ pc = "next" /\ pc' = "search"
      /\ edges' = edges /\ closure' = closure
  BY DEF StartSearch
<1>3. Successors(start') \in SUBSET Nodes
  BY DEF Successors
<1>4. stack' \in Seq(Nodes) /\ ToSet(stack') = Successors(start')
  BY <1>2, <1>3, ListingTyped
<1>5. EdgeNodes' = EdgeNodes
  BY <1>2 DEF EdgeNodes
<1>6. start' \in EdgeNodes /\ start' \in Nodes /\ todo' \subseteq EdgeNodes
  BY <1>1, <1>2 DEF IInv, Typed
<1>7. Typed'
  BY <1>2, <1>4, <1>5, <1>6 DEF IInv, Typed
<1>8. Found' = Successors(start')
  BY <1>2, <1>4 DEF Found
<1>9. Implied'
  <2>1. \A n \in Successors(start') : <<start', n>> \in edges
    BY DEF Successors
  <2> QED
    BY <1>2, <1>8, <2>1 DEF IInv, Implied, IsOrderOf
<1>10. Covering'
  BY <1>2, <1>8 DEF Covering, Successors
<1>11. Recorded'
  <2>1. \A a \in Nodes : Searched(a)' <=> Searched(a)
    BY <1>2, <1>5 DEF Searched
  <2> QED
    BY <1>2, <1>6, <2>1, RecordedFrame DEF IInv, Typed
<1> QED
  BY <1>7, <1>9, <1>10, <1>11 DEF IInv

LEMMA PopStep == IInv /\ Pop => IInv'
<1> SUFFICES ASSUME IInv, Pop PROVE IInv'
  OBVIOUS
<1> DEFINE node == Last(stack)
<1>1. PICK s \in Listings(Pushed(node)) : stack' = Front(stack) \o s
  BY DEF Pop
<1>2. /\ pc = "search" /\ pc' = "search" /\ stack # <<>> /\ stack \in Seq(Nodes)
      /\ reachable' = reachable \cup {node}
      /\ edges' = edges /\ closure' = closure /\ todo' = todo /\ start' = start
  BY DEF Pop, IInv, Typed
<1>3. Pushed(node) \in SUBSET Nodes
  BY DEF Pushed, Successors
<1>4. s \in Seq(Nodes) /\ ToSet(s) = Pushed(node)
  BY <1>3, ListingTyped
<1>5. /\ node \in Nodes /\ stack' \in Seq(Nodes)
      /\ ToSet(stack') \cup {node} = ToSet(stack) \cup Pushed(node)
  BY <1>1, <1>2, <1>4, PopPush
<1>6. EdgeNodes' = EdgeNodes
  BY <1>2 DEF EdgeNodes
<1> HIDE DEF node
<1>7. Typed'
  BY <1>2, <1>5, <1>6 DEF IInv, Typed
<1>8. Found' = Found \cup Pushed(node)
  BY <1>2, <1>5 DEF Found
<1>9. node \in Found
  <2>1. ToSet(stack) \cup Pushed(node) = ToSet(stack') \cup {node}
    BY <1>5
  <2>2. node \in ToSet(stack)
    BY <1>2 DEF node, Last, ToSet
  <2> QED
    BY <2>2 DEF Found
<1>10. Implied'
  <2>1. \A m \in Pushed(node) : <<node, m>> \in edges
    BY DEF Pushed, Successors
  <2> SUFFICES ASSUME NEW R \in SUBSET (Nodes \X Nodes), IsOrderOf(R)
               PROVE  closure \subseteq R /\ \A n \in Found' : <<start, n>> \in R
    BY <1>2 DEF Implied, IsOrderOf
  <2>2. closure \subseteq R /\ \A n \in Found : <<start, n>> \in R
    BY <1>2 DEF IInv, Implied
  <2>3. \A m \in Pushed(node) : <<start, m>> \in R
    <3> TAKE m \in Pushed(node)
    <3>1. <<start, node>> \in R /\ <<node, m>> \in R
      BY <1>9, <2>1, <2>2 DEF IsOrderOf
    <3>2. start \in Nodes /\ m \in Nodes
      BY <1>2, <1>3 DEF IInv, Typed
    <3> QED
      BY <1>5, <3>1, <3>2 DEF IsOrderOf
  <2> QED
    BY <1>8, <2>2, <2>3
<1>11. Covering'
  <2>1. \A n : Successors(n)' = Successors(n)
    BY <1>2 DEF Successors
  <2>2. Successors(start) \subseteq Found /\ \A n \in reachable : Successors(n) \subseteq Found
    BY <1>2 DEF IInv, Covering
  <2>3. Successors(node) \subseteq Found \cup Pushed(node)
    <3>1. CASE node \in reachable
      BY <2>2, <3>1
    <3>2. CASE node \notin reachable
      BY <1>9, <3>2 DEF Pushed, Found
    <3> QED
      BY <3>1, <3>2
  <2>4. \A n \in reachable' : Successors(n)' \subseteq Found'
    BY <1>2, <1>8, <2>1, <2>2, <2>3
  <2>5. Successors(start)' \subseteq Found'
    BY <1>2, <1>8, <2>1, <2>2 DEF Successors
  <2> QED
    BY <2>4, <2>5 DEF Covering
<1>12. Recorded'
  <2>1. \A a \in Nodes : Searched(a)' <=> Searched(a)
    BY <1>2, <1>6 DEF Searched
  <2>2. start' \in EdgeNodes /\ start' \notin todo'
    BY <1>2 DEF IInv, Recorded
  <2> QED
    BY <1>2, <2>1, <2>2, RecordedFrame DEF IInv, Typed
<1> QED
  BY <1>7, <1>10, <1>11, <1>12 DEF IInv

LEMMA EndSearchStep == IInv /\ EndSearch => IInv'
<1> SUFFICES ASSUME IInv, EndSearch PROVE IInv'
  OBVIOUS
<1>1. /\ pc = "search" /\ pc' = "next" /\ stack = <<>>
      /\ closure' = closure \cup {<<start, n>> : n \in reachable \ {start}}
      /\ edges' = edges /\ todo' = todo /\ start' = start /\ stack' = stack
      /\ reachable' = reachable
  BY DEF EndSearch
<1>2. /\ start \in Nodes /\ start \in EdgeNodes /\ start \notin todo /\ reachable \subseteq Nodes
      /\ closure \subseteq Nodes \X Nodes /\ edges \subseteq Nodes \X Nodes
  BY <1>1 DEF IInv, Typed, Recorded
<1>3. EdgeNodes' = EdgeNodes
  BY <1>1 DEF EdgeNodes
<1>4. Found = reachable
  BY <1>1 DEF Found, ToSet
<1>5. Typed'
  BY <1>1, <1>2, <1>3 DEF IInv, Typed
<1>6. Implied' /\ Covering'
  <2>1. \A R : IsOrderOf(R)' <=> IsOrderOf(R)
    BY <1>1 DEF IsOrderOf
  <2> QED
    BY <1>1, <1>4, <2>1 DEF IInv, Implied, Covering
<1>7. \A a \in Nodes : Searched(a)' <=> (Searched(a) \/ a = start)
  BY <1>1, <1>2, <1>3 DEF Searched
<1>8. \A a, b \in Nodes : <<a, b>> \in closure' <=>
         <<a, b>> \in closure \/ (a = start /\ b \in reachable \ {start})
  BY <1>1
<1>9. \A q \in closure : Searched(q[1]) /\ q[1] \in Nodes /\ q[1] # start
  BY <1>1, <1>2 DEF IInv, Recorded, Searched
<1>10. ClosedAt(start)'
  <2> SUFFICES ASSUME NEW b \in Nodes, NEW c \in Nodes, <<start, b>> \in closure' \/ start = b,
                      <<b, c>> \in edges
               PROVE  <<start, c>> \in closure' \/ start = c
    BY <1>1 DEF ClosedAt
  <2>1. <<start, b>> \notin closure
    BY <1>9
  <2>2. b \in reachable \/ b = start
    BY <1>2, <1>8, <2>1
  <2>3. c \in Successors(b)
    BY DEF Successors
  <2>4. c \in reachable
    BY <1>1, <1>4, <2>2, <2>3 DEF IInv, Covering
  <2> QED
    BY <1>2, <1>8, <2>4
<1>11. ASSUME NEW a \in Nodes, a # start, ClosedAt(a) PROVE ClosedAt(a)'
  <2>1. \A b \in Nodes : <<a, b>> \in closure' <=> <<a, b>> \in closure
    BY <1>8, <1>11
  <2> QED
    BY <1>1, <1>11, <2>1 DEF ClosedAt
<1>12. Recorded'
  <2>1. \A q \in closure' : Searched(q[1])'
    BY <1>1, <1>2, <1>7, <1>9
  <2>2. \A a \in Nodes : Searched(a)' => ClosedAt(a)'
    BY <1>1, <1>7, <1>10, <1>11 DEF IInv, Recorded
  <2> QED
    BY <1>1, <2>1, <2>2 DEF Recorded
<1> QED
  BY <1>5, <1>6, <1>12 DEF IInv

LEMMA GenerateDagStep == IInv /\ GenerateDag => IInv'
<1> SUFFICES ASSUME IInv, GenerateDag PROVE IInv'
  OBVIOUS
<1>1. /\ pc = "next" /\ pc' \in {"done", "failed"} /\ todo = {}
      /\ edges' = edges /\ todo' = todo /\ start' = start /\ stack' = stack
      /\ reachable' = reachable /\ closure' = closure
  BY DEF GenerateDag, search
<1>2. EdgeNodes' = EdgeNodes
  BY <1>1 DEF EdgeNodes
<1>3. Typed'
  BY <1>1, <1>2 DEF IInv, Typed
<1>4. Implied' /\ Covering'
  BY <1>1 DEF IInv, Implied, Covering, IsOrderOf
<1>5. Recorded'
  <2>1. \A a \in Nodes : Searched(a)' <=> Searched(a)
    BY <1>1, <1>2 DEF Searched
  <2> QED
    BY <1>1, <2>1, RecordedFrame DEF IInv, Typed
<1> QED
  BY <1>3, <1>4, <1>5 DEF IInv

LEMMA StutterStep == IInv /\ UNCHANGED vars => IInv'
<1> SUFFICES ASSUME IInv, UNCHANGED vars PROVE IInv'
  OBVIOUS
<1>1. UNCHANGED <<edges, todo, start, stack, reachable, closure, pc>>
  BY DEF vars, search
<1>2. Typed'
  BY <1>1 DEF IInv, Typed, EdgeNodes
<1>3. Implied' /\ Covering'
  BY <1>1 DEF IInv, Implied, Covering, IsOrderOf, Found, Successors
<1>4. Recorded'
  BY <1>1 DEF IInv, Recorded, Searched, ClosedAt, EdgeNodes
<1> QED
  BY <1>2, <1>3, <1>4 DEF IInv

(* The inductive invariant of the construction: a search knows only what   *)
(* its start implies, and forgets no successor of what it reached.         *)
THEOREM Inductive == Spec => []IInv
<1>1. IInv /\ [Next]_vars => IInv'
  BY LaddersStep, StartStep, PopStep, EndSearchStep, GenerateDagStep, StutterStep DEF Next
<1> QED
  BY <1>1, InitInv, PTL DEF Spec

(* transitive_closure finds what the edges imply and nothing else, on every *)
(* finite graph and in whatever order Python's sets are enumerated.        *)
THEOREM ClosureExact == Spec => []ClosureIsExact
<1>1. IInv => ClosureIsExact
  <2> SUFFICES ASSUME IInv PROVE ClosureIsExact
    OBVIOUS
  <2>1. \A R \in SUBSET (Nodes \X Nodes) : IsOrderOf(R) => closure \subseteq R
    BY DEF IInv, Implied
  <2>2. ASSUME pc = "done", NEW a \in Nodes, NEW b \in Nodes, NEW c \in Nodes,
               <<a, b>> \in closure \/ a = b, <<b, c>> \in edges
        PROVE  <<a, c>> \in closure \/ a = c
    <3>1. a \in EdgeNodes
      <4>1. CASE a = b
        BY <2>2, <4>1 DEF EdgeNodes
      <4>2. CASE <<a, b>> \in closure
        BY <2>2, <4>2 DEF IInv, Recorded, Searched
      <4> QED
        BY <2>2, <4>1, <4>2
    <3>2. ClosedAt(a)
      BY <2>2, <3>1 DEF IInv, Recorded, Searched
    <3> QED
      BY <2>2, <3>2 DEF ClosedAt
  <2> QED
    BY <2>1, <2>2 DEF ClosureIsExact
<1> QED
  BY <1>1, Inductive, PTL

\* A world in which every declared nesting holds respects the pairs that were found.
LEMMA ClosureInWorlds ==
    ASSUME IInv, NEW holds \in SUBSET Nodes, \A e \in edges : e[1] \in holds => e[2] \in holds
    PROVE  \A q \in closure : q[1] \in holds => q[2] \in holds
<1> DEFINE R == {q \in Nodes \X Nodes : q[1] \in holds => q[2] \in holds}
<1>1. IsOrderOf(R)
  <2>1. edges \subseteq R
    BY DEF IInv, Typed
  <2>2. \A a, b, c \in Nodes : <<a, b>> \in R /\ <<b, c>> \in R => <<a, c>> \in R
    OBVIOUS
  <2> HIDE DEF R
  <2> QED
    BY <2>1, <2>2 DEF IsOrderOf
<1>2. closure \subseteq R
  <2>1. R \in SUBSET (Nodes \X Nodes)
    OBVIOUS
  <2> HIDE DEF R
  <2> QED
    BY <1>1, <2>1 DEF IInv, Implied
<1> QED
  BY <1>2

(* What the pairs are used for: a world in which every declared nesting    *)
(* holds is a world in which every pair of the closure holds, so no pair   *)
(* relates nodes that the declared edges leave free.                       *)
THEOREM ClosureRespectsWorlds ==
    Spec => [](\A holds \in SUBSET Nodes :
                  (\A e \in edges : e[1] \in holds => e[2] \in holds)
                  => \A q \in closure : q[1] \in holds => q[2] \in holds)
<1>1. IInv => \A holds \in SUBSET Nodes :
                  (\A e \in edges : e[1] \in holds => e[2] \in holds)
                  => \A q \in closure : q[1] \in holds => q[2] \in holds
  BY ClosureInWorlds
<1> QED
  BY <1>1, Inductive, PTL
-----------------------------------------------------------------------------
(* What is generated: every relation comes from two tags of which one      *)
(* implies the other.                                                      *)

\* In each world the antecedent cannot hold without the consequent.
Implies(t, u) ==
    /\ t.key = u.key /\ t.print = u.print
    /\ \A w \in Worlds : Resolves(t, w) => Resolves(u, w)

Justified(r) == \E t, u \in ToSet(tags) : r = <<t.id, u.id>> /\ Implies(t, u)

TagsTyped ==
    /\ tags \in Seq(ToSet(tags))
    /\ \A t \in ToSet(tags) : t.comparator \in Cumulative => t.bound \in Int \cup {Malformed}

RInv ==
    /\ IInv /\ TagsTyped
    /\ \A r \in relations : Justified(r)

\* A relation that was justified stays so: the tags and the edges do not change.
LEMMA JustifiedFrame ==
    ASSUME UNCHANGED <<edges, tags>>, NEW r, Justified(r)
    PROVE  Justified(r)'
<1>1. Worlds' = Worlds
  BY DEF Worlds
<1>2. \A t, u : Implies(t, u)' <=> Implies(t, u)
  BY <1>1 DEF Implies, Resolves
<1> QED
  BY <1>2 DEF Justified

\* Adjacent members of a cohort are tags of one subject, source and comparator, in
\* the order of their bounds.
LEMMA OrderedRungs ==
    ASSUME TagsTyped, NEW t \in ToSet(tags), t.comparator \in Cumulative,
           \A k \in Cohort(t) : tags[k].bound # Malformed,
           NEW i \in 1 .. Len(Ordered(t)) - 1
    PROVE  LET lower == Ordered(t)[i] higher == Ordered(t)[i + 1]
           IN  /\ lower \in ToSet(tags) /\ higher \in ToSet(tags)
               /\ lower.kind = "cumulative_touch" /\ higher.kind = "cumulative_touch"
               /\ lower.key = t.key /\ lower.comparator = t.comparator /\ lower.print = t.print
               /\ higher.key = t.key /\ higher.comparator = t.comparator /\ higher.print = t.print
               /\ lower.bound \in Int /\ higher.bound \in Int /\ lower.bound <= higher.bound
<1> DEFINE keep == Cohort(t)
           key == [k \in keep |-> tags[k].bound]
           N == 1 .. Cardinality(keep)
           j == i + 1
<1>1. DOMAIN tags = 1 .. Len(tags) /\ Len(tags) \in Nat
  BY DEF TagsTyped
<1>2. keep \in SUBSET DOMAIN tags /\ keep \subseteq Int
  BY <1>1 DEF Cohort
<1>3. IsFiniteSet(keep)
  <2>1. IsFiniteSet(DOMAIN tags)
    BY <1>1, FS_Interval
  <2> HIDE DEF keep
  <2> QED
    BY <1>2, <2>1, FS_Subset
<1>4. \A k \in keep : tags[k] \in ToSet(tags)
  BY <1>2 DEF ToSet
<1>5. \A k \in keep : /\ tags[k].kind = "cumulative_touch"
                      /\ tags[k].key = t.key /\ tags[k].comparator = t.comparator
                      /\ tags[k].print = t.print
  BY DEF Cohort
<1>6. \A k \in keep : key[k] \in Int /\ key[k] = tags[k].bound
  BY <1>4, <1>5 DEF TagsTyped
<1> HIDE DEF keep, key, N
<1>7. Ordered(t) = Arranged(tags, keep, key)
  BY DEF Ordered, keep, key
<1>8. Len(Ordered(t)) = Cardinality(keep)
  BY <1>2, <1>6, <1>7, ArrangedType DEF TagsTyped
<1>9. Cardinality(keep) \in Nat
  BY <1>3, FS_CardinalityType
<1>10. i \in N /\ j \in N /\ i < j
  BY <1>8, <1>9 DEF N
<1> HIDE DEF j
<1>11. /\ Placed(keep, key, i) \in keep /\ Ordered(t)[i] = tags[Placed(keep, key, i)]
       /\ Placed(keep, key, j) \in keep /\ Ordered(t)[j] = tags[Placed(keep, key, j)]
  <2>1. N = 1 .. Cardinality(keep) /\ \A k \in keep : key[k] \in Int
    BY <1>6 DEF N
  <2>2. \A n \in N : /\ Placed(keep, key, n) \in keep
                     /\ Arranged(tags, keep, key)[n] = tags[Placed(keep, key, n)]
    <3> SUFFICES ASSUME NEW n \in N
                 PROVE  /\ Placed(keep, key, n) \in keep
                        /\ Place(keep, key, Placed(keep, key, n)) = n
                        /\ Arranged(tags, keep, key)[n] = tags[Placed(keep, key, n)]
      OBVIOUS
    <3>1. Placed(keep, key, n) \in keep /\ Place(keep, key, Placed(keep, key, n)) = n
      BY <1>2, <1>3, <2>1, PlaceReached
    <3>2. Arranged(tags, keep, key)[n] = tags[Placed(keep, key, n)]
      BY <2>1 DEF Arranged, Placed
    <3> QED
      BY <3>1, <3>2
  <2> QED
    BY <1>7, <1>10, <2>2
<1>12. key[Placed(keep, key, i)] <= key[Placed(keep, key, j)]
  <2>1. \/ key[Placed(keep, key, i)] < key[Placed(keep, key, j)]
        \/ key[Placed(keep, key, i)] = key[Placed(keep, key, j)]
    BY <1>2, <1>3, <1>6, <1>10, ArrangedOrder DEF N
  <2> QED
    BY <2>1, <1>6, <1>11
<1> QED
  BY <1>4, <1>5, <1>6, <1>11, <1>12 DEF j

\* The stronger of two adjacent rungs implies the weaker.
LEMMA LaddersJustified ==
    ASSUME TagsTyped, NEW r \in LadderRelations
    PROVE  Justified(r)
<1>1. PICK t \in ToSet(tags) :
        /\ t.comparator \in Cumulative /\ \A k \in Cohort(t) : tags[k].bound # Malformed
        /\ \E i \in 1 .. Len(Ordered(t)) - 1 : r = Rung(Ordered(t)[i], Ordered(t)[i + 1])
  BY DEF LadderRelations
<1>2. PICK i \in 1 .. Len(Ordered(t)) - 1 : r = Rung(Ordered(t)[i], Ordered(t)[i + 1])
  BY <1>1
<1> DEFINE lower == Ordered(t)[i]
           higher == Ordered(t)[i + 1]
<1>3. /\ lower \in ToSet(tags) /\ higher \in ToSet(tags)
      /\ lower.kind = "cumulative_touch" /\ higher.kind = "cumulative_touch"
      /\ lower.key = t.key /\ lower.comparator = t.comparator /\ lower.print = t.print
      /\ higher.key = t.key /\ higher.comparator = t.comparator /\ higher.print = t.print
      /\ lower.bound \in Int /\ higher.bound \in Int /\ lower.bound <= higher.bound
  BY <1>1, OrderedRungs
<1>4. r = Rung(lower, higher)
  BY <1>2
<1> HIDE DEF lower, higher
<1>5. \A w \in Worlds : w.value \in Int
  BY DEF Worlds
<1>6. lower.comparator \in Cumulative /\ "nesting" \notin Cumulative
  BY <1>1, <1>3 DEF Cumulative
<1>7. CASE lower.comparator = "threshold_gte"
  <2>1. \A w \in Worlds : Resolves(higher, w) => Resolves(lower, w)
    BY <1>3, <1>5, <1>7 DEF Resolves
  <2>2. Implies(higher, lower) /\ r = <<higher.id, lower.id>>
    BY <1>3, <1>4, <1>7, <2>1 DEF Implies, Rung
  <2> QED
    BY <1>3, <2>2 DEF Justified
<1>8. CASE lower.comparator # "threshold_gte"
  <2>1. \A w \in Worlds : Resolves(lower, w) => Resolves(higher, w)
    BY <1>3, <1>5, <1>6, <1>8 DEF Resolves
  <2>2. Implies(lower, higher) /\ r = <<lower.id, higher.id>>
    BY <1>3, <1>4, <1>8, <2>1 DEF Implies, Rung
  <2> QED
    BY <1>3, <2>2 DEF Justified
<1> QED
  BY <1>7, <1>8

\* Two markets of the nodes of a pair that pass the gate.
LEMMA NestingJustified ==
    ASSUME IInv, NEW t \in Nesting, NEW u \in Nesting,
           <<t.bound, u.bound>> \in closure, Gate(t, u)
    PROVE  Justified(<<t.id, u.id>>)
<1>1. ASSUME NEW w \in Worlds, t.bound \in w.holds
      PROVE  u.bound \in w.holds
  <2>1. w.holds \in SUBSET Nodes /\ \A e \in edges : e[1] \in w.holds => e[2] \in w.holds
    BY DEF Worlds
  <2>2. \A q \in closure : q[1] \in w.holds => q[2] \in w.holds
    BY <2>1, ClosureInWorlds
  <2> QED
    BY <1>1, <2>2
<1>2. Implies(t, u)
  BY <1>1 DEF Implies, Resolves, Nesting, Gate
<1> QED
  BY <1>2 DEF Justified, Nesting

LEMMA RelationsStep == RInv /\ [Next]_vars => RInv'
<1> SUFFICES ASSUME RInv, [Next]_vars PROVE RInv'
  OBVIOUS
<1>1. IInv'
  BY LaddersStep, StartStep, PopStep, EndSearchStep, GenerateDagStep, StutterStep DEF Next, RInv
<1>2. UNCHANGED <<edges, tags>>
  BY DEF Next, Ladders, StartSearch, Pop, EndSearch, GenerateDag, vars
<1>3. TagsTyped'
  BY <1>2 DEF RInv, TagsTyped
<1>4. ASSUME NEW r \in relations' PROVE Justified(r)
  <2>1. CASE r \in relations
    BY <2>1 DEF RInv
  <2>2. CASE r \in LadderRelations
    BY <2>2, LaddersJustified DEF RInv
  <2>3. CASE r \in {<<p[1].id, p[2].id>> : p \in
                      {q \in Nesting \X Nesting : <<q[1].bound, q[2].bound>> \in closure /\ Gate(q[1], q[2])}}
    BY <2>3, NestingJustified DEF RInv
  <2> QED
    BY <1>4, <2>1, <2>2, <2>3 DEF Next, Ladders, StartSearch, Pop, EndSearch, GenerateDag, vars
<1>5. \A r \in relations' : Justified(r)'
  BY <1>2, <1>4, JustifiedFrame
<1> QED
  BY <1>1, <1>3, <1>5 DEF RInv

LEMMA RelationsInit == Init => RInv
BY InitInv, RelationsAssumption DEF Init, RInv, TagsTyped

(* Every relation comes from two tags that carry its ids, name one subject *)
(* and one source, and of which the first implies the second in each world *)
(* (generate_ladder_relations, generate_dag_relations), whatever the       *)
(* graph, the ladders, the ties and the malformed bounds; a market may     *)
(* carry several tags.                                                     *)
THEOREM RelationsJustified == Spec => [](\A r \in relations : Justified(r))
BY RelationsInit, RelationsStep, PTL DEF Spec, RInv

(* The relations name markets of the registry, and the search stays within *)
(* the declared nodes.                                                     *)
THEOREM TypeCorrect == Spec => []TypeOK
<1>1. RInv => TypeOK
  <2> SUFFICES ASSUME RInv PROVE TypeOK
    OBVIOUS
  <2>1. todo \subseteq Nodes
    BY EdgeNodesTyped DEF RInv, IInv, Typed
  <2>2. ToSet(stack) \subseteq Nodes
    BY DEF RInv, IInv, Typed, ToSet
  <2>3. ASSUME NEW r \in relations, NEW i \in {1, 2}
        PROVE  \E t \in ToSet(tags) : t.id = r[i]
    BY <2>3 DEF RInv, Justified
  <2> QED
    BY <2>1, <2>2, <2>3 DEF TypeOK, RInv, IInv, Typed
<1> QED
  BY <1>1, RelationsInit, RelationsStep, PTL DEF Spec

OneTagEach ==
    \A n \in Inputs : \A t, u \in ToSet(n.tags) : t.id = u.id => t = u

(* When the registry has one tag for a market, what the two markets of a   *)
(* relation are tagged with is the implication itself, in each world and   *)
(* between markets of one subject and one source.                          *)
THEOREM ImplicationsHold ==
    ASSUME OneTagEach
    PROVE  Spec => []RelationsHold
<1> DEFINE Single == \A t, u \in ToSet(tags) : t.id = u.id => t = u
<1>1. Init => Single
  BY DEF Init, OneTagEach
<1>2. Single /\ [Next]_vars => Single'
  BY DEF Next, Ladders, StartSearch, Pop, EndSearch, GenerateDag, vars
<1>3. Single /\ RInv => RelationsHold
  <2> SUFFICES ASSUME Single, RInv, NEW t \in ToSet(tags), NEW u \in ToSet(tags),
                      <<t.id, u.id>> \in relations
               PROVE  Implies(t, u)
    BY DEF RelationsHold, Implies
  <2>1. PICK a, b \in ToSet(tags) : <<t.id, u.id>> = <<a.id, b.id>> /\ Implies(a, b)
    BY DEF RInv, Justified
  <2>2. a = t /\ b = u
    BY <2>1
  <2> QED
    BY <2>1, <2>2
<1> QED
  BY <1>1, <1>2, <1>3, RelationsInit, RelationsStep, PTL DEF Spec
=============================================================================
