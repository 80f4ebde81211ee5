----------------------------- MODULE MCRelations ------------------------------
(* Every graph of three nodes, cycles and self-loops included, with markets *)
(* for the nodes of one or two underlyings and sources; and ladders of up   *)
(* to three rungs of each direction with equal bounds, a malformed bound,   *)
(* a point-in-time market and two resolution sources.                       *)
EXTENDS Relations

CONSTANTS n1, n2, n3

Tag(id, comparator, bound, kind, print) ==
    [id |-> id, key |-> "k", comparator |-> comparator, bound |-> bound, kind |-> kind,
     print |-> print]

NestingTags == {
    <<Tag("p", "nesting", n1, "cumulative_touch", "f"), Tag("q", "nesting", n2, "cumulative_touch", "f"),
      Tag("r", "nesting", n3, "cumulative_touch", "g")>>,
    <<Tag("p", "nesting", n1, "cumulative_touch", "f"), Tag("q", "nesting", n1, "cumulative_touch", "f")>>}

Chain == {<<n1, n2>>, <<n2, n3>>}

Ladder(comparator, a, b, c, kind, print) ==
    <<Tag("a", comparator, a, "cumulative_touch", "f"), Tag("b", comparator, b, kind, "f"),
      Tag("c", comparator, c, "cumulative_touch", print)>>

MCInputs ==
    [edges : SUBSET (Nodes \X Nodes), tags : NestingTags]
    \cup [edges : {Chain},
          tags : {Ladder(x, a, b, c, k, p) : x \in Cumulative, a \in 1..3, b \in 1..3, c \in {1, 2, 3},
                    k \in {"cumulative_touch", "point_in_time"}, p \in {"f", "g"}}]
    \cup {[edges |-> {}, tags |-> Ladder("by_date", 1, Malformed, 2, "cumulative_touch", "f")]}
=============================================================================
