------------------------------ MODULE DepthWalk -------------------------------
(***************************************************************************)
(* The loop of walk_buy_legs and walk_sell_legs (pricing/sizing.py), turn  *)
(* by turn, against buying and selling share by share.                     *)
(***************************************************************************)
EXTENDS Sizing

CONSTANT Orders  \* the walks asked for

ASSUME DepthWalkAssumption == \A o \in Orders : IsOrder(o)

VARIABLES
    order,  \* the arguments
    walk    \* the loop's variables: at (idx), remaining, size, spent, fees

walkVars == <<order, walk>>

WalkInit == order \in Orders /\ walk = Start(order)

Turn ==
    /\ Continues(order, walk)
    /\ walk' = Slice(order, walk)
    /\ UNCHANGED order

WalkNext == Turn

WalkSpec == WalkInit /\ [][WalkNext]_walkVars /\ WF_walkVars(WalkNext)

-----------------------------------------------------------------------------
Ended == ~Continues(order, walk)

\* The reference: n sets, each leg's n best shares one by one.  A leg's s-th share
\* is at the best price up to which its valid levels hold s shares.
Share(levels, s) ==
    LET within == {l.price : l \in {m \in Range(levels) :
                                       DepthAtOrBetter(order.side, levels, m.price) >= s}}
    IN  IF order.side = "buy" THEN Min(within) ELSE Max(within)

MaxSets ==
    IF order.legs = <<>> THEN 0
    ELSE Min({SumFunction([k \in DOMAIN Valid(order.legs[i]) |-> Valid(order.legs[i])[k].size]) :
                 i \in DOMAIN order.legs})

SetPrices(s) == [i \in DOMAIN order.legs |-> Share(Valid(order.legs[i]), s)]
NetOf(n) == SumFunction([s \in 1..n |-> Margin(order, SetPrices(s))])

(* The walk is as good as buying share by share: it ends with the largest  *)
(* net profit any number of sets has, with the fewest sets that have it,   *)
(* and each leg has been charged its cheapest (dearest) shares.  An        *)
(* unsorted feed, equal prices, phantom levels and levels of unequal size  *)
(* that the legs finish at different times are where the walk could slip.  *)
WalkIsOptimal ==
    Ended =>
        LET best == Max({NetOf(n) : n \in 0..MaxSets})
        IN  /\ Net(order, walk) = best
            /\ walk.size = Min({n \in 0..MaxSets : NetOf(n) = best})
            /\ \A i \in DOMAIN order.legs :
                 walk.spent[i] =
                    SumFunction([s \in 1..walk.size |-> Share(Valid(order.legs[i]), s)])

(* The one-shot size reported beside a profitable walk (the thinnest best  *)
(* level) never exceeds the size the walk reports: the pessimistic         *)
(* companion is a lower bound of the optimistic one.                       *)
ConservativeIsWithin ==
    (Ended /\ walk.size > 0) =>
        TopLevelMinDepth(order.side, order.legs) \in 1..walk.size

(* The walk ends, with the value Walked gives to the detectors.            *)
WalkEnds == <>[](Ended /\ walk = Walked(order))
=============================================================================
