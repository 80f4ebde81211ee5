-------------------------------- MODULE Sizing --------------------------------
(***************************************************************************)
(* Executable sizing from order-book depth (src/polyarb/pricing/sizing.py) *)
(* net of taker fees (pricing/fees.py): the joint walk of walk_buy_legs    *)
(* and walk_sell_legs, one price slice at a time.                          *)
(*                                                                         *)
(* Decimals are exact, so a price is an integer of Unit ticks to the       *)
(* dollar, a fee rate an integer of RateUnit parts, and money an integer   *)
(* of Coin units to the tick, which makes every product whole.  An order   *)
(* is a walk's arguments: the side, the levels and the fee rate of each    *)
(* leg, and what a completed set is worth, worth / per of a dollar.        *)
(***************************************************************************)
EXTENDS Arrangements, Sequences, FiniteSetsExt, Functions

CONSTANTS
    Unit,     \* ticks in a dollar (ONE)
    RateUnit  \* parts of a fee rate of 1

ASSUME SizingAssumption == Unit \in Nat \ {0} /\ RateUnit \in Nat \ {0}

Coin == Unit * RateUnit
Dollar == Unit * Coin

\* taker_fee of one share, and fee_rate_for.
TakerFee(price, rate) == IF 0 < price /\ price < Unit THEN rate * price * (Unit - price) ELSE 0
FeeRate(market) == IF market.fee_free THEN 0 ELSE market.fee_rate

\* A level with no size or no price is an artefact of the feed.
ValidAt(levels) == {i \in DOMAIN levels : levels[i].size > 0 /\ levels[i].price > 0}
Valid(levels) == Selected(levels, ValidAt(levels))

Better(side, p, q) == IF side = "buy" THEN p <= q ELSE p >= q
\* Variant (seeded fault): the feed is trusted to be sorted.
SortedByFeed(side, levels) == Valid(levels)

Sorted(side, levels) ==
    Arranged(levels, ValidAt(levels),
             [i \in ValidAt(levels) |-> IF side = "buy" THEN levels[i].price ELSE -levels[i].price])

DepthAtOrBetter(side, levels, limit) ==
    SumFunction([i \in DOMAIN levels |->
        IF Better(side, levels[i].price, limit) THEN levels[i].size ELSE 0])

\* Variant (seeded fault): the one-shot size of the deepest leg.
TopLevelMaxDepth(side, legs) ==
    Max({0} \cup {Sorted(side, legs[i])[1].size : i \in {k \in DOMAIN legs : ValidAt(legs[k]) # {}}})

\* top_level_min_depth: the first of a leg's best levels, on its thinnest leg.
TopLevelMinDepth(side, legs) ==
    IF \E i \in DOMAIN legs : ValidAt(legs[i]) = {} THEN 0
    ELSE Min({Sorted(side, legs[i])[1].size : i \in DOMAIN legs})

\* Variant (seeded fault): the worst levels are compared instead of the best.
IsCrossedThroughout(book) ==
    \A i \in ValidAt(book.bids), j \in ValidAt(book.asks) : book.bids[i].price >= book.asks[j].price

IsCrossed(book) ==
    \E i \in ValidAt(book.bids), j \in ValidAt(book.asks) : book.bids[i].price >= book.asks[j].price

-----------------------------------------------------------------------------
\* The arguments of a walk.  No market charges more than the price it charges for.
Quote == [price : Int, size : Int]

IsOrder(o) ==
    /\ o.side \in {"buy", "sell"} /\ o.worth \in Nat /\ o.per \in Nat \ {0}
    /\ o.legs \in Seq(Seq(Quote)) /\ o.rates \in [DOMAIN o.legs -> 0 .. RateUnit]

Start(o) ==
    LET sorted == [i \in DOMAIN o.legs |-> Sorted(o.side, o.legs[i])]
    IN
    [sorted |-> sorted,
     at |-> [i \in DOMAIN o.legs |-> 1],
     remaining |-> [i \in DOMAIN o.legs |-> IF sorted[i] = <<>> THEN 0 ELSE sorted[i][1].size],
     size |-> 0, spent |-> [i \in DOMAIN o.legs |-> 0], fees |-> 0]

Exhausted(o, w) == o.legs = <<>> \/ \E i \in DOMAIN o.legs : w.at[i] > Len(w.sorted[i])

Prices(o, w) == [i \in DOMAIN o.legs |-> w.sorted[i][w.at[i]].price]
SetFee(o, prices) == SumFunction([i \in DOMAIN o.legs |-> TakerFee(prices[i], o.rates[i])])

\* What one set at these prices brings in net of fees, `per` times over.
Margin(o, prices) ==
    LET trade == o.per * Coin * SumFunction(prices) - o.worth * Dollar
    IN  (IF o.side = "buy" THEN -trade ELSE trade) - o.per * SetFee(o, prices)

Continues(o, w) == ~Exhausted(o, w) /\ Margin(o, Prices(o, w)) > 0

\* As many sets as every leg has at its current price.
Chunk(o, w) == Min({w.remaining[i] : i \in DOMAIN o.legs})

\* One turn of the loop.
Slice(o, w) ==
    LET prices == Prices(o, w)
        chunk == Chunk(o, w)
        gone(i) == w.remaining[i] = chunk
        next(i) == w.at[i] + 1
    IN  [sorted |-> w.sorted,
         at |-> [i \in DOMAIN o.legs |-> IF gone(i) THEN next(i) ELSE w.at[i]],
         remaining |-> [i \in DOMAIN o.legs |->
            IF gone(i) /\ next(i) <= Len(w.sorted[i]) THEN w.sorted[i][next(i)].size
            ELSE w.remaining[i] - chunk],
         size |-> w.size + chunk,
         spent |-> [i \in DOMAIN o.legs |-> w.spent[i] + chunk * prices[i]],
         fees |-> w.fees + chunk * SetFee(o, prices)]

\* The walk after a number of turns, and to its end: a turn uses up a level at least.
WalkedFor(o, turns) ==
    LET after[n \in 0..turns] ==
            IF n = 0 THEN Start(o)
            ELSE LET w == after[n - 1] IN IF Continues(o, w) THEN Slice(o, w) ELSE w
    IN  after[turns]

\* Variant (seeded fault): the levels of the deepest leg bound the walk.
WalkedByLeg(o) == WalkedFor(o, Max({0} \cup {Len(o.legs[i]) : i \in DOMAIN o.legs}))

Walked(o) == WalkedFor(o, SumFunction([i \in DOMAIN o.legs |-> Len(o.legs[i])]))

\* The profit of a walk in money, before gas, `per` times over.
Net(o, w) ==
    LET trade == o.per * Coin * SumFunction(w.spent) - w.size * o.worth * Dollar
    IN  (IF o.side = "buy" THEN -trade ELSE trade) - o.per * w.fees
=============================================================================
