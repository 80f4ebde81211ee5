------------------------------ MODULE Detectors -------------------------------
(***************************************************************************)
(* The five detectors (src/polyarb/detectors/): what each reports of one   *)
(* snapshot of markets and order books, with the guards it shares (crossed *)
(* and corrupt books, the live partition of an event, gas) and the risk    *)
(* tag of what it reports (resolution/risk.py).                            *)
(*                                                                         *)
(* Amounts are totals over the reported size, in money times `per` (see    *)
(* Sizing).  Basis points, annualized return and wording are left out.     *)
(***************************************************************************)
EXTENDS Sizing, SequencesExt

CONSTANTS
    CorruptBidMax, CorruptAskMin,  \* ticks: 0.01 and 0.99
    ResolvedNoMax                  \* ticks: _RESOLVED_NO_MAX, 0.02

OrderBooks == [bids : Seq(Quote), asks : Seq(Quote)]

\* A market as Gamma shows it.  A binary market has two tokens and two outcomes; prices
\* are as many as outcomes, or none; best_ask is Gamma's cached YES ask, 0 for none.
Markets ==
    [id : STRING, tokens : Seq(STRING), outcomes : Seq(STRING), category : STRING,
     disputed : BOOLEAN, long_window : BOOLEAN, fee_free : BOOLEAN, fee_rate : 0 .. RateUnit,
     active : BOOLEAN, accepting : BOOLEAN, closed : BOOLEAN,
     prices : Seq(0 .. Unit), best_ask : 0 .. Unit]
Events ==
    [neg_risk : BOOLEAN, augmented : BOOLEAN, active : BOOLEAN, closed : BOOLEAN,
     markets : Seq(Markets)]

\* A snapshot: books (token -> book), markets, relations, event, gas, gas_per_leg.
IsBinary(m) == Len(m.tokens) = 2
YesIndex(m) == IF m.outcomes = <<"No", "Yes">> THEN 2 ELSE 1
YesToken(m) == m.tokens[YesIndex(m)]
NoToken(m) == m.tokens[3 - YesIndex(m)]
Live(m) == IsBinary(m) /\ m.active /\ m.accepting /\ ~m.closed
IsMultiOutcome(event) == event.neg_risk /\ Len(event.markets) >= 3

-----------------------------------------------------------------------------
RiskOrder == <<"objective", "standard", "elevated", "directional", "at_risk">>
RiskRank(risk) == CHOOSE i \in DOMAIN RiskOrder : RiskOrder[i] = risk

ClassifyMarket(m) ==
    CASE m.disputed -> "at_risk"
      [] ~m.disputed /\ m.long_window -> "elevated"
      [] ~m.disputed /\ ~m.long_window /\ m.category = "price" -> "objective"
      [] ~m.disputed /\ ~m.long_window /\ m.category = "politics" -> "elevated"
      [] OTHER -> "standard"

WorstRisk(risks) == RiskOrder[Max({RiskRank(r) : r \in risks})]
AggregateRisk(markets) ==
    IF markets = {} THEN "standard" ELSE WorstRisk({ClassifyMarket(m) : m \in markets})

\* Variant (seeded fault): a partial basket has the risk of its markets.
RiskOfMarkets(opp) ==
    IF opp.realizes = "instant" THEN "objective" ELSE AggregateRisk(opp.markets)

\* A merge or a split does not wait for the resolution.
ResolutionRiskFor(opp) ==
    IF opp.detector = "partial_basket"
    THEN WorstRisk({"directional", AggregateRisk(opp.markets)})
    ELSE IF opp.realizes = "instant" THEN "objective" ELSE AggregateRisk(opp.markets)

-----------------------------------------------------------------------------
BestAsk(book) == Min({book.asks[i].price : i \in ValidAt(book.asks)})

\* is_corrupt_book: the spread has collapsed to the extremes.
IsCorrupt(book) ==
    /\ ValidAt(book.bids) # {} /\ ValidAt(book.asks) # {}
    /\ \A i \in ValidAt(book.bids) : book.bids[i].price <= CorruptBidMax
    /\ \A i \in ValidAt(book.asks) : book.asks[i].price >= CorruptAskMin

Quoted(snap, t) == t \in DOMAIN snap.books /\ ValidAt(snap.books[t].asks) # {}
Buyable(snap, t) == Quoted(snap, t) /\ ~IsCrossed(snap.books[t])
Sound(snap, t) == Buyable(snap, t) /\ ~IsCorrupt(snap.books[t])

\* Variant (seeded fault): any closed market drops out of the partition.
ClosedOrLive(m) == m.closed \/ Live(m)

\* A market that has lost may drop out of a partition, any other must be live.
LostOrLive(m) ==
    IF m.closed
    THEN Len(m.prices) >= YesIndex(m) /\ m.prices[YesIndex(m)] <= ResolvedNoMax
    ELSE Live(m)

\* live_partition; <<>> stands for None.
LivePartition(event, skip_augmented) ==
    LET live == Selected(event.markets, {i \in DOMAIN event.markets : ~event.markets[i].closed})
    IN  IF /\ ~(skip_augmented /\ event.augmented)
           /\ event.active /\ ~event.closed
           /\ \A m \in Range(event.markets) : LostOrLive(m)
           /\ Len(live) >= 2
        THEN live ELSE <<>>

GasFor(snap, legs) == snap.gas + snap.gas_per_leg * legs

\* Variant (seeded fault): the gas is left out of the guard.
ClearsFees(o, w, gas) == Net(o, w) > 0

Clears(o, w, gas) == Net(o, w) - o.per * gas > 0

\* walk_and_size_buy_basket (and its selling counterpart) with make_opportunity: the
\* opportunity of trading one share of each token of `markets` per set, if it pays.
Opportunities(detector, snap, side, markets, tokens, worth, per, realizes) ==
    LET levels(t) == IF side = "buy" THEN snap.books[t].asks ELSE snap.books[t].bids
        n == Len(tokens)
        o == [side |-> side, worth |-> worth, per |-> per,
              legs |-> [i \in 1..n |-> levels(tokens[i])],
              rates |-> [i \in 1..n |-> FeeRate(markets[i])]]
        w == Walked(o)
        gas == GasFor(snap, n)
    IN  IF w.size = 0 \/ ~Clears(o, w, gas) THEN {}
        ELSE {[detector |-> detector, side |-> side, realizes |-> realizes,
               markets |-> Range(markets), size |-> w.size,
               conservative |-> TopLevelMinDepth(side, o.legs),
               legs |-> [i \in 1..n |-> [token |-> tokens[i], spent |-> w.spent[i]]],
               fees |-> w.fees, gas |-> gas, net |-> Net(o, w) - per * gas]}

Complement(snap) ==
    LET pair(m) == <<YesToken(m), NoToken(m)>>
        sound(t) == /\ t \in DOMAIN snap.books
                    /\ ~IsCrossed(snap.books[t]) /\ ~IsCorrupt(snap.books[t])
        trade(m, side) == Opportunities("complement", snap, side, <<m, m>>, pair(m), 1, 1, "instant")
    IN  UNION {trade(m, side) :
                 m \in {k \in Range(snap.markets) : IsBinary(k) /\ \A t \in Range(pair(k)) : sound(t)},
                 side \in {"buy", "sell"}}

\* For a declared A => B: buy YES of B and NO of A.
Dependency(snap) ==
    LET trade(a, b) == Opportunities("dependency", snap, "buy", <<b, a>>,
                                     <<YesToken(b), NoToken(a)>>, 1, 1, "resolution")
    IN  UNION {trade(q[1], q[2]) : q \in
          {p \in Range(snap.markets) \X Range(snap.markets) :
             /\ <<p[1].id, p[2].id>> \in snap.relations /\ p[1] # p[2]
             /\ \A m \in Range(p) : IsBinary(m) /\ ClassifyMarket(m) = "objective"
             /\ Buyable(snap, NoToken(p[1])) /\ Buyable(snap, YesToken(p[2]))}}

\* All YES of the live partition, which is worth 1, or all NO, worth all but one.
NegRiskBasket(snap) ==
    LET live == LivePartition(snap.event, TRUE)
        tokens == [i \in DOMAIN live |-> YesToken(live[i])]
    IN  IF live # <<>> /\ \A t \in Range(tokens) : Sound(snap, t)
        THEN Opportunities("negrisk_basket", snap, "buy", live, tokens, 1, 1, "resolution")
        ELSE {}

NegRiskDual(snap) ==
    LET live == LivePartition(snap.event, FALSE)
        tokens == [i \in DOMAIN live |-> NoToken(live[i])]
    IN  IF /\ live # <<>> /\ \A m \in Range(live) : ClassifyMarket(m) = "objective"
           /\ \A t \in Range(tokens) : Sound(snap, t)
        THEN Opportunities("negrisk_dual", snap, "buy", live, tokens, Len(live) - 1, 1, "resolution")
        ELSE {}

\* The buyable part of an underpriced partition, at its share of the implied probability.
PartialBasket(snap) ==
    LET live == LivePartition(snap.event, TRUE)
        buyable(m) == Buyable(snap, YesToken(m))
        some == Selected(live, {i \in DOMAIN live : buyable(live[i])})
        ask(m) == IF buyable(m) THEN BestAsk(snap.books[YesToken(m)]) ELSE m.best_ask
        sum(ms) == SumFunction([i \in DOMAIN ms |-> ask(ms[i])])
    IN  IF /\ Len(some) >= 2 /\ Len(some) < Len(live)
           /\ \A m \in Range(live) : ask(m) > 0
           /\ sum(live) < Unit
        THEN Opportunities("partial_basket", snap, "buy", some,
                           [i \in DOMAIN some |-> YesToken(some[i])],
                           sum(some), sum(live), "resolution")
        ELSE {}

EventDetectors == {"negrisk_basket", "negrisk_dual", "partial_basket"}

Detect(detector, snap) ==
    IF detector \in EventDetectors /\ ~IsMultiOutcome(snap.event) THEN {}
    ELSE CASE detector = "complement" -> Complement(snap)
           [] detector = "dependency" -> Dependency(snap)
           [] detector = "negrisk_basket" -> NegRiskBasket(snap)
           [] detector = "negrisk_dual" -> NegRiskDual(snap)
           [] detector = "partial_basket" -> PartialBasket(snap)
=============================================================================
