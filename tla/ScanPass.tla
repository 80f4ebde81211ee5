------------------------------- MODULE ScanPass -------------------------------
(***************************************************************************)
(* One pass of the scanner (src/polyarb/engine/scanner.py) over a market   *)
(* that moves under it: discovery, books fetched one by one (scan_once),   *)
(* or candidates of the cached books confirmed on re-fetched ones          *)
(* (_scan_streaming_once with engine/confirm.py), detection and risk tags, *)
(* and what the opportunities bring in once the markets resolve.           *)
(*                                                                         *)
(* A resolution gives each market the index of the token that wins, or 0   *)
(* for a void; those still possible shrink as markets close.  Tokens are   *)
(* fetched in a fixed order: the books may move between any two fetches,   *)
(* so every mix of old and new books can be fetched.                       *)
(***************************************************************************)
EXTENDS Detectors

CONSTANTS
    Scenarios,   \* what the pass runs in: event, fates, books, menu, settings
    MaxMarkets,  \* max_markets_per_scan
    MaxMoves,    \* bound: changes of a book
    MaxCloses,   \* bound: markets that close
    MaxFails     \* bound: fetches that fail

-----------------------------------------------------------------------------
\* What the pass takes from outside and relies on, without checking it.

\* Every token belongs to one market, at one index.
TokensDistinct(markets) ==
    \A i, j \in DOMAIN markets : \A k \in DOMAIN markets[i].tokens, n \in DOMAIN markets[j].tokens :
        markets[i].tokens[k] = markets[j].tokens[n] => i = j /\ k = n

ClosingPrice(i, winner) == IF winner = 0 THEN Unit \div 2 ELSE IF winner = i THEN Unit ELSE 0

\* The closing prices a market shows, if any, are those of its resolution.
PricesTell(m, winner) ==
    m.closed => m.prices = <<>> \/ m.prices = [i \in DOMAIN m.tokens |-> ClosingPrice(i, winner)]

\* A resolution: an objective source does not void, a negRisk event has at most one YES,
\* and exactly one unless it is augmented or an outcome is void, and the declared
\* relations hold of markets that are not void.
IsFate(e, relations, f) ==
    LET won(i) == f[e.markets[i].id]
        yes(i) == won(i) = YesIndex(e.markets[i])
    IN  /\ \A i \in DOMAIN e.markets :
             /\ won(i) \in 0 .. Len(e.markets[i].tokens) /\ PricesTell(e.markets[i], won(i))
             /\ ClassifyMarket(e.markets[i]) = "objective" => won(i) # 0
        /\ e.neg_risk =>
             /\ \A i, j \in DOMAIN e.markets : yes(i) /\ yes(j) => i = j
             /\ ~e.augmented => \E i \in DOMAIN e.markets : yes(i) \/ won(i) = 0
        /\ \A i, j \in DOMAIN e.markets :
             <<e.markets[i].id, e.markets[j].id>> \in relations /\ yes(i) /\ won(j) # 0 => yes(j)

IsScene(s) ==
    /\ s.event \in Events /\ TokensDistinct(s.event.markets)
    /\ \A f \in s.fates : IsFate(s.event, s.relations, f)
    /\ s.books \in [DOMAIN s.books -> OrderBooks]
    /\ \A t \in DOMAIN s.books : s.menu[t] \subseteq OrderBooks
    /\ s.gas \in Nat /\ s.gas_per_leg \in Nat

\* A void pays half a dollar a share, which Gamma shows as a price of 0.5.
ASSUME ScanPassAssumption ==
    /\ Unit % 2 = 0 /\ ResolvedNoMax \in Nat /\ ResolvedNoMax < Unit \div 2
    /\ MaxMarkets \in Nat
    /\ \A s \in Scenarios : IsScene(s)

-----------------------------------------------------------------------------
VARIABLES
    scene,       \* the scenario; its books are the streaming cache's
    event,       \* external: the event and its markets
    fates,       \* external: the resolutions still possible
    exch,        \* external: token -> book, of the tokens that have one
    known,       \* the event as discovered
    pc,          \* where the pass is
    need, got,   \* tokens still to fetch, the books fetched
    queue,       \* candidates still to confirm
    candidate,   \* the one being confirmed
    reported,    \* opportunities of the pass, of the confirmed ones when streaming
    moves, closes, fails,  \* how much of the bounds is used
    quiet        \* history: no book has moved since the discovery

passVars == <<known, need, got, queue, candidate, reported>>
market == <<scene, event, fates, moves, closes, exch>>
vars == <<market, passVars, pc, fails, quiet>>

Init ==
    /\ scene \in Scenarios
    /\ event = scene.event /\ fates = scene.fates /\ exch = scene.books
    /\ known = scene.event /\ pc = "idle"
    /\ need = <<>> /\ got = <<>> /\ queue = {} /\ candidate = {} /\ reported = {}
    /\ moves = 0 /\ closes = 0 /\ fails = 0 /\ quiet = TRUE

-----------------------------------------------------------------------------
\* External: a book of the exchange is replaced by another one.
Move(t) ==
    /\ pc # "done" /\ moves < MaxMoves
    /\ \E b \in scene.menu[t] \ {exch[t]} : exch' = [exch EXCEPT ![t] = b]
    /\ moves' = moves + 1
    /\ quiet' = FALSE
    /\ UNCHANGED <<scene, event, fates, closes, pc, passVars, fails>>

\* External: a market closes and shows its closing prices, if they are known yet.
Close(k) ==
    LET m == event.markets[k]
    IN  /\ pc = "idle" /\ closes < MaxCloses /\ ~m.closed
        /\ \E w \in {f[m.id] : f \in fates} :
             /\ fates' = {f \in fates : f[m.id] = w}
             /\ \E p \in {[i \in DOMAIN m.tokens |-> ClosingPrice(i, w)], <<>>} :
                  event' = [event EXCEPT !.markets[k] = [m EXCEPT !.closed = TRUE, !.prices = p]]
        /\ closes' = closes + 1
        /\ UNCHANGED <<scene, exch, pc, passVars, moves, fails, quiet>>

-----------------------------------------------------------------------------
\* The capped list of markets of _discover, and the tokens a detector may read.
LiveMarkets(e) == Selected(e.markets, {i \in DOMAIN e.markets : Live(e.markets[i])})

Discovered(e) ==
    LET live == LiveMarkets(e) IN SubSeq(live, 1, Min({MaxMarkets, Len(live)}))

Tokens(markets) == UNION {Range(m.tokens) : m \in Range(markets)}

NeededTokens(e) ==
    Tokens(Discovered(e))
        \cup (IF IsMultiOutcome(e) THEN Tokens(LiveMarkets(e)) ELSE {})

Snapshot(books, markets) ==
    [books |-> books, markets |-> markets, relations |-> scene.relations, event |-> known,
     gas |-> scene.gas, gas_per_leg |-> scene.gas_per_leg]

\* Scanner._detect
Candidates(books) ==
    LET detectors == {"complement", "dependency", "negrisk_basket", "negrisk_dual"}
                        \cup (IF scene.partial THEN {"partial_basket"} ELSE {})
    IN  UNION {Detect(d, Snapshot(books, Discovered(known))) : d \in detectors}

LegTokens(opp) == {opp.legs[i].token : i \in DOMAIN opp.legs}
LegSignature(opp) == <<LegTokens(opp), opp.side>>

Discover ==
    /\ pc = "idle"
    /\ known' = event
    /\ IF scene.streaming
       THEN pc' = "trigger" /\ need' = <<>>
       ELSE pc' = "fetch" /\ need' = SetToSeq(NeededTokens(event))
    /\ quiet' = TRUE
    /\ UNCHANGED <<market, got, queue, candidate, reported, fails>>

\* _fetch_books: a book, or nothing for a token without one, for a failed request and
\* for a book that _fresh_books drops as too old.
Fetch ==
    /\ pc \in {"fetch", "confirm"} /\ need # <<>>
    /\ need' = Tail(need)
    /\ \/ /\ Head(need) \in DOMAIN exch
          /\ got' = [t \in DOMAIN got \cup {Head(need)} |-> IF t = Head(need) THEN exch[t] ELSE got[t]]
          /\ UNCHANGED fails
       \/ /\ Head(need) \notin DOMAIN exch
          /\ UNCHANGED <<got, fails>>
       \/ /\ Head(need) \in DOMAIN exch /\ fails < MaxFails
          /\ fails' = fails + 1
          /\ UNCHANGED got
    /\ UNCHANGED <<market, known, pc, queue, candidate, reported, quiet>>

ScanOnce ==
    /\ pc = "fetch" /\ need = <<>>
    /\ reported' = Candidates(got)
    /\ pc' = "done"
    /\ UNCHANGED <<market, known, need, got, queue, candidate, fails, quiet>>

\* Detection on the cache gives the candidates to confirm.
Trigger ==
    /\ pc = "trigger"
    /\ queue' = Candidates(Restrict(scene.books, DOMAIN scene.books \cap NeededTokens(known)))
    /\ pc' = "choose"
    /\ UNCHANGED <<market, known, need, got, candidate, reported, fails, quiet>>

Choose ==
    /\ pc = "choose"
    /\ candidate' \in queue
    /\ queue' = queue \ {candidate'}
    /\ need' = SetToSeq(LegTokens(candidate')) /\ got' = <<>>
    /\ pc' = "confirm"
    /\ UNCHANGED <<market, known, reported, fails, quiet>>

\* Variant (seeded fault): a confirmed candidate is reported as it was detected.
ConfirmedAsDetected(c) ==
    LET snap == Snapshot(got, SetToSeq(c.markets))
    IN  {o \in {c} : \E p \in Detect(c.detector, snap) : LegSignature(p) = LegSignature(c)}

\* confirm_candidate: the detector runs again on the re-fetched books of the legs, with
\* the markets of the candidate, and what has the same legs is reported in its place.
Confirmed(c) ==
    {o \in Detect(c.detector, Snapshot(got, SetToSeq(c.markets))) :
        LegSignature(o) = LegSignature(c)}

Confirm ==
    /\ pc = "confirm" /\ need = <<>>
    /\ reported' = reported \cup Confirmed(candidate)
    /\ pc' = "choose"
    /\ UNCHANGED <<market, known, need, got, queue, candidate, fails, quiet>>

Exchange ==
    \/ \E t \in DOMAIN exch : Move(t)
    \/ \E k \in DOMAIN event.markets : Close(k)

Next == Exchange \/ Discover \/ Fetch \/ ScanOnce \/ Trigger \/ Choose \/ Confirm

Spec == Init /\ [][Next]_vars

-----------------------------------------------------------------------------
\* What a share of a token pays at a resolution, in money.
Payout(t, w) ==
    LET m == CHOOSE k \in Range(scene.event.markets) : t \in Range(k.tokens)
    IN  Coin * ClosingPrice(CHOOSE i \in DOMAIN m.tokens : m.tokens[i] = t, w[m.id])

\* settle: the profit the ledger will record of an opportunity.
SettledPnl(o, w) ==
    LET gain(i) == o.size * Payout(o.legs[i].token, w) - Coin * o.legs[i].spent
        gains == SumFunction([i \in DOMAIN o.legs |-> gain(i)])
    IN  (IF o.side = "buy" THEN gains ELSE -gains) - o.gas

Structural == {o \in reported : o.detector # "partial_basket"}

\* A basket of YES survives no void; the other locks only take markets that do not void.
Covered(o, w) == o.detector = "negrisk_basket" => \A m \in o.markets : w[m.id] # 0

TypeOK ==
    /\ pc \in {"idle", "fetch", "done", "trigger", "choose", "confirm"}
    /\ DOMAIN got \subseteq DOMAIN exch
    /\ Range(need) \subseteq Tokens(known.markets)
    /\ \A o \in reported \cup queue :
         o.net > 0 /\ o.size > 0 /\ ResolutionRiskFor(o) \in Range(RiskOrder)

(* A reported lock is a lock: however its markets resolve, it brings in at *)
(* least the net profit it was reported with, after the fees and the gas   *)
(* of its legs.  A partition with a hole, a winner that closed first, a    *)
(* reversed Yes/No pair, an outcome outside an augmented event, a declared *)
(* relation read backwards or a void in a dual or a dependency breaks it.  *)
LockPays ==
    \A o \in Structural, w \in fates : Covered(o, w) => SettledPnl(o, w) - o.fees >= o.net

(* When no book has moved since the discovery, what is reported could be   *)
(* traded as reported, all legs at once: the candidate of a stale cache is *)
(* never reported, only what the re-fetched books repeat.  (When a book    *)
(* moves between two fetches, legs of different moments are combined.)     *)
QuietMeansExecutable == quiet => Structural \subseteq Candidates(exch)

(* The two complement trades of a market exclude each other, and so do a   *)
(* full basket and a partial one of the event (complement.py, "mutually    *)
(* exclusive on a non-crossed book"; partial_basket.py, "if every live leg *)
(* is buyable, the structural basket handles it").                         *)
AtMostOneSide ==
    \A o, p \in reported :
        /\ o.detector = "complement" /\ p.detector = "complement" /\ o.markets = p.markets => o = p
        /\ o.detector = "partial_basket" => p.detector # "negrisk_basket"

(* A directional bet ranks after every structural opportunity whose        *)
(* markets are not disputed, by the tag the ranking sorts by first.        *)
DirectionalRanksLast ==
    \A p \in reported \ Structural, o \in Structural :
        (\A m \in o.markets : ~m.disputed) =>
            RiskRank(ResolutionRiskFor(o)) < RiskRank(ResolutionRiskFor(p))

(* A code comment calls the profit the ledger records "net profit vs       *)
(* entry", and a complement realizes the profit it is reported with in any *)
(* outcome, so that the two should be the same.  The ledger leaves out the *)
(* fees.                                                                   *)
AuditIsNetProfit ==
    \A o \in reported, w \in fates : o.realizes = "instant" => SettledPnl(o, w) = o.net
=============================================================================
