------------------------------ MODULE MCScanPass ------------------------------
(* Three markets a, b, c: the outcomes of an event that excludes all but    *)
(* one (b with its outcomes in reverse order), or markets of their own with *)
(* the declared relations a => b and c => c.  A market resolves to its      *)
(* first or second outcome, or voids when its source may void.  The books   *)
(* are cheap, dear, crossed, corrupt or missing, with up to two levels.     *)
EXTENDS ScanPass

Ids == <<"a", "b", "c">>
Yes(i) == <<"a.yes", "b.yes", "c.yes">>[i]
No(i) == <<"a.no", "b.no", "c.no">>[i]
AllTokens == {Yes(i) : i \in 1..3} \cup {No(i) : i \in 1..3}

Market(i, category, disputed, paused) ==
    [id |-> Ids[i], category |-> category, disputed |-> disputed, long_window |-> FALSE,
     tokens |-> IF i = 2 THEN <<No(i), Yes(i)>> ELSE <<Yes(i), No(i)>>,
     outcomes |-> IF i = 2 THEN <<"No", "Yes">> ELSE <<"Yes", "No">>,
     fee_free |-> i = 3, fee_rate |-> 1, active |-> TRUE, accepting |-> ~paused,
     closed |-> FALSE, prices |-> <<>>, best_ask |-> 3]

Event(neg_risk, augmented, category, disputed, paused) ==
    [neg_risk |-> neg_risk, augmented |-> augmented, active |-> TRUE, closed |-> FALSE,
     markets |-> [i \in 1..3 |-> Market(i, category, disputed /\ i = 1, paused /\ i = 3)]]

L(p, s) == [price |-> p, size |-> s]
Book(bids, asks) == [bids |-> bids, asks |-> asks]
CheapYes == Book(<<L(1, 1)>>, <<L(4, 2), L(2, 1)>>)
DearYes == Book(<<L(6, 1), L(5, 1)>>, <<L(7, 1)>>)
CheapNo == Book(<<L(4, 1)>>, <<L(5, 1), L(6, 2)>>)
DearNo == Book(<<L(6, 2)>>, <<L(8, 1)>>)
Crossed == Book(<<L(7, 1), L(2, 1)>>, <<L(3, 1)>>)
Corrupt == Book(<<L(1, 5)>>, <<L(9, 5)>>)

IsYes(t) == \E i \in 1..3 : t = Yes(i)
Cheap == [t \in AllTokens |-> IF IsYes(t) THEN CheapYes ELSE CheapNo]
Dear == [t \in AllTokens |-> IF IsYes(t) THEN DearYes ELSE DearNo]
Quotes == {
    Cheap,
    [t \in AllTokens |-> IF IsYes(t) THEN CheapYes ELSE DearNo],
    [Dear EXCEPT ![No(1)] = CheapNo],
    [t \in AllTokens \ {Yes(3)} |-> IF IsYes(t) THEN CheapYes ELSE DearNo],
    [t \in AllTokens |-> IF IsYes(t) THEN DearYes ELSE CheapNo],
    [Cheap EXCEPT ![Yes(3)] = Crossed, ![No(1)] = Corrupt]}
Menu == [t \in AllTokens |->
    IF IsYes(t) THEN {CheapYes, DearYes} ELSE {CheapNo, DearNo}]

\* The outcomes the markets may have: the index of the winning token, 0 for a void.
YesAt(i) == IF i = 2 THEN 2 ELSE 1
Fates(e) ==
    LET may == {0, 1, 2}
        yes(w) == {i \in 1..3 : w[Ids[i]] = YesAt(i)}
        void(w) == {i \in 1..3 : w[Ids[i]] = 0}
    IN  {w \in [Range(Ids) -> may] :
          /\ \A i \in void(w) : ClassifyMarket(e.markets[i]) # "objective"
          /\ IF e.neg_risk
             THEN Cardinality(yes(w)) <= 1 /\ (e.augmented \/ yes(w) \cup void(w) # {})
             ELSE (1 \in yes(w) /\ 2 \notin void(w)) => 2 \in yes(w)}

Scene(e, q, streaming) ==
    [event |-> e, fates |-> Fates(e), books |-> q, menu |-> Menu, streaming |-> streaming,
     partial |-> TRUE, gas |-> 60, gas_per_leg |-> 10,
     relations |-> IF e.neg_risk THEN {} ELSE {<<"a", "b">>, <<"c", "c">>}]

MCEvents ==
    {Event(TRUE, FALSE, c, FALSE, FALSE) : c \in {"price", "politics"}}
    \cup {Event(TRUE, TRUE, "price", FALSE, FALSE), Event(TRUE, FALSE, "price", TRUE, FALSE),
          Event(TRUE, FALSE, "price", FALSE, TRUE), Event(FALSE, FALSE, "price", FALSE, FALSE),
          Event(FALSE, FALSE, "politics", FALSE, FALSE)}

MCScenarios ==
    {Scene(e, q, s) : e \in MCEvents, q \in Quotes, s \in BOOLEAN}
=============================================================================
