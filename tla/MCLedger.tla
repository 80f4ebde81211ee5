------------------------------ MODULE MCLedger -------------------------------
(* Two markets.  One dependency event seen at two prices, which loses in    *)
(* some outcomes and is a void in others, and one directional bet that may  *)
(* lose: three opportunities, two fingerprints.                             *)
EXTENDS Ledger

MCTokens == {"yes1", "no1", "yes2", "no2"}

MCTokensOf ==
    [m \in Markets |-> IF m = "m1" THEN <<"yes1", "no1">> ELSE <<"yes2", "no2">>]

Buy(token, price) == [token |-> token, side |-> "buy", price |-> price, size |-> 10]

Ladder(p, q) ==
    [detector |-> "dependency", conditions |-> {"m1", "m2"},
     legs |-> <<Buy("yes2", p), Buy("no1", q)>>, gas |-> 2]

Bet == [detector |-> "partial_basket", conditions |-> {"m2"},
        legs |-> <<Buy("yes2", 40)>>, gas |-> 1]

MCOpportunities == {Ladder(45, 50), Ladder(30, 60), Bet}
=============================================================================
