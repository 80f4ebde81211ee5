----------------------------- MODULE MCDepthWalk ------------------------------
(* Two legs of up to two levels in any order of price, one of them free of  *)
(* fees or not, and three legs of one level: a phantom level, equal prices, *)
(* levels finished together or apart, a set worth less or more than 1.      *)
EXTENDS DepthWalk

Level == [price : {0, 1, 2, 3}, size : {1, 2}] \cup {[price |-> 1, size |-> 0]}
Books == {<<>>} \cup {<<l>> : l \in Level} \cup {<<l, m>> : l \in Level, m \in Level}
Thin == {<<l>> : l \in [price : {1, 2}, size : {1, 2}]}

Order(side, legs, rates, worth, per) ==
    [side |-> side, legs |-> legs, rates |-> rates, worth |-> worth, per |-> per]

MCOrders ==
    {Order(s, <<a, b>>, <<0, r>>, 1, 1) :
        s \in {"buy", "sell"}, a \in Books, b \in Books, r \in {0, 2}}
    \cup {Order("buy", <<a, b, c>>, <<1, 2, 0>>, worth, per) :
        a \in Thin, b \in Thin, c \in Thin, worth \in {1, 2}, per \in {1, 2}}
    \cup {Order("buy", <<>>, <<>>, 1, 1)}
=============================================================================
